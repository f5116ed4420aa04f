------------------------------ MODULE LogsProofs ------------------------------
(***************************************************************************)
(* Proofs about Logs for any number of captures and records and any limit  *)
(* of the buffer: nothing is lost, repeated or reordered on the way from a *)
(* log call to the terminal and to the run log.                            *)
(*                                                                         *)
(* What makes it hold is that the three routes never overlap: while the    *)
(* descriptors are redirected, the terminal handler that could feed the    *)
(* pipe has been pointed elsewhere, or does not exist yet; a log starts    *)
(* empty, so the replayed buffer comes before what is logged to it; and    *)
(* the buffer is never longer than what was logged.                        *)
(***************************************************************************)
EXTENDS Logs, SequenceTheorems, TLAPS

\* Every route holds a sequence of the records logged so far.
Routes ==
    /\ logged \in Seq([level : Levels, told : BOOLEAN, live : BOOLEAN, of : 0..MaxCaptures])
    /\ Len(logged) <= MaxRecords
    /\ buffer \in Seq(1..Len(logged))
    /\ screen \in Seq(1..Len(logged))
    /\ files \in [Captures -> Seq(1..Len(logged))]

Places ==
    /\ terminal \in Levels \cup {Off}
    /\ stream \in {"stderr", "saved"}
    /\ stage \in {"none", "checking", "attached", "redirected", "restored"}
    /\ n \in 0..MaxCaptures
    /\ stage # "none" => n >= 1

\* Nothing the terminal handler writes goes into the run log's pipe.
PipeUnfed ==
    /\ ThroughPipe => terminal = Off
    /\ stage # "redirected" => stream = "stderr"

\* A log that has not been attached yet is empty.
UnopenedEmpty ==
    \A m \in Captures : m > n \/ (m = n /\ stage = "checking") => files[m] = <<>>

\* The buffer holds records in their order, and has not overflowed as long as
\* fewer than its limit were logged.
BufferInOrder ==
    /\ Rising(buffer)
    /\ Len(buffer) <= Len(logged)
    /\ Len(buffer) <= BufferLimit

\* A record made while a log was open belongs to a capture.
LiveHasCapture == \A i \in 1..Len(logged) : logged[i].live => logged[i].of \in Captures

IInv ==
    /\ Routes
    /\ Places
    /\ PipeUnfed
    /\ UnopenedEmpty
    /\ BufferInOrder
    /\ LiveHasCapture
    /\ FileInOrder
    /\ TerminalTold
    /\ NothingForgotten

-----------------------------------------------------------------------------
\* A number above every element keeps a rising sequence rising.
LEMMA RisingAppend ==
    ASSUME NEW k \in Nat, NEW s \in Seq(1..k), Rising(s)
    PROVE  /\ Append(s, k + 1) \in Seq(1..(k + 1))
           /\ Rising(Append(s, k + 1))
           /\ Elements(Append(s, k + 1)) = Elements(s) \cup {k + 1}
           /\ Len(Append(s, k + 1)) = Len(s) + 1
<1>1. s \in Seq(1..(k + 1)) /\ k + 1 \in 1..(k + 1)
  BY SeqMonotonic
<1> DEFINE t == Append(s, k + 1)
<1>2. /\ t \in Seq(1..(k + 1))
      /\ Len(t) = Len(s) + 1
      /\ \A i \in 1..Len(s) : t[i] = s[i]
      /\ t[Len(s) + 1] = k + 1
      /\ Len(s) \in Nat
  BY <1>1, AppendProperties, LenProperties
<1> HIDE DEF t
<1>3. \A i \in 1..Len(s) : s[i] \in 1..k
  BY ElementOfSeq
<1>4. Rising(t)
  <2> SUFFICES ASSUME NEW i \in 1..(Len(s) + 1), NEW j \in 1..(Len(s) + 1), i < j
               PROVE  t[i] < t[j]
    BY <1>2 DEF Rising
  <2>1. i \in 1..Len(s) /\ t[i] = s[i] /\ s[i] \in 1..k
    BY <1>2, <1>3
  <2>2. CASE j = Len(s) + 1
    BY <1>2, <2>1, <2>2
  <2>3. CASE j # Len(s) + 1
    <3>1. Len(s) \in Nat /\ j \in 1..(Len(s) + 1) /\ j # Len(s) + 1
      BY <1>2, <2>3
    <3>2. j \in 1..Len(s)
      BY <3>1
    <3>3. t[j] = s[j]
      BY <1>2, <3>2
    <3> QED
      BY <2>1, <3>2, <3>3 DEF Rising
  <2> QED
    BY <2>2, <2>3
<1>5. Elements(t) = Elements(s) \cup {k + 1}
  <2>1. 1..Len(t) = 1..Len(s) \cup {Len(s) + 1}
    BY <1>2
  <2>2. \A x : (\E i \in 1..Len(t) : x = t[i])
             <=> (\E i \in 1..Len(s) : x = s[i]) \/ x = k + 1
    BY <1>2, <2>1
  <2> QED
    BY <2>2 DEF Elements
<1> QED
  BY <1>2, <1>4, <1>5 DEF t

\* What a log file gains when a record reaches it once, or not at all.
LEMMA GainsAtMostOne ==
    ASSUME NEW S, NEW s \in Seq(S), NEW id \in S
    PROVE  /\ s \o <<id>> \o <<>> = Append(s, id)
           /\ s \o <<>> \o <<>> = s
<1>1. <<id>> \in Seq(S) /\ <<>> \in Seq(S)
  OBVIOUS
<1>2. s \o <<id>> = Append(s, id) /\ s \o <<id>> \in Seq(S)
  BY <1>1, AppendIsConcat, ConcatProperties
<1> QED
  BY <1>2, ConcatEmptySeq

\* A sequence of earlier records is one of records still.
LEMMA Monotonic ==
    ASSUME NEW k \in Nat, NEW s \in Seq(1..k)
    PROVE  s \in Seq(1..(k + 1))
BY SeqMonotonic

\* A process starts with nothing logged and no terminal handler.
LEMMA InitIInv == Init => IInv
<1> SUFFICES ASSUME Init PROVE IInv
  OBVIOUS
<1> USE DEF Init
<1>1. \A S : <<>> \in Seq(S) /\ Len(<<>>) = 0
  BY EmptySeq
<1>2. Rising(<<>>) /\ Elements(<<>>) = {}
  BY <1>1 DEF Rising, Elements
<1>3. Routes /\ Places
  BY <1>1, LogsBounds DEF Routes, Places
<1> QED
  BY <1>1, <1>2, <1>3, LogsBounds
  DEF IInv, PipeUnfed, UnopenedEmpty, BufferInOrder, LiveHasCapture, FileInOrder,
      TerminalTold, NothingForgotten, ThroughPipe

-----------------------------------------------------------------------------
\* What one log call does to each route, once the routes that cannot happen
\* are ruled out.
LEMMA LogEffect ==
    ASSUME IInv, NEW level \in Levels, NEW styled \in BOOLEAN, Log(level, styled)
    PROVE  LET id == Len(logged) + 1
               told == TerminalTakes(level, styled)
           IN /\ id \in Ids
              /\ UNCHANGED <<terminal, stream, stage, n>>
              /\ logged' = Append(logged,
                     [level |-> level, told |-> told, live |-> Attached,
                      of |-> IF stage = "none" THEN 0 ELSE n])
              /\ buffer' = Buffered(id)
              /\ screen' = IF told THEN Append(screen, id) ELSE screen
              /\ files' = IF Attached THEN [files EXCEPT ![n] = Append(@, id)] ELSE files
<1> DEFINE id == Len(logged) + 1
           told == TerminalTakes(level, styled)
<1> USE DEF IInv
<1>1. Len(logged) \in Nat /\ id \in 1..id
  BY LenProperties DEF Routes
<1>2. ~(told /\ ThroughPipe)
  BY DEF PipeUnfed, TerminalTakes
<1>3. screen' = IF told THEN Append(screen, id) ELSE screen
  BY <1>2 DEF Log
<1>4. files' = IF Attached THEN [files EXCEPT ![n] = Append(@, id)] ELSE files
  <2>1. CASE Attached
    <3>1. n # 0 /\ n \in Captures
      BY <2>1 DEF Attached, Places, Captures
    <3>2. files[n] \in Seq(1..id)
      BY <3>1, <1>1, Monotonic DEF Routes
    <3>3. files[n] \o <<id>> \o <<>> = Append(files[n], id)
      BY <1>1, <3>2, GainsAtMostOne
    <3>4. files' = [files EXCEPT ![n] = files[n] \o <<id>> \o <<>>]
      BY <1>2, <2>1, <3>1 DEF Log
    <3> QED
      BY <2>1, <3>3, <3>4
  <2>2. CASE ~Attached /\ n # 0
    <3>1. n \in Captures
      BY <2>2 DEF Places, Captures
    <3>2. files[n] \in Seq(1..id)
      BY <3>1, <1>1, Monotonic DEF Routes
    <3>3. files[n] \o <<>> \o <<>> = files[n]
      BY <1>1, <3>2, GainsAtMostOne
    <3>4. files' = [files EXCEPT ![n] = files[n] \o <<>> \o <<>>]
      BY <1>2, <2>2 DEF Log
    <3> QED
      BY <2>2, <3>1, <3>3, <3>4 DEF Routes
  <2>3. CASE ~Attached /\ n = 0
    BY <2>3 DEF Log
  <2> QED
    BY <2>1, <2>2, <2>3
<1> QED
  BY <1>3, <1>4 DEF Log

\* A log call keeps the inductive invariant.
LEMMA LogStep ==
    ASSUME IInv, NEW level \in Levels, NEW styled \in BOOLEAN, Log(level, styled)
    PROVE  IInv'
<1> DEFINE k == Len(logged)
           told == TerminalTakes(level, styled)
           entry == [level |-> level, told |-> told, live |-> Attached,
                     of |-> IF stage = "none" THEN 0 ELSE n]
           Entries == [level : Levels, told : BOOLEAN, live : BOOLEAN, of : 0..MaxCaptures]
<1>1. /\ k + 1 \in Ids
      /\ UNCHANGED <<terminal, stream, stage, n>>
      /\ logged' = Append(logged, entry)
      /\ buffer' = Buffered(k + 1)
      /\ screen' = IF told THEN Append(screen, k + 1) ELSE screen
      /\ files' = IF Attached THEN [files EXCEPT ![n] = Append(@, k + 1)] ELSE files
  BY LogEffect
<1>2. /\ Routes /\ Places /\ PipeUnfed /\ UnopenedEmpty /\ BufferInOrder
      /\ LiveHasCapture /\ FileInOrder /\ TerminalTold /\ NothingForgotten
  BY DEF IInv
<1>3. /\ k \in Nat
      /\ buffer \in Seq(1..k)
      /\ screen \in Seq(1..k)
      /\ files \in [Captures -> Seq(1..k)]
  BY <1>2, LenProperties DEF Routes
<1>4. entry \in Entries
  <2>1. told \in BOOLEAN /\ Attached \in BOOLEAN
    BY DEF TerminalTakes, Attached
  <2>2. (IF stage = "none" THEN 0 ELSE n) \in 0..MaxCaptures
    BY <1>2, LogsBounds DEF Places
  <2> QED
    BY <2>1, <2>2
<1>5. /\ logged' \in Seq(Entries)
      /\ Len(logged') = k + 1
      /\ \A i \in 1..k : logged'[i] = logged[i]
      /\ logged'[k + 1] = entry
  <2> HIDE DEF entry, Entries
  <2>1. logged \in Seq(Entries)
    BY <1>2 DEF Routes, Entries
  <2> QED
    BY <1>1, <1>4, <2>1, AppendProperties
<1>6. (Attached <=> Attached') /\ (Attached => n \in Captures /\ stage # "none")
  BY <1>1, <1>2 DEF Attached, Places, Captures
<1> HIDE DEF k, told, Entries
<1>7. /\ buffer' \in Seq(1..(k + 1))
      /\ BufferInOrder'
      /\ Elements(buffer) \subseteq Elements(buffer')
      /\ k < BufferLimit => k + 1 \in Elements(buffer')
  <2>1. Len(buffer) \in Nat /\ BufferLimit \in Nat
    BY <1>3, LenProperties, LogsBounds
  <2>2. CASE Len(buffer) < BufferLimit
    <3>1. buffer' = Append(buffer, k + 1)
      BY <1>1, <2>2 DEF Buffered
    <3>2. /\ Append(buffer, k + 1) \in Seq(1..(k + 1))
          /\ Rising(Append(buffer, k + 1))
          /\ Elements(Append(buffer, k + 1)) = Elements(buffer) \cup {k + 1}
          /\ Len(Append(buffer, k + 1)) = Len(buffer) + 1
      BY <1>2, <1>3, RisingAppend DEF BufferInOrder
    <3> QED
      BY <1>2, <1>3, <1>5, <2>1, <2>2, <3>1, <3>2 DEF BufferInOrder, k
  <2>3. CASE ~(Len(buffer) < BufferLimit)
    <3>1. buffer' = buffer
      BY <1>1, <2>3 DEF Buffered
    <3>2. buffer \in Seq(1..(k + 1))
      BY <1>3, Monotonic
    <3> QED
      BY <1>2, <1>3, <1>5, <2>1, <2>3, <3>1, <3>2 DEF BufferInOrder, k
  <2> QED
    BY <2>2, <2>3
<1>8. screen' \in Seq(1..(k + 1)) /\ TerminalTold'
  <2>1. Elements(screen') = Elements(screen) \cup {i \in {k + 1} : told}
        /\ Rising(screen') /\ screen' \in Seq(1..(k + 1))
    <3>1. CASE told
      <4>1. screen' = Append(screen, k + 1)
        BY <1>1, <3>1
      <4>2. /\ Append(screen, k + 1) \in Seq(1..(k + 1))
            /\ Rising(Append(screen, k + 1))
            /\ Elements(Append(screen, k + 1)) = Elements(screen) \cup {k + 1}
        BY <1>2, <1>3, RisingAppend DEF TerminalTold
      <4> QED
        BY <3>1, <4>1, <4>2
    <3>2. CASE ~told
      <4>1. screen' = screen
        BY <1>1, <3>2
      <4> QED
        BY <1>2, <1>3, <3>2, <4>1, Monotonic DEF TerminalTold
    <3> QED
      BY <3>1, <3>2
  <2>2. {i \in 1..(k + 1) : logged'[i].told}
            = {i \in 1..k : logged[i].told} \cup {i \in {k + 1} : told}
    <3>1. 1..(k + 1) = 1..k \cup {k + 1}
      BY <1>3
    <3>2. logged'[k + 1].told = told
      BY <1>5
    <3> QED
      BY <1>5, <3>1, <3>2
  <2>3. Elements(screen) = {i \in 1..k : logged[i].told}
    BY <1>2 DEF TerminalTold, k
  <2> QED
    BY <1>5, <2>1, <2>2, <2>3 DEF TerminalTold
<1>9. /\ files' \in [Captures -> Seq(1..(k + 1))]
      /\ FileInOrder'
      /\ \A m \in Captures : Elements(files[m]) \subseteq Elements(files'[m])
      /\ Attached => k + 1 \in Elements(files'[n])
      /\ \A m \in Captures : (Attached => m # n) => files'[m] = files[m]
  <2>1. CASE Attached
    <3>1. /\ n \in Captures
          /\ files' = [files EXCEPT ![n] = Append(files[n], k + 1)]
      BY <1>1, <1>6, <2>1
    <3>2. /\ Append(files[n], k + 1) \in Seq(1..(k + 1))
          /\ Rising(Append(files[n], k + 1))
          /\ Elements(Append(files[n], k + 1)) = Elements(files[n]) \cup {k + 1}
      BY <1>2, <1>3, <3>1, RisingAppend DEF FileInOrder
    <3>3. \A m \in Captures : files[m] \in Seq(1..(k + 1))
      BY <1>3, Monotonic
    <3>4. files'[n] = Append(files[n], k + 1)
      BY <1>3, <3>1
    <3>5. \A m \in Captures : m # n => files'[m] = files[m]
      BY <1>3, <3>1
    <3>6. files' \in [Captures -> Seq(1..(k + 1))]
      BY <1>3, <3>1, <3>2, <3>3
    <3>7. FileInOrder'
      BY <1>2, <3>2, <3>4, <3>5 DEF FileInOrder
    <3> QED
      BY <2>1, <3>1, <3>2, <3>4, <3>5, <3>6, <3>7
  <2>2. CASE ~Attached
    <3>1. files' = files
      BY <1>1, <2>2
    <3>2. \A m \in Captures : files[m] \in Seq(1..(k + 1))
      BY <1>3, Monotonic
    <3> QED
      BY <1>2, <1>3, <2>2, <3>1, <3>2 DEF FileInOrder
  <2> QED
    BY <2>1, <2>2
<1>10. Routes'
  BY <1>1, <1>5, <1>7, <1>8, <1>9 DEF Routes, Ids, Entries
<1>11. Places' /\ PipeUnfed'
  BY <1>1, <1>2 DEF Places, PipeUnfed, ThroughPipe
<1>12. UnopenedEmpty'
  <2> SUFFICES ASSUME NEW m \in Captures, m > n \/ (m = n /\ stage = "checking")
               PROVE  files'[m] = <<>>
    BY <1>1 DEF UnopenedEmpty
  <2>1. files[m] = <<>>
    BY <1>2 DEF UnopenedEmpty
  <2>2. n \in Nat /\ m \in Nat
    BY <1>2 DEF Places, Captures
  <2>3. Attached => m # n
    BY <2>2 DEF Attached
  <2> QED
    BY <1>9, <2>1, <2>3
<1>13. LiveHasCapture'
  BY <1>2, <1>3, <1>5, <1>6 DEF LiveHasCapture, k
<1>14. NothingForgotten'
  <2>1. ASSUME NEW i \in 1..(k + 1), logged'[i].live
        PROVE  i \in Elements(files'[logged'[i].of])
    <3>1. CASE i = k + 1
      BY <1>5, <1>6, <1>9, <2>1, <3>1
    <3>2. CASE i # k + 1
      <4>1. i \in 1..k /\ logged'[i] = logged[i]
        BY <1>3, <1>5, <3>2
      <4>2. i \in Elements(files[logged[i].of])
        BY <1>2, <2>1, <4>1 DEF NothingForgotten, k
      <4>3. logged[i].of \in Captures
        BY <1>2, <2>1, <4>1 DEF LiveHasCapture, k
      <4> QED
        BY <1>9, <4>1, <4>2, <4>3
    <3> QED
      BY <3>1, <3>2
  <2>2. ASSUME k + 1 <= BufferLimit, NEW i \in 1..(k + 1)
        PROVE  \/ i \in UNION {Elements(files'[m]) : m \in Captures}
               \/ ~Attached' /\ i \in Elements(buffer')
    <3>1. k < BufferLimit /\ k <= BufferLimit
      BY <1>3, <2>2, LogsBounds
    <3>2. CASE i = k + 1
      BY <1>6, <1>7, <1>9, <3>1, <3>2
    <3>3. CASE i # k + 1
      <4>1. i \in 1..k
        BY <1>3, <3>3
      <4>2. \/ i \in UNION {Elements(files[m]) : m \in Captures}
            \/ ~Attached /\ i \in Elements(buffer)
        BY <1>2, <3>1, <4>1 DEF NothingForgotten, k
      <4> QED
        BY <1>6, <1>7, <1>9, <4>2
    <3> QED
      BY <3>2, <3>3
  <2> QED
    BY <1>5, <2>1, <2>2 DEF NothingForgotten
<1> QED
  BY <1>7, <1>8, <1>9, <1>10, <1>11, <1>12, <1>13, <1>14
  DEF IInv

-----------------------------------------------------------------------------
\* Every other step keeps the inductive invariant: only attaching moves a
\* record.
LEMMA OtherStep ==
    ASSUME IInv,
           \/ \E level \in Levels : Setup(level)
           \/ BeginCapture \/ Refused \/ Attach \/ Redirect \/ Restore \/ Detach
           \/ UNCHANGED vars
    PROVE  IInv'
<1>1. /\ Routes /\ Places /\ PipeUnfed /\ UnopenedEmpty /\ BufferInOrder
      /\ LiveHasCapture /\ FileInOrder /\ TerminalTold /\ NothingForgotten
  BY DEF IInv
<1>2. MaxCaptures \in Nat /\ n \in Nat
  BY <1>1, LogsBounds DEF Places
<1>3. ASSUME UNCHANGED <<logged, buffer, screen, files>>, UnopenedEmpty', Places', PipeUnfed',
             Attached' => Attached
      PROVE  IInv'
  BY <1>1, <1>3
  DEF IInv, Routes, BufferInOrder, LiveHasCapture, FileInOrder, TerminalTold,
      NothingForgotten
<1>4. ASSUME NEW level \in Levels, Setup(level)
      PROVE  IInv'
  BY <1>1, <1>3, <1>4 DEF Setup, Places, PipeUnfed, ThroughPipe, UnopenedEmpty, Attached
<1>5. CASE BeginCapture
  <2>1. Places'
    BY <1>1, <1>2, <1>5 DEF BeginCapture, Places
  <2>2. UnopenedEmpty'
    BY <1>1, <1>2, <1>5 DEF BeginCapture, UnopenedEmpty, Captures
  <2> QED
    BY <1>1, <1>3, <1>5, <2>1, <2>2 DEF BeginCapture, PipeUnfed, ThroughPipe, Attached
<1>6. CASE Refused \/ Redirect \/ Restore \/ Detach
  <2>1. Places' /\ PipeUnfed' /\ UnopenedEmpty'
    BY <1>1, <1>6
    DEF Refused, Redirect, Restore, Detach, Places, PipeUnfed, ThroughPipe, UnopenedEmpty
  <2> QED
    BY <1>3, <1>6, <2>1 DEF Refused, Redirect, Restore, Detach, Attached
<1>7. CASE Attach
  <2>1. /\ UNCHANGED <<logged, terminal, stream, n, screen>>
        /\ stage = "checking" /\ stage' = "attached"
        /\ buffer' = <<>>
        /\ n \in Captures
    BY <1>1, <1>7 DEF Attach, Places, Captures
  <2>2. files[n] = <<>>
    BY <1>1, <2>1 DEF UnopenedEmpty
  <2>3. buffer \in Seq(1..Len(logged)) /\ <<>> \o buffer = buffer
    BY <1>1, ConcatEmptySeq DEF Routes
  <2>4. files' = [files EXCEPT ![n] = buffer]
    BY <1>7, <2>1, <2>2, <2>3 DEF Attach
  <2>5. files' \in [Captures -> Seq(1..Len(logged))]
    BY <1>1, <2>1, <2>3, <2>4 DEF Routes
  <2>6. files'[n] = buffer /\ \A m \in Captures : m # n => files'[m] = files[m]
    BY <1>1, <2>1, <2>4 DEF Routes
  <2>7. <<>> \in Seq(1..Len(logged)) /\ Len(<<>>) = 0
    BY EmptySeq
  <2>8. Routes' /\ Places' /\ PipeUnfed' /\ LiveHasCapture'
    BY <1>1, <2>1, <2>5, <2>7 DEF Routes, Places, PipeUnfed, ThroughPipe, LiveHasCapture
  <2>9. UnopenedEmpty'
    BY <1>1, <1>2, <2>1, <2>6 DEF UnopenedEmpty, Captures
  <2>10. BufferInOrder'
    <3>1. Len(logged) \in Nat
      BY <1>1, LenProperties DEF Routes
    <3> QED
      BY <2>1, <2>7, <3>1, LogsBounds DEF BufferInOrder, Rising
  <2>11. FileInOrder' /\ TerminalTold'
    BY <1>1, <2>1, <2>6 DEF FileInOrder, TerminalTold, BufferInOrder
  <2>12. NothingForgotten'
    <3>1. \A m \in Captures : Elements(files[m]) \subseteq Elements(files'[m])
      BY <2>2, <2>6, <2>7 DEF Elements
    <3>2. ASSUME NEW i \in 1..Len(logged), logged[i].live
          PROVE  i \in Elements(files'[logged[i].of])
      BY <1>1, <3>1, <3>2 DEF NothingForgotten, LiveHasCapture
    <3>3. ASSUME Len(logged) <= BufferLimit, NEW i \in 1..Len(logged)
          PROVE  i \in UNION {Elements(files'[m]) : m \in Captures}
      <4>1. \/ i \in UNION {Elements(files[m]) : m \in Captures}
            \/ i \in Elements(buffer)
        BY <1>1, <3>3 DEF NothingForgotten
      <4> QED
        BY <2>1, <2>6, <3>1, <4>1
    <3> QED
      BY <2>1, <3>2, <3>3 DEF NothingForgotten
  <2> QED
    BY <2>8, <2>9, <2>10, <2>11, <2>12 DEF IInv
<1>8. CASE UNCHANGED vars
  BY <1>1, <1>3, <1>8 DEF vars, Places, PipeUnfed, ThroughPipe, UnopenedEmpty, Attached
<1> QED
  BY <1>4, <1>5, <1>6, <1>7, <1>8

\* The inductive invariant holds throughout.
LEMMA Inductive == Spec => []IInv
<1>1. Init => IInv
  BY InitIInv
<1>2. IInv /\ [Next]_vars => IInv'
  BY LogStep, OtherStep DEF Next
<1> QED
  BY <1>1, <1>2, PTL DEF Spec

\* TypeOK: every reachable state is well typed; the buffer keeps its limit.
THEOREM TypeCorrect == Spec => []TypeOK
<1>1. ASSUME IInv PROVE TypeOK
  <2>1. Routes /\ Places /\ BufferInOrder
    BY <1>1 DEF IInv
  <2>2. /\ Len(logged) \in Nat
        /\ 1..Len(logged) \subseteq Ids
    BY <2>1, LenProperties, LogsBounds DEF Routes, Ids
  <2>3. \A i \in 1..Len(logged) :
            logged[i] \in [level : Levels, told : BOOLEAN, live : BOOLEAN, of : 0..MaxCaptures]
    BY <2>1, ElementOfSeq DEF Routes
  <2>4. ASSUME NEW s \in Seq(1..Len(logged))
        PROVE  Elements(s) \subseteq Ids
    BY <2>2, ElementOfSeq DEF Elements
  <2> QED
    BY <2>1, <2>3, <2>4 DEF TypeOK, Routes, Places, BufferInOrder
<1> QED
  BY <1>1, Inductive, PTL

\* FileInOrder: no log file has a record twice or before an earlier one, over
\* any number of captures, replays and redirections.
THEOREM FilesInOrder == Spec => []FileInOrder
<1>1. IInv => FileInOrder
  BY DEF IInv
<1> QED
  BY <1>1, Inductive, PTL

\* TerminalTold: the terminal shows what its level lets through, once and in
\* order, also while its descriptors belong to the pump.
THEOREM TerminalKeepsTelling == Spec => []TerminalTold
<1>1. IInv => TerminalTold
  BY DEF IInv
<1> QED
  BY <1>1, Inductive, PTL

\* NothingForgotten: a record made under an open log is in it, and until the
\* buffer overflows every earlier one reaches the first log there is.
THEOREM NothingLost == Spec => []NothingForgotten
<1>1. IInv => NothingForgotten
  BY DEF IInv
<1> QED
  BY <1>1, Inductive, PTL
=============================================================================
