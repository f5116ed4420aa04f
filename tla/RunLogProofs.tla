----------------------------- MODULE RunLogProofs -----------------------------
(***************************************************************************)
(* Proofs about RunLog for any number of captures, any capacity of a pipe, *)
(* any number of processes left behind and any descriptor table large      *)
(* enough: what a log holds, and where the process's descriptors are.      *)
(*                                                                         *)
(* The kernel reuses the numbers of closed descriptors, so the argument    *)
(* is an account of the table: every number above 2 that is in use is one  *)
(* the capture or one of the pumps that still run keeps for that purpose.  *)
(* The account bounds how many are in use, hence the numbers handed out    *)
(* next, hence that 0, 1 and 2 are never among those closed.               *)
(***************************************************************************)
EXTENDS RunLog, LeastElements, SequenceTheorems

MainStages == {"idle", "logged", "calling", "join", "saved", "after", "file", "footed"}
Objects ==
    {Free, Terminal, Scratch}
        \cup {LogOf(m) : m \in Captures} \cup {ReadEnd(m) : m \in Captures}
        \cup {WriteEnd(m) : m \in Captures}
Pieces == [kind : Kinds, of : Captures, place : 0..MaxWrites, nl : BOOLEAN]
Held == [log : Fds, read : Fds, write : Fds, out : Fds, err : Fds, term : Fds]

\* The types in the form the steps need: TypeOK does not say what is a function.
Types ==
    /\ main \in MainStages
    /\ n \in 0..MaxCaptures
    /\ main # "idle" => n >= 1
    /\ fds \in [Fds -> Objects]
    /\ held \in [Captures -> Held]
    /\ kids \in [Captures -> 0..MaxKids]
    /\ sent \in [Captures -> 0..MaxWrites]
    /\ pipe \in [Captures -> Seq(Pieces)]
    /\ pump \in [Captures -> {"off", "read", "echo", "emit", "gone"}]
    /\ text \in [Captures -> Seq(Pieces)]
    /\ fresh \in [Captures -> Seq(Pieces)]
    /\ echoing \in [Captures -> BOOLEAN]
    /\ log \in [Captures -> Seq(Pieces)]
    /\ open \in [Captures -> BOOLEAN]
    /\ late \in [Captures -> BOOLEAN]

\* A pump that is about to write a line has one.
HasLine(s) == \E i \in 1..Len(s) : s[i].nl
EmitsLine == \A m \in Captures : pump[m] = "emit" => HasLine(text[m])

-----------------------------------------------------------------------------
\* What goes through a pipe is output, and nothing goes through the pipe of a
\* capture that has not come so far.
OnlyOutput(s) == \A i \in 1..Len(s) : s[i].kind = "out"
PipesCarryOutput ==
    \A m \in Captures :
        /\ OnlyOutput(pipe[m]) /\ OnlyOutput(text[m]) /\ OnlyOutput(fresh[m])
        /\ m > n => pump[m] = "off" /\ log[m] = <<>>
        /\ pump[m] = "off" =>
               /\ kids[m] = 0 /\ sent[m] = 0 /\ pipe[m] = <<>> /\ text[m] = <<>>
               /\ ~echoing[m]

\* How far a capture's pump has come at each stage of the main thread. Only
\* join() lets the main thread go on, and it either saw the pump end or gave
\* up on it.
Stages ==
    /\ main = "logged" => pump[n] = "off"
    /\ main = "calling" => pump[n] \notin {"off", "gone"}
    /\ main \in {"join", "saved"} => pump[n] # "off"
    /\ \A m \in Captures :
           /\ open[m] <=> m = n /\ main # "idle"
           /\ m < n \/ (m = n /\ main \in {"idle", "saved", "after", "file", "footed"})
                  => late[m] \/ pump[m] \in {"off", "gone"}
           /\ m > n \/ (m = n /\ main \in {"logged", "calling", "join"}) => ~late[m]
           /\ pump[m] = "gone" => kids[m] = 0

-----------------------------------------------------------------------------
\* Descriptors 0, 1 and 2: the terminal, but for the automation's call.
StandardFds ==
    /\ fds[0] = Terminal
    /\ fds[1] = IF main = "calling" THEN WriteEnd(n) ELSE Terminal
    /\ fds[2] = IF main = "calling" THEN WriteEnd(n) ELSE Terminal

\* The numbers a capture keeps are above those three; the two it was given
\* first are different.
HeldHigh ==
    \A m \in Captures :
        /\ m <= n => held[m].log >= 3
        /\ pump[m] # "off" =>
               /\ held[m].read >= 3 /\ held[m].write >= 3 /\ held[m].out >= 3
               /\ held[m].err >= 3 /\ held[m].term >= 3
               /\ held[m].out # held[m].write

\* Who accounts for descriptor f.
IsScratch(f) == main = "file" /\ fds[f] = Scratch
IsLog(f) == main # "idle" /\ f = held[n].log /\ fds[f] = LogOf(n)
IsRead(f) ==
    \E m \in Captures :
        pump[m] \notin {"off", "gone"} /\ f = held[m].read /\ fds[f] = ReadEnd(m)
IsWrite(f) == main = "calling" /\ f = held[n].write /\ fds[f] = WriteEnd(n)
IsSaved(f) ==
    /\ fds[f] = Terminal
    /\ \/ main = "calling" /\ f = held[n].term
       \/ main \in {"calling", "join", "saved"} /\ f \in {held[n].out, held[n].err}

\* Every descriptor in use is accounted for.
Accounted ==
    \A f \in 3..MaxFd :
        fds[f] = Free \/ IsScratch(f) \/ IsLog(f) \/ IsRead(f) \/ IsWrite(f) \/ IsSaved(f)

-----------------------------------------------------------------------------
Feet(s) == {i \in 1..Len(s) : s[i].kind = "footer"}

\* A log has its header from the start and its footer once it was written,
\* last unless the pump was given up on.
FooterOnce ==
    \A m \in Captures :
        /\ log[m] # <<>> => log[m][1] = Header(m)
        /\ m = n /\ main \notin {"idle", "footed"} => Feet(log[m]) = {} /\ log[m] # <<>>
        /\ m > n => Feet(log[m]) = {}
        /\ m < n \/ (m = n /\ main \in {"idle", "footed"}) =>
               \E i \in 1..Len(log[m]) :
                   Feet(log[m]) = {i} /\ (~late[m] => i = Len(log[m]))

IInv ==
    /\ Types
    /\ EmitsLine
    /\ PipesCarryOutput
    /\ Stages
    /\ StandardFds
    /\ HeldHigh
    /\ Accounted
    /\ FooterOnce

-----------------------------------------------------------------------------
\* The pieces of capture m's output in s are the ones after piece k, in order.
Continues(s, m, k) == \A i \in 1..Len(s) : s[i].of = m /\ s[i].place = k + i

\* How much of what was sent has left the pump for the log.
Passed(m) == sent[m] - Len(pipe[m]) - Len(text[m])

\* The log lacks nothing of what has left the pump: it is open, or was until
\* the pump's end.
UpToDate(m) == open[m] \/ m > n \/ (pump[m] = "gone" /\ ~late[m])

\* What was sent is in the log, in the pump or in the pipe, in this order; a
\* log that was closed before its pump ended has stopped somewhere earlier.
Stream(m) ==
    /\ Passed(m) \in Nat
    /\ Continues(text[m], m, Passed(m))
    /\ Continues(pipe[m], m, Passed(m) + Len(text[m]))
    /\ pump[m] = "gone" => pipe[m] = <<>> /\ text[m] = <<>>
    /\ \E k \in 0..Passed(m) : Gapless(log[m], m, k) /\ (UpToDate(m) => k = Passed(m))
Streams == \A m \in Captures : Stream(m)

\* An echo is written by the pump of a capture made with --verbose.
EchoesWhenAsked == \A m \in Captures : echoing[m] \/ pump[m] = "echo" => m \in Echo

\* No capture has been made since one with --verbose whose pump was given up on.
NoEchoBehind == \A m \in Echo : late[m] => m = n

-----------------------------------------------------------------------------
(***************************************************************************)
(* The descriptors handed out.                                             *)
(***************************************************************************)
FreeUpTo(f) == {g \in 0..f : fds[g] = Free}

\* What the bounds say about the numbers.
LEMMA Bounds ==
    /\ MaxCaptures \in Nat /\ MaxFd \in Nat /\ MaxFd >= MaxCaptures + 8
    /\ MaxWrites \in Nat /\ MaxKids \in Nat /\ PipeCapacity \in Nat
    /\ {0, 1, 2} \subseteq Fds /\ 3..MaxFd \subseteq Fds
<1>1. /\ MaxCaptures \in Nat /\ MaxFd \in Nat /\ MaxFd >= MaxCaptures + 8
      /\ MaxWrites \in Nat /\ MaxKids \in Nat /\ PipeCapacity \in Nat
  BY RunLogBounds
<1> QED
  BY <1>1 DEF Fds

\* The count of free descriptors grows by one at each of them.
LEMMA FreeCount ==
    ASSUME NEW f \in Nat
    PROVE  /\ Cardinality(FreeUpTo(f)) \in Nat
           /\ Cardinality(FreeUpTo(f + 1)) =
                  IF fds[f + 1] = Free THEN Cardinality(FreeUpTo(f)) + 1
                                       ELSE Cardinality(FreeUpTo(f))
<1>1. IsFiniteSet(FreeUpTo(f))
  <2>1. IsFiniteSet(0..f)
    BY FS_Interval
  <2> QED
    BY <2>1, FS_Subset DEF FreeUpTo
<1>2. 0..(f + 1) = 0..f \cup {f + 1} /\ f + 1 \notin 0..f
  OBVIOUS
<1>3. CASE fds[f + 1] = Free
  <2>1. FreeUpTo(f + 1) = FreeUpTo(f) \cup {f + 1} /\ f + 1 \notin FreeUpTo(f)
    BY <1>2, <1>3 DEF FreeUpTo
  <2>2. Cardinality(FreeUpTo(f) \cup {f + 1}) = Cardinality(FreeUpTo(f)) + 1
    BY <1>1, <2>1, FS_AddElement
  <2> QED
    BY <1>1, <1>3, <2>1, <2>2, FS_CardinalityType
<1>4. CASE fds[f + 1] # Free
  <2>1. FreeUpTo(f + 1) = FreeUpTo(f)
    BY <1>2, <1>4 DEF FreeUpTo
  <2> QED
    BY <1>1, <1>4, <2>1, FS_CardinalityType
<1> QED
  BY <1>3, <1>4

\* As long as there are k free descriptors, the k-th one is there, and above
\* those in use at the bottom of the table.
LEMMA KthFree ==
    ASSUME fds[0] # Free, fds[1] # Free, fds[2] # Free,
           NEW k \in Nat \ {0}, Cardinality(FreeUpTo(MaxFd)) >= k
    PROVE  /\ FreeFd(k) \in 3..MaxFd
           /\ fds[FreeFd(k)] = Free
           /\ Cardinality(FreeUpTo(FreeFd(k))) = k
<1> DEFINE S == {f \in 0..MaxFd : Cardinality(FreeUpTo(f)) >= k}
<1>1. MaxFd \in S /\ S \subseteq Nat
  BY Bounds
<1>2. PICK f \in S : \A g \in S : f <= g
  BY <1>1, LeastElement
<1>3. f \in 0..MaxFd /\ Cardinality(FreeUpTo(f)) >= k
  BY <1>2
<1>4. \A g \in 0..MaxFd : g < f => ~(Cardinality(FreeUpTo(g)) >= k)
  BY <1>2, Bounds
<1> HIDE DEF S
<1>5. f # 0
  <2>1. FreeUpTo(0) = {}
    BY DEF FreeUpTo
  <2> QED
    BY <1>3, <2>1, FS_EmptySet
<1>6. f - 1 \in Nat /\ f - 1 \in 0..MaxFd /\ (f - 1) + 1 = f
  BY <1>3, <1>5, Bounds
<1>7. /\ Cardinality(FreeUpTo(f - 1)) \in Nat
      /\ Cardinality(FreeUpTo(f)) =
             IF fds[f] = Free THEN Cardinality(FreeUpTo(f - 1)) + 1
                              ELSE Cardinality(FreeUpTo(f - 1))
  BY <1>6, FreeCount
<1>8. ~(Cardinality(FreeUpTo(f - 1)) >= k)
  BY <1>3, <1>4, <1>6
<1>9. fds[f] = Free /\ Cardinality(FreeUpTo(f)) = k
  BY <1>3, <1>7, <1>8
<1>10. /\ FreeFd(k) \in Fds
       /\ fds[FreeFd(k)] = Free
       /\ Cardinality({g \in 0..FreeFd(k) : fds[g] = Free}) = k
  <2>1. f \in Fds
    BY <1>3 DEF Fds
  <2>2. Cardinality({g \in 0..f : fds[g] = Free}) = k
    BY <1>9 DEF FreeUpTo
  <2> QED
    BY <1>9, <2>1, <2>2 DEF FreeFd
<1> QED
  BY <1>10, Bounds DEF Fds, FreeUpTo

\* A table of which so many descriptors are in use has the others free.
LEMMA FreeRemain ==
    ASSUME NEW U, IsFiniteSet(U), {f \in Fds : fds[f] # Free} \subseteq U
    PROVE  Cardinality(FreeUpTo(MaxFd)) >= MaxFd + 1 - Cardinality(U)
<1> DEFINE F == FreeUpTo(MaxFd)
<1>1. F \subseteq Fds /\ Fds \subseteq F \cup U
  BY DEF FreeUpTo, Fds
<1>2. IsFiniteSet(Fds) /\ Cardinality(Fds) = MaxFd + 1
  BY Bounds, FS_Interval DEF Fds
<1>3. IsFiniteSet(F)
  BY <1>1, <1>2, FS_Subset
<1> HIDE DEF F
<1>4. /\ IsFiniteSet(F \cup U)
      /\ Cardinality(F \cup U) = Cardinality(F) + Cardinality(U) - Cardinality(F \cap U)
  BY <1>3, FS_Union
<1>5. Cardinality(Fds) <= Cardinality(F \cup U)
  BY <1>1, <1>4, FS_Subset
<1>6. /\ Cardinality(F) \in Nat /\ Cardinality(U) \in Nat
      /\ Cardinality(F \cap U) \in Nat
  BY <1>3, FS_Intersection, FS_CardinalityType
<1> QED
  BY <1>2, <1>4, <1>5, <1>6, Bounds DEF F

\* When the main thread opens something, at least five descriptors are free:
\* what is in use are the standard three, its log and one end of a pipe for
\* each pump.
LEMMA RoomToOpen ==
    ASSUME Types, StandardFds, Accounted, main \in {"idle", "logged", "after"}
    PROVE  Cardinality(FreeUpTo(MaxFd)) >= 5
<1> DEFINE N == MaxCaptures + 4
           user == [i \in 1..N |-> IF i <= MaxCaptures THEN held[i].read
                                   ELSE IF i = MaxCaptures + 1 THEN held[n].log
                                   ELSE i - MaxCaptures - 2]
           U == {user[i] : i \in 1..N}
<1>1. MaxCaptures \in Nat /\ MaxFd \in Nat /\ MaxFd >= MaxCaptures + 8 /\ N \in Nat
  BY Bounds
<1>2. \A i \in 1..N : user[i] \in U
  OBVIOUS
<1>3. IsFiniteSet(U) /\ Cardinality(U) <= N /\ Cardinality(U) \in Nat
  <2>1. user \in Surjection(1..N, U)
    BY DEF Surjection
  <2>2. ExistsSurjection(1..N, U)
    BY <2>1 DEF ExistsSurjection
  <2> HIDE DEF U, N
  <2>3. IsFiniteSet(U)
    BY <1>1, <2>2, FS_NatSurjection
  <2> QED
    BY <1>1, <2>2, <2>3, FS_SurjCardinalityBound, FS_CardinalityType
<1> HIDE DEF U
<1>4. ASSUME NEW f \in Fds, fds[f] # Free
      PROVE  f \in U
  <2>1. CASE f \in 3..MaxFd
    <3>1. IsLog(f) \/ IsRead(f)
      BY <1>4, <2>1 DEF Accounted, IsScratch, IsWrite, IsSaved
    <3>2. CASE IsLog(f)
      <4>1. MaxCaptures + 1 \in 1..N /\ user[MaxCaptures + 1] = f
        BY <1>1, <3>2 DEF IsLog
      <4> QED
        BY <1>2, <4>1
    <3>3. CASE IsRead(f)
      <4>1. PICK m \in 1..MaxCaptures : f = held[m].read
        BY <3>3 DEF IsRead, Captures
      <4>2. m \in 1..N /\ user[m] = f
        BY <1>1, <4>1
      <4> QED
        BY <1>2, <4>2
    <3> QED
      BY <3>1, <3>2, <3>3
  <2>2. CASE f \notin 3..MaxFd
    <3>1. f \in Int /\ 0 <= f /\ f <= 2
      BY <1>1, <2>2 DEF Fds
    <3>2. f + MaxCaptures + 2 \in 1..N /\ user[f + MaxCaptures + 2] = f
      BY <1>1, <3>1
    <3> QED
      BY <1>2, <3>2
  <2> QED
    BY <2>1, <2>2
<1>5. {f \in Fds : fds[f] # Free} \subseteq U
  BY <1>4
<1>6. Cardinality(FreeUpTo(MaxFd)) >= MaxFd + 1 - Cardinality(U)
  BY <1>3, <1>5, FreeRemain
<1>7. Cardinality(FreeUpTo(MaxFd)) \in Nat
  BY <1>1, FreeCount
<1> QED
  BY <1>1, <1>3, <1>6, <1>7

\* So the numbers it gets are above the standard three, free, and different.
LEMMA HandedOut ==
    ASSUME Types, StandardFds, Accounted, main \in {"idle", "logged", "after"}
    PROVE  /\ \A k \in 1..5 : FreeFd(k) \in 3..MaxFd /\ FreeFd(k) \in Fds
           /\ FreeFd(2) # FreeFd(3)
<1>1. fds[0] # Free /\ fds[1] # Free /\ fds[2] # Free
  BY DEF StandardFds, Terminal, Free
<1>2. Cardinality(FreeUpTo(MaxFd)) \in Nat /\ Cardinality(FreeUpTo(MaxFd)) >= 5
  BY Bounds, FreeCount, RoomToOpen
<1>3. \A k \in 1..5 : FreeFd(k) \in 3..MaxFd /\ Cardinality(FreeUpTo(FreeFd(k))) = k
  <2> SUFFICES ASSUME NEW k \in 1..5
               PROVE  FreeFd(k) \in 3..MaxFd /\ Cardinality(FreeUpTo(FreeFd(k))) = k
    OBVIOUS
  <2>1. k \in Nat \ {0} /\ Cardinality(FreeUpTo(MaxFd)) >= k
    BY <1>2
  <2> QED
    BY <1>1, <2>1, KthFree
<1>4. 2 \in 1..5 /\ 3 \in 1..5 /\ 2 # 3
  OBVIOUS
<1> QED
  BY <1>3, <1>4, Bounds

-----------------------------------------------------------------------------
(***************************************************************************)
(* Pieces of output.                                                       *)
(***************************************************************************)
\* The pieces a capture adds to its own log, and those that are sent.
LEMMA PiecesAreTyped ==
    ASSUME NEW m \in Captures, NEW i \in 0..MaxWrites, NEW nl \in BOOLEAN
    PROVE  /\ {Header(m), Footer(m), Record(m), Piece("out", m, i, nl)} \subseteq Pieces
           /\ <<Header(m)>> \in Seq(Pieces)
           /\ <<Footer(m)>> \in Seq(Pieces)
           /\ <<Record(m)>> \in Seq(Pieces)
<1>1. 0 \in 0..MaxWrites
  BY Bounds
<1>2. {Header(m), Footer(m), Record(m), Piece("out", m, i, nl)} \subseteq Pieces
  BY <1>1 DEF Header, Footer, Record, Piece, Pieces, Kinds
<1> QED
  BY <1>2

\* Two sequences of pieces, one after the other.
LEMMA Joined ==
    ASSUME NEW s \in Seq(Pieces), NEW t \in Seq(Pieces)
    PROVE  /\ s \o t \in Seq(Pieces)
           /\ Len(s) \in Nat /\ Len(t) \in Nat
           /\ Len(s \o t) = Len(s) + Len(t)
           /\ \A i \in 1..Len(s) : (s \o t)[i] = s[i]
           /\ \A i \in 1..Len(t) : (s \o t)[Len(s) + i] = t[i]
           /\ \A j \in 1..Len(s \o t) :
                  \/ j \in 1..Len(s)
                  \/ \E i \in 1..Len(t) : j = Len(s) + i
<1>1. /\ s \o t \in Seq(Pieces)
      /\ Len(s) \in Nat /\ Len(t) \in Nat
      /\ Len(s \o t) = Len(s) + Len(t)
      /\ \A i \in 1..(Len(s) + Len(t)) :
             (s \o t)[i] = IF i <= Len(s) THEN s[i] ELSE t[i - Len(s)]
  BY ConcatProperties, LenProperties
<1> DEFINE a == Len(s)
           b == Len(t)
           u == s \o t
<1> HIDE DEF a, b, u
<1>2. /\ a \in Nat /\ b \in Nat /\ Len(u) = a + b
      /\ \A i \in 1..(a + b) : u[i] = IF i <= a THEN s[i] ELSE t[i - a]
  BY <1>1 DEF a, b, u
<1>3. ASSUME NEW i \in 1..a
      PROVE  u[i] = s[i]
  BY <1>2
<1>4. ASSUME NEW i \in 1..b
      PROVE  u[a + i] = t[i]
  <2>1. a + i \in 1..(a + b) /\ ~(a + i <= a) /\ (a + i) - a = i
    BY <1>2
  <2> QED
    BY <1>2, <2>1
<1>5. ASSUME NEW j \in 1..(a + b), j \notin 1..a
      PROVE  \E i \in 1..b : j = a + i
  <2>1. j - a \in 1..b /\ j = a + (j - a)
    BY <1>2, <1>5
  <2> QED
    BY <2>1
<1> QED
  BY <1>1, <1>2, <1>3, <1>4, <1>5 DEF a, b, u

\* Adding what is not a footer adds no footer.
LEMMA FeetOfJoined ==
    ASSUME NEW s \in Seq(Pieces), NEW t \in Seq(Pieces), Feet(t) = {}
    PROVE  Feet(s \o t) = Feet(s)
<1>1. ASSUME NEW j \in 1..Len(s \o t), (s \o t)[j].kind = "footer"
      PROVE  j \in Feet(s)
  <2>1. CASE j \in 1..Len(s)
    BY <1>1, <2>1, Joined DEF Feet
  <2>2. CASE \E i \in 1..Len(t) : j = Len(s) + i
    BY <1>1, <2>2, Joined DEF Feet
  <2> QED
    BY <2>1, <2>2, Joined
<1>2. ASSUME NEW j \in Feet(s)
      PROVE  j \in Feet(s \o t)
  <2>1. j \in 1..Len(s) /\ s[j].kind = "footer"
    BY DEF Feet
  <2>2. j \in 1..Len(s \o t) /\ (s \o t)[j] = s[j]
    BY <2>1, Joined
  <2> QED
    BY <2>1, <2>2 DEF Feet
<1> QED
  BY <1>1, <1>2 DEF Feet

\* Adding a footer adds one.
LEMMA FootedOnce ==
    ASSUME NEW s \in Seq(Pieces), NEW m \in Captures, Feet(s) = {}
    PROVE  Feet(s \o <<Footer(m)>>) = {Len(s) + 1} /\ Len(s \o <<Footer(m)>>) = Len(s) + 1
<1> DEFINE t == <<Footer(m)>>
<1>1. t \in Seq(Pieces) /\ Len(t) = 1 /\ t[1].kind = "footer"
  <2>1. 0 \in 0..MaxWrites
    BY Bounds
  <2> QED
    BY <2>1, PiecesAreTyped DEF Footer, Piece
<1> HIDE DEF t
<1>2. Len(s \o t) = Len(s) + 1 /\ Len(s) \in Nat
  BY <1>1, ConcatProperties, LenProperties
<1>3. (s \o t)[Len(s) + 1].kind = "footer"
  BY <1>1, Joined
<1>4. ASSUME NEW j \in 1..Len(s)
      PROVE  (s \o t)[j].kind # "footer"
  BY <1>1, Joined DEF Feet
<1>5. Feet(s \o t) = {Len(s) + 1}
  <2>1. Len(s) + 1 \in 1..Len(s \o t)
    BY <1>2
  <2>2. \A j \in 1..Len(s \o t) : j # Len(s) + 1 => j \in 1..Len(s)
    BY <1>2
  <2> QED
    BY <1>3, <1>4, <2>1, <2>2 DEF Feet
<1> QED
  BY <1>2, <1>5 DEF t

\* What a pump and a pipe hold has no footer, and parts of it have none.
LEMMA OutputHasNoFeet ==
    ASSUME NEW s, OnlyOutput(s)
    PROVE  Feet(s) = {}
BY DEF OnlyOutput, Feet

\* A part of a sequence of pieces.
LEMMA Part ==
    ASSUME NEW s \in Seq(Pieces), NEW a \in 1..(Len(s) + 1), NEW b \in 0..Len(s), a <= b + 1
    PROVE  /\ SubSeq(s, a, b) \in Seq(Pieces)
           /\ Len(SubSeq(s, a, b)) = b - a + 1
           /\ \A i \in 1..Len(SubSeq(s, a, b)) :
                  /\ SubSeq(s, a, b)[i] = s[a + i - 1]
                  /\ a + i - 1 \in 1..Len(s)
<1>1. Len(s) \in Nat
  BY LenProperties
<1>2. a \in Int /\ b \in Int /\ a >= 1 /\ b <= Len(s)
  BY <1>1
<1>3. \A i \in a..b : s[i] \in Pieces
  <2>1. \A i \in a..b : i \in 1..Len(s)
    BY <1>1, <1>2
  <2> QED
    BY <2>1, ElementOfSeq
<1> DEFINE t == SubSeq(s, a, b)
<1>4. /\ t \in Seq(Pieces)
      /\ Len(t) = IF a <= b THEN b - a + 1 ELSE 0
      /\ \A i \in 1..(b - a + 1) : t[i] = s[a + i - 1]
  BY <1>2, <1>3, SubSeqProperties
<1> HIDE DEF t
<1>5. Len(t) = b - a + 1
  BY <1>2, <1>4
<1>6. \A i \in 1..(b - a + 1) : a + i - 1 \in 1..Len(s)
  BY <1>1, <1>2
<1> QED
  BY <1>4, <1>5, <1>6 DEF t

\* A pump with a line to write takes its text up to the first newline.
LEMMA EmitEffect ==
    ASSUME Types, EmitsLine, NEW m \in Captures, EmitLine(m)
    PROVE  \E end \in 1..Len(text[m]) :
               LET rest == SubSeq(text[m], end + 1, Len(text[m])) IN
               /\ log' = [log EXCEPT ![m] = Written(m, SubSeq(text[m], 1, end))]
               /\ text' = [text EXCEPT ![m] = rest]
               /\ pump' = [pump EXCEPT ![m] = Onward(rest)]
               /\ UNCHANGED <<main, n, fds, held, kids, sent, pipe, fresh, echoing, open, late>>
<1> DEFINE s == text[m]
           S == {i \in 1..Len(s) : s[i].nl}
           end == CHOOSE i \in DOMAIN s : s[i].nl /\ \A j \in 1..(i - 1) : ~s[j].nl
<1>1. pump[m] = "emit" /\ s \in Seq(Pieces) /\ Len(s) \in Nat /\ DOMAIN s = 1..Len(s)
  BY LenProperties DEF EmitLine, Types
<1>2. S # {} /\ S \subseteq Nat
  BY <1>1 DEF EmitsLine, HasLine
<1>3. PICK i \in S : \A k \in S : i <= k
  BY <1>2, LeastElement
<1>4. i \in DOMAIN s /\ s[i].nl /\ \A j \in 1..(i - 1) : ~s[j].nl
  <2>1. i \in 1..Len(s) /\ s[i].nl
    OBVIOUS
  <2>2. ASSUME NEW j \in 1..(i - 1), s[j].nl
        PROVE  FALSE
    <3>1. j \in 1..Len(s) /\ ~(i <= j)
      BY <1>1, <2>1
    <3> QED
      BY <1>3, <2>2, <3>1
  <2> QED
    BY <1>1, <2>1, <2>2
<1>5. end \in DOMAIN s
  BY <1>4
<1>6. end \in 1..Len(s)
  BY <1>1, <1>5
<1> QED
  BY <1>6 DEF EmitLine

-----------------------------------------------------------------------------
(***************************************************************************)
(* The steps.                                                              *)
(***************************************************************************)
\* A process starts with nothing but the terminal.
LEMMA InitIInv == Init => IInv
<1> SUFFICES ASSUME Init PROVE IInv
  OBVIOUS
<1> USE DEF Init
<1>1. 0 \in Fds /\ 1 \in Fds /\ 2 \in Fds /\ 0 \in 0..MaxCaptures /\ 0 \in 0..MaxKids
      /\ 0 \in 0..MaxWrites /\ 3..MaxFd \subseteq Fds
  BY Bounds
<1>2. <<>> \in Seq(Pieces) /\ \A s : s = <<>> => Len(s) = 0 /\ Feet(s) = {} /\ OnlyOutput(s)
  BY DEF Feet, OnlyOutput
<1>3. fds \in [Fds -> Objects] /\ NoFds \in Held
  BY <1>1 DEF StartFds, Objects, NoFds, Held
<1>4. Types
  BY <1>1, <1>2, <1>3 DEF Types, MainStages
<1>5. \A m \in Captures : m > 0
  BY DEF Captures
<1>6. StandardFds /\ Accounted
  BY <1>1 DEF StandardFds, Accounted, StartFds
<1>7. PipesCarryOutput /\ EmitsLine
  BY <1>2 DEF PipesCarryOutput, EmitsLine
<1>8. Stages /\ HeldHigh /\ FooterOnce
  BY <1>2, <1>5 DEF Stages, HeldHigh, FooterOnce, Captures
<1> QED
  BY <1>4, <1>6, <1>7, <1>8 DEF IInv

\* Where the main thread is, the capture it is in is one of them.
LEMMA Current ==
    ASSUME Types
    PROVE  /\ n \in Nat /\ MaxCaptures \in Nat
           /\ main # "idle" => n \in Captures
           /\ n < MaxCaptures => n + 1 \in Captures /\ n + 1 \in 0..MaxCaptures
           /\ \A m \in Captures : m \in Nat
BY Bounds DEF Types, Captures

\* What the pump does after a read or a line.
LEMMA OnwardTo ==
    ASSUME NEW s \in Seq(Pieces)
    PROVE  /\ Onward(s) \in {"read", "emit"}
           /\ Onward(s) = "emit" => HasLine(s)
<1>1. DOMAIN s = 1..Len(s)
  BY LenProperties
<1> QED
  BY <1>1 DEF Onward, HasLine

\* Reading takes the pipe.
LEMMA ReadEffect ==
    ASSUME Types, NEW m \in Captures, ReadChunk(m)
    PROVE  /\ pump[m] = "read" /\ pipe[m] # <<>>
           /\ text[m] \o pipe[m] \in Seq(Pieces)
           /\ text' = [text EXCEPT ![m] = text[m] \o pipe[m]]
           /\ fresh' = [fresh EXCEPT ![m] = IF echoing[m] THEN pipe[m] ELSE <<>>]
           /\ pipe' = [pipe EXCEPT ![m] = <<>>]
           /\ pump' = [pump EXCEPT ![m] = IF echoing[m] THEN "echo"
                                          ELSE Onward(text[m] \o pipe[m])]
           /\ UNCHANGED <<main, n, held, log, open, late, fds, kids, sent, echoing>>
<1>1. text[m] \in Seq(Pieces) /\ pipe[m] \in Seq(Pieces)
  BY DEF Types
<1> QED
  BY <1>1, ConcatProperties DEF ReadChunk, ReadInto, mainVars

\* Every step keeps the types.
LEMMA TypesStep == IInv /\ [Next]_vars => Types' /\ EmitsLine'
<1> SUFFICES ASSUME IInv, [Next]_vars
             PROVE  Types' /\ EmitsLine'
  OBVIOUS
<1>1. /\ Types /\ EmitsLine /\ PipesCarryOutput /\ Stages
      /\ StandardFds /\ HeldHigh /\ Accounted /\ FooterOnce
  BY DEF IInv
<1>2. /\ n \in Nat /\ MaxCaptures \in Nat
      /\ main # "idle" => n \in Captures
      /\ n < MaxCaptures => n + 1 \in Captures /\ n + 1 \in 0..MaxCaptures
  BY <1>1, Current
<1>3. /\ \A m \in Captures : WriteEnd(m) \in Objects /\ ReadEnd(m) \in Objects
                             /\ LogOf(m) \in Objects
      /\ {Free, Terminal, Scratch} \subseteq Objects
  BY DEF Objects
<1>4. \A m \in Captures, s \in Seq(Pieces) : Written(m, s) \in Seq(Pieces)
  BY <1>1, ConcatProperties DEF Written, Types
<1>5. \A numbers : Closed(fds, numbers) \in [Fds -> Objects]
  BY <1>1, <1>3 DEF Closed, Types
<1>6. CASE OpenLog
  <2>1. FreeFd(1) \in Fds
    BY <1>1, <1>6, HandedOut DEF OpenLog
  <2>2. n + 1 \in Captures /\ n + 1 \in 0..MaxCaptures /\ n + 1 >= 1
    BY <1>2, <1>6 DEF OpenLog
  <2>3. <<Header(n + 1)>> \in Seq(Pieces)
    <3>1. 0 \in 0..MaxWrites
      BY Bounds
    <3> QED
      BY <2>2, <3>1, PiecesAreTyped
  <2>4. fds' \in [Fds -> Objects]
    BY <1>1, <1>3, <1>6, <2>1, <2>2 DEF OpenLog, Opened, Types
  <2>5. held' \in [Captures -> Held]
    BY <1>1, <1>6, <2>1, <2>2 DEF OpenLog, Types, Held
  <2>6. UNCHANGED <<kids, sent, pipe, pump, text, fresh, echoing, late>>
    BY <1>6 DEF OpenLog
  <2>7. n' \in 0..MaxCaptures /\ n' >= 1 /\ main' \in MainStages
    BY <1>6, <2>2 DEF OpenLog, MainStages
  <2>8. log' \in [Captures -> Seq(Pieces)] /\ open' \in [Captures -> BOOLEAN]
    BY <1>1, <1>6, <2>2, <2>3 DEF OpenLog, Types
  <2> QED
    BY <1>1, <2>4, <2>5, <2>6, <2>7, <2>8 DEF Types, EmitsLine
<1>7. CASE EnterCapturing
  <2>1. n \in Captures /\ 1 \in Fds /\ 2 \in Fds
    BY <1>2, <1>7, Bounds DEF EnterCapturing
  <2>2. CapturingFds \in Held
    <3>1. \A k \in 1..5 : FreeFd(k) \in Fds
      BY <1>1, <1>7, HandedOut DEF EnterCapturing
    <3>2. held[n].log \in Fds
      BY <1>1, <2>1 DEF Types, Held
    <3> QED
      BY <3>1, <3>2 DEF CapturingFds, Held
  <2>3. held' \in [Captures -> Held]
    BY <1>1, <1>7, <2>1, <2>2 DEF EnterCapturing, Types
  <2>4. fds' \in [Fds -> Objects]
    <3> DEFINE new == CapturingFds
    <3>1. fds' = [fds EXCEPT ![new.read] = ReadEnd(n), ![new.write] = WriteEnd(n),
                          ![new.out] = Terminal, ![new.err] = Terminal,
                          ![new.term] = Terminal,
                          ![1] = WriteEnd(n), ![2] = WriteEnd(n)]
      BY <1>7 DEF EnterCapturing
    <3> HIDE DEF new
    <3> QED
      BY <1>1, <1>3, <2>1, <3>1 DEF Types
  <2>5. UNCHANGED <<n, kids, sent, pipe, text, fresh, log, open, late>>
    BY <1>7 DEF EnterCapturing
  <2>6. /\ pump' = [pump EXCEPT ![n] = "read"]
        /\ echoing' \in [Captures -> BOOLEAN]
        /\ main' = "calling"
        /\ main = "logged"
    <3>1. (n \in Echo) \in BOOLEAN
      OBVIOUS
    <3>2. echoing' = [echoing EXCEPT ![n] = n \in Echo] /\ echoing \in [Captures -> BOOLEAN]
      BY <1>1, <1>7 DEF EnterCapturing, Types
    <3>3. echoing' \in [Captures -> BOOLEAN]
      BY <3>1, <3>2
    <3> QED
      BY <1>7, <3>3 DEF EnterCapturing
  <2> QED
    BY <1>1, <1>2, <2>1, <2>3, <2>4, <2>5, <2>6 DEF Types, EmitsLine, MainStages
<1>8. CASE SkipCapturing \/ JoinPump
  BY <1>1, <1>2, <1>8 DEF SkipCapturing, JoinPump, Types, EmitsLine, MainStages
<1>9. CASE LeaveCapturing \/ CloseSaved
  <2>1. fds' \in [Fds -> Objects]
    <3>1. CASE LeaveCapturing
      BY <1>3, <1>5, <3>1 DEF LeaveCapturing
    <3>2. CASE CloseSaved
      BY <1>5, <3>2 DEF CloseSaved
    <3> QED
      BY <1>9, <3>1, <3>2
  <2> QED
    BY <1>1, <1>2, <1>9, <2>1 DEF LeaveCapturing, CloseSaved, Types, EmitsLine, MainStages
<1>10. CASE JoinTimesOut
  BY <1>1, <1>2, <1>10 DEF JoinTimesOut, Types, EmitsLine, MainStages
<1>11. CASE CloseFile \/ WriteFooter
  <2>1. n \in Captures
    BY <1>2, <1>11 DEF CloseFile, WriteFooter
  <2>2. <<Record(n)>> \in Seq(Pieces) /\ <<Footer(n)>> \in Seq(Pieces)
    <3>1. 0 \in 0..MaxWrites
      BY Bounds
    <3> QED
      BY <2>1, <3>1, PiecesAreTyped
  <2>3. Written(n, <<Record(n)>>) \in Seq(Pieces) /\ Written(n, <<Footer(n)>>) \in Seq(Pieces)
    BY <1>4, <2>1, <2>2
  <2>4. fds' \in [Fds -> Objects]
    BY <1>1, <1>5, <1>11 DEF CloseFile, WriteFooter, Types
  <2>5. log' \in [Captures -> Seq(Pieces)]
    BY <1>1, <1>11, <2>1, <2>3 DEF CloseFile, WriteFooter, Types
  <2> QED
    BY <1>1, <1>11, <2>1, <2>4, <2>5, <1>2
    DEF CloseFile, WriteFooter, Types, EmitsLine, MainStages
<1>12. CASE CloseLog
  <2>1. fds' \in [Fds -> Objects]
    BY <1>5, <1>12 DEF CloseLog
  <2> QED
    BY <1>1, <1>12, <2>1 DEF CloseLog, Types, EmitsLine, MainStages
<1>13. CASE OpenFile
  <2>1. FreeFd(1) \in Fds
    BY <1>1, <1>13, HandedOut DEF OpenFile
  <2>2. fds' \in [Fds -> Objects]
    BY <1>1, <1>3, <1>13, <2>1 DEF OpenFile, Opened, Types
  <2> QED
    BY <1>1, <1>2, <1>13, <2>2 DEF OpenFile, Types, EmitsLine, MainStages
<1>14. ASSUME NEW m \in Captures, ReadChunk(m)
       PROVE  Types' /\ EmitsLine'
  <2> DEFINE s == text[m] \o pipe[m]
  <2>1. s \in Seq(Pieces) /\ <<>> \in Seq(Pieces)
    <3>1. s \in Seq(Pieces)
      BY <1>1, <1>14, ReadEffect
    <3>2. <<>> \in Seq(Pieces)
      OBVIOUS
    <3> QED
      BY <3>1, <3>2
  <2>2. /\ text' = [text EXCEPT ![m] = s]
        /\ fresh' = [fresh EXCEPT ![m] = IF echoing[m] THEN pipe[m] ELSE <<>>]
        /\ pipe' = [pipe EXCEPT ![m] = <<>>]
        /\ pump' = [pump EXCEPT ![m] = IF echoing[m] THEN "echo" ELSE Onward(s)]
        /\ UNCHANGED <<main, n, held, log, open, late, fds, kids, sent, echoing>>
    BY <1>1, <1>14, ReadEffect
  <2> HIDE DEF s
  <2>3. Onward(s) \in {"read", "emit"} /\ (Onward(s) = "emit" => HasLine(s))
    BY <2>1, OnwardTo
  <2> QED
    BY <1>1, <2>1, <2>2, <2>3 DEF Types, EmitsLine
<1>15. ASSUME NEW m \in Captures, EchoChunk(m)
       PROVE  Types' /\ EmitsLine'
  <2>1. /\ Onward(text[m]) \in {"read", "emit"}
        /\ Onward(text[m]) = "emit" => HasLine(text[m])
    BY <1>1, OnwardTo DEF Types
  <2>2. PICK later : /\ pipe' = [k \in Captures |-> IF k \in later THEN pipe[k] \o fresh[m]
                                                                  ELSE pipe[k]]
    BY <1>15 DEF EchoChunk
  <2>3. pipe' \in [Captures -> Seq(Pieces)]
    BY <1>1, <2>2, ConcatProperties DEF Types
  <2>4. echoing' \in [Captures -> BOOLEAN] /\ fresh' \in [Captures -> Seq(Pieces)]
    BY <1>1, <1>15 DEF EchoChunk, Types
  <2>5. pump' = [pump EXCEPT ![m] = Onward(text[m])]
        /\ UNCHANGED <<main, n, held, log, open, late, fds, kids, sent, text>>
    BY <1>15 DEF EchoChunk, mainVars
  <2> QED
    BY <1>1, <2>1, <2>3, <2>4, <2>5 DEF Types, EmitsLine
<1>16. ASSUME NEW m \in Captures, EmitLine(m)
       PROVE  Types' /\ EmitsLine'
  <2>1. PICK end \in 1..Len(text[m]) :
            LET rest == SubSeq(text[m], end + 1, Len(text[m])) IN
               /\ log' = [log EXCEPT ![m] = Written(m, SubSeq(text[m], 1, end))]
               /\ text' = [text EXCEPT ![m] = rest]
               /\ pump' = [pump EXCEPT ![m] = Onward(rest)]
               /\ UNCHANGED <<main, n, fds, held, kids, sent, pipe, fresh, echoing, open, late>>
    BY <1>1, <1>16, EmitEffect
  <2> DEFINE rest == SubSeq(text[m], end + 1, Len(text[m]))
             line == SubSeq(text[m], 1, end)
  <2>2. text[m] \in Seq(Pieces) /\ Len(text[m]) \in Nat
    BY <1>1, LenProperties DEF Types
  <2>3. rest \in Seq(Pieces) /\ line \in Seq(Pieces)
    BY <2>2, Part
  <2>4. Onward(rest) \in {"read", "emit"} /\ (Onward(rest) = "emit" => HasLine(rest))
    BY <2>3, OnwardTo
  <2>5. Written(m, line) \in Seq(Pieces)
    BY <1>4, <2>3
  <2>6. /\ log' = [log EXCEPT ![m] = Written(m, line)]
        /\ text' = [text EXCEPT ![m] = rest]
        /\ pump' = [pump EXCEPT ![m] = Onward(rest)]
        /\ UNCHANGED <<main, n, fds, held, kids, sent, pipe, fresh, echoing, open, late>>
    BY <2>1
  <2> HIDE DEF rest, line
  <2> QED
    BY <1>1, <2>3, <2>4, <2>5, <2>6 DEF Types, EmitsLine
<1>17. ASSUME NEW m \in Captures, PumpEnds(m)
       PROVE  Types' /\ EmitsLine'
  <2>1. Written(m, text[m]) \in Seq(Pieces) /\ <<>> \in Seq(Pieces)
    BY <1>1, <1>4 DEF Types
  <2>2. fds' \in [Fds -> Objects]
    BY <1>5, <1>17 DEF PumpEnds
  <2> QED
    BY <1>1, <1>17, <2>1, <2>2 DEF PumpEnds, Types, EmitsLine
<1>18. ASSUME NEW m \in Captures, NEW nl \in BOOLEAN, Output(m, nl)
       PROVE  Types' /\ EmitsLine'
  <2>1. sent[m] + 1 \in 0..MaxWrites
    BY <1>1, <1>18, Bounds DEF Types, Output
  <2>2. Piece("out", m, sent[m] + 1, nl) \in Pieces
    BY <2>1, PiecesAreTyped
  <2>3. Append(pipe[m], Piece("out", m, sent[m] + 1, nl)) \in Seq(Pieces)
    BY <1>1, <2>2, AppendProperties DEF Types
  <2> QED
    BY <1>1, <1>18, <2>1, <2>3 DEF Output, Types, EmitsLine, mainVars
<1>19. CASE Spawn
  <2>1. kids' \in [Captures -> 0..MaxKids]
    BY <1>1, <1>2, <1>19, Bounds DEF Spawn, Types
  <2> QED
    BY <1>1, <1>19, <2>1 DEF Spawn, Types, EmitsLine, mainVars
<1>20. ASSUME NEW m \in Captures, KidExits(m)
       PROVE  Types' /\ EmitsLine'
  <2>1. kids' \in [Captures -> 0..MaxKids]
    BY <1>1, <1>20, Bounds DEF KidExits, Types
  <2> QED
    BY <1>1, <1>20, <2>1 DEF KidExits, Types, EmitsLine, mainVars
<1>21. CASE UNCHANGED vars
  BY <1>1, <1>21 DEF vars, Types, EmitsLine
<1> QED
  BY <1>2, <1>6, <1>7, <1>8, <1>9, <1>10, <1>11, <1>12, <1>13, <1>14, <1>15, <1>16, <1>17,
     <1>18, <1>19, <1>20, <1>21
  DEF Next, Main, Pump, Outside, AutomationWrites, KidWrites

-----------------------------------------------------------------------------
\* Only the capture whose automation runs has the writing end of its pipe in
\* the descriptor table.
LEMMA WriteEndOwner ==
    ASSUME Types, StandardFds, Accounted, NEW f \in Fds, NEW k \in Captures,
           fds[f] = WriteEnd(k)
    PROVE  main = "calling" /\ k = n /\ (f >= 3 => f = held[n].write)
<1>1. /\ WriteEnd(k) # Free /\ WriteEnd(k) # Terminal /\ WriteEnd(k) # Scratch
      /\ \A m : WriteEnd(k) # LogOf(m) /\ WriteEnd(k) # ReadEnd(m)
      /\ \A m : WriteEnd(k) = WriteEnd(m) => k = m
  BY DEF WriteEnd, Free, Terminal, Scratch, LogOf, ReadEnd
<1>2. CASE f \in 3..MaxFd
  <2>1. IsWrite(f)
    BY <1>1, <1>2 DEF Accounted, IsScratch, IsLog, IsRead, IsSaved
  <2> QED
    BY <1>1, <2>1 DEF IsWrite
<1>3. CASE f \notin 3..MaxFd
  <2>1. f \in Int /\ (f = 0 \/ f = 1 \/ f = 2)
    BY <1>3, Bounds DEF Fds
  <2>2. main = "calling" /\ fds[f] = WriteEnd(n)
    BY <1>1, <2>1 DEF StandardFds
  <2> QED
    BY <1>1, <2>1, <2>2
<1> QED
  BY <1>2, <1>3

\* Whoever writes to a pipe, a pump reads it.
LEMMA Writers ==
    ASSUME Types, PipesCarryOutput, Stages, NEW nl \in BOOLEAN,
           \/ AutomationWrites(nl)
           \/ \E m \in Captures : KidWrites(m, nl)
    PROVE  \E m \in Captures : Output(m, nl) /\ pump[m] \notin {"off", "gone"}
<1>1. CASE AutomationWrites(nl)
  <2>1. main = "calling" /\ Output(n, nl) /\ n \in Captures
    BY <1>1, Current DEF AutomationWrites
  <2> QED
    BY <2>1 DEF Stages
<1>2. ASSUME NEW m \in Captures, KidWrites(m, nl)
      PROVE  Output(m, nl) /\ pump[m] \notin {"off", "gone"}
  <2>1. Output(m, nl) /\ kids[m] # 0
    BY <1>2 DEF KidWrites
  <2> QED
    BY <2>1 DEF PipesCarryOutput, Stages
<1> QED
  BY <1>1, <1>2

\* Output after output is output.
LEMMA JoinedOutput ==
    ASSUME NEW s \in Seq(Pieces), NEW t \in Seq(Pieces), OnlyOutput(s), OnlyOutput(t)
    PROVE  OnlyOutput(s \o t)
<1> SUFFICES ASSUME NEW j \in 1..Len(s \o t) PROVE (s \o t)[j].kind = "out"
  BY DEF OnlyOutput
<1>1. CASE j \in 1..Len(s)
  BY <1>1, Joined DEF OnlyOutput
<1>2. CASE \E i \in 1..Len(t) : j = Len(s) + i
  BY <1>2, Joined DEF OnlyOutput
<1> QED
  BY <1>1, <1>2, Joined

\* Every step keeps to what goes through a pipe.
LEMMA PipesStep == IInv /\ [Next]_vars => PipesCarryOutput'
<1> SUFFICES ASSUME IInv, [Next]_vars
             PROVE  PipesCarryOutput'
  OBVIOUS
<1>1. /\ Types /\ EmitsLine /\ PipesCarryOutput /\ Stages
      /\ StandardFds /\ HeldHigh /\ Accounted /\ FooterOnce
  BY DEF IInv
<1>2. /\ n \in Nat /\ MaxCaptures \in Nat
      /\ main # "idle" => n \in Captures
      /\ \A m \in Captures : m \in Nat
  BY <1>1, Current
<1>3. OnlyOutput(<<>>)
  BY DEF OnlyOutput
<1>4. CASE OpenLog
  <2>1. /\ n' = n + 1
        /\ UNCHANGED <<kids, sent, pipe, pump, text, fresh, echoing>>
        /\ \A m \in Captures : m # n + 1 => log'[m] = log[m]
    BY <1>1, <1>4 DEF OpenLog, Types
  <2>2. \A m \in Captures : m > n' => m > n /\ m # n + 1
    BY <1>2, <2>1
  <2> QED
    BY <1>1, <2>1, <2>2 DEF PipesCarryOutput
<1>5. CASE EnterCapturing
  BY <1>1, <1>2, <1>5 DEF EnterCapturing, PipesCarryOutput, Types
<1>6. CASE SkipCapturing \/ LeaveCapturing \/ JoinPump \/ JoinTimesOut \/ CloseSaved
           \/ OpenFile \/ CloseLog
  BY <1>1, <1>6
  DEF SkipCapturing, LeaveCapturing, JoinPump, JoinTimesOut, CloseSaved, OpenFile,
      CloseLog, PipesCarryOutput
<1>7. CASE CloseFile \/ WriteFooter
  <2>1. /\ UNCHANGED <<n, kids, sent, pipe, pump, text, fresh, echoing>>
        /\ \A m \in Captures : m # n => log'[m] = log[m]
    BY <1>1, <1>7 DEF CloseFile, WriteFooter, Types
  <2> QED
    BY <1>1, <1>2, <2>1 DEF PipesCarryOutput
<1>8. ASSUME NEW m \in Captures, ReadChunk(m)
      PROVE  PipesCarryOutput'
  <2> DEFINE s == text[m] \o pipe[m]
  <2>1. OnlyOutput(s)
    BY <1>1, JoinedOutput DEF Types, PipesCarryOutput
  <2>2. /\ text' = [text EXCEPT ![m] = s]
        /\ fresh' = [fresh EXCEPT ![m] = IF echoing[m] THEN pipe[m] ELSE <<>>]
        /\ pipe' = [pipe EXCEPT ![m] = <<>>]
        /\ pump' = [pump EXCEPT ![m] = IF echoing[m] THEN "echo" ELSE Onward(s)]
        /\ pump[m] = "read"
        /\ UNCHANGED <<main, n, held, log, open, late, fds, kids, sent, echoing>>
    BY <1>1, <1>8, ReadEffect
  <2>3. Onward(s) # "off"
    BY DEF Onward
  <2> HIDE DEF s
  <2> QED
    BY <1>1, <1>3, <2>1, <2>2, <2>3 DEF PipesCarryOutput, Types
<1>9. ASSUME NEW m \in Captures, EchoChunk(m)
      PROVE  PipesCarryOutput'
  <2> DEFINE later == {k \in Captures : fds[held[m].out] = WriteEnd(k)}
  <2>1. /\ pump[m] = "echo" /\ pump' = [pump EXCEPT ![m] = Onward(text[m])]
        /\ pipe' = [k \in Captures |-> IF k \in later THEN pipe[k] \o fresh[m] ELSE pipe[k]]
        /\ fresh' = [fresh EXCEPT ![m] = <<>>]
        /\ echoing' = [echoing EXCEPT ![m] =
              fds[held[m].out] \notin {Free} \cup {ReadEnd(k) : k \in Captures}]
        /\ UNCHANGED <<main, n, held, log, open, late, fds, kids, sent, text>>
    BY <1>9 DEF EchoChunk, mainVars
  <2>2. Onward(text[m]) # "off"
    BY DEF Onward
  <2>3. \A k \in Captures : k \in later => pump[k] # "off"
    <3>1. held[m].out \in Fds
      BY <1>1 DEF Types, Held
    <3>2. \A k \in Captures : k \in later => main = "calling" /\ k = n
      BY <1>1, <3>1, WriteEndOwner
    <3> QED
      BY <1>1, <3>2 DEF Stages
  <2>4. \A k \in Captures : OnlyOutput(pipe[k] \o fresh[m])
    BY <1>1, JoinedOutput DEF Types, PipesCarryOutput
  <2> HIDE DEF later
  <2> QED
    BY <1>1, <1>3, <2>1, <2>2, <2>3, <2>4 DEF PipesCarryOutput, Types
<1>10. ASSUME NEW m \in Captures, EmitLine(m)
       PROVE  PipesCarryOutput'
  <2>1. PICK end \in 1..Len(text[m]) :
            LET rest == SubSeq(text[m], end + 1, Len(text[m])) IN
               /\ log' = [log EXCEPT ![m] = Written(m, SubSeq(text[m], 1, end))]
               /\ text' = [text EXCEPT ![m] = rest]
               /\ pump' = [pump EXCEPT ![m] = Onward(rest)]
               /\ UNCHANGED <<main, n, fds, held, kids, sent, pipe, fresh, echoing, open, late>>
    BY <1>1, <1>10, EmitEffect
  <2> DEFINE rest == SubSeq(text[m], end + 1, Len(text[m]))
  <2>2. text[m] \in Seq(Pieces) /\ Len(text[m]) \in Nat
    BY <1>1, LenProperties DEF Types
  <2>3. OnlyOutput(rest)
    BY <1>1, <2>2, Part DEF OnlyOutput, PipesCarryOutput
  <2>4. Onward(rest) # "off" /\ pump[m] = "emit"
    BY <1>10 DEF Onward, EmitLine
  <2>5. m <= n
    BY <1>1, <1>2, <2>4 DEF PipesCarryOutput
  <2> HIDE DEF rest
  <2>6. /\ \A k \in Captures : k # m => log'[k] = log[k]
        /\ text' = [text EXCEPT ![m] = rest]
        /\ pump' = [pump EXCEPT ![m] = Onward(rest)]
        /\ UNCHANGED <<n, kids, sent, pipe, fresh, echoing>>
    BY <1>1, <2>1 DEF rest, Types
  <2> QED
    BY <1>1, <1>2, <2>3, <2>4, <2>5, <2>6 DEF PipesCarryOutput, Types
<1>11. ASSUME NEW m \in Captures, PumpEnds(m)
       PROVE  PipesCarryOutput'
  <2>1. m <= n
    BY <1>1, <1>2, <1>11 DEF PipesCarryOutput, PumpEnds
  <2> QED
    BY <1>1, <1>2, <1>3, <1>11, <2>1 DEF PumpEnds, PipesCarryOutput, Types
<1>12. ASSUME NEW m \in Captures, NEW nl \in BOOLEAN, Output(m, nl),
              pump[m] \notin {"off", "gone"}
       PROVE  PipesCarryOutput'
  <2> DEFINE p == Piece("out", m, sent[m] + 1, nl)
  <2>1. p \in Pieces
    <3>1. sent[m] + 1 \in 0..MaxWrites
      BY <1>1, <1>12, Bounds DEF Types, Output
    <3> QED
      BY <3>1, PiecesAreTyped
  <2>2. p.kind = "out"
    BY DEF Piece
  <2> HIDE DEF p
  <2>3. OnlyOutput(Append(pipe[m], p))
    <3>1. /\ pipe[m] \in Seq(Pieces) /\ OnlyOutput(pipe[m])
      BY <1>1 DEF Types, PipesCarryOutput
    <3>2. /\ Len(Append(pipe[m], p)) = Len(pipe[m]) + 1
          /\ Len(pipe[m]) \in Nat
          /\ \A i \in 1..Len(pipe[m]) : Append(pipe[m], p)[i] = pipe[m][i]
          /\ Append(pipe[m], p)[Len(pipe[m]) + 1] = p
      BY <2>1, <3>1, AppendProperties, LenProperties
    <3> QED
      BY <2>2, <3>1, <3>2 DEF OnlyOutput
  <2>4. /\ pipe' = [pipe EXCEPT ![m] = Append(pipe[m], p)]
        /\ UNCHANGED <<n, log, pump, text, fresh, echoing, kids>>
        /\ \A k \in Captures : k # m => sent'[k] = sent[k]
    BY <1>1, <1>12 DEF Output, mainVars, p, Types
  <2> QED
    BY <1>1, <1>12, <2>3, <2>4 DEF PipesCarryOutput, Types
<1>13. CASE Spawn
  BY <1>1, <1>2, <1>13 DEF Spawn, PipesCarryOutput, Stages, Types, mainVars
<1>14. ASSUME NEW m \in Captures, KidExits(m)
       PROVE  PipesCarryOutput'
  BY <1>1, <1>14 DEF KidExits, PipesCarryOutput, Types, mainVars
<1>15. CASE UNCHANGED vars
  BY <1>1, <1>15 DEF vars, PipesCarryOutput
<1>16. ASSUME NEW nl \in BOOLEAN,
              AutomationWrites(nl) \/ \E m \in Captures : KidWrites(m, nl)
       PROVE  PipesCarryOutput'
  BY <1>1, <1>12, <1>16, Writers
<1> QED
  BY <1>4, <1>5, <1>6, <1>7, <1>8, <1>9, <1>10, <1>11, <1>13, <1>14, <1>15, <1>16
  DEF Next, Main, Pump, Outside

\* Every step of a pump that is not its last leaves it running, and none of
\* them is of a capture that has not started.
LEMMA PumpMoves ==
    ASSUME IInv, NEW m \in Captures, ReadChunk(m) \/ EchoChunk(m) \/ EmitLine(m)
    PROVE  /\ pump[m] \notin {"off", "gone"}
           /\ \E stage \in {"read", "echo", "emit"} : pump' = [pump EXCEPT ![m] = stage]
           /\ UNCHANGED <<main, n, fds, held, kids, open, late>>
<1>1. Types /\ EmitsLine
  BY DEF IInv
<1>2. \A s : Onward(s) \in {"read", "emit"}
  BY DEF Onward
<1>3. CASE ReadChunk(m)
  <2> DEFINE next == Onward(text[m] \o pipe[m])
  <2>1. /\ pump[m] = "read"
        /\ pump' = [pump EXCEPT ![m] = IF echoing[m] THEN "echo" ELSE next]
    BY <1>1, <1>3, ReadEffect
  <2>2. UNCHANGED <<main, n, fds, held, kids, open, late>>
    BY <1>1, <1>3, ReadEffect
  <2>3. next \in {"read", "emit"}
    BY <1>2
  <2> HIDE DEF next
  <2>4. CASE echoing[m]
    BY <2>1, <2>2, <2>4
  <2>5. CASE ~echoing[m]
    BY <2>1, <2>2, <2>3, <2>5
  <2> QED
    BY <2>4, <2>5
<1>4. CASE EchoChunk(m)
  BY <1>2, <1>4 DEF EchoChunk, mainVars
<1>5. CASE EmitLine(m)
  <2>1. pump[m] = "emit"
    BY <1>5 DEF EmitLine
  <2>2. \E s : pump' = [pump EXCEPT ![m] = Onward(s)]
    BY <1>1, <1>5, EmitEffect
  <2>3. UNCHANGED <<main, n, fds, held, kids, open, late>>
    BY <1>5 DEF EmitLine
  <2> QED
    BY <1>2, <2>1, <2>2, <2>3
<1> QED
  BY <1>3, <1>4, <1>5

\* Every step keeps the main thread and the pumps in step.
LEMMA StagesStep == IInv /\ [Next]_vars => Stages'
<1> SUFFICES ASSUME IInv, [Next]_vars
             PROVE  Stages'
  OBVIOUS
<1>1. /\ Types /\ EmitsLine /\ PipesCarryOutput /\ Stages
      /\ StandardFds /\ HeldHigh /\ Accounted /\ FooterOnce
  BY DEF IInv
<1>2. /\ n \in Nat /\ MaxCaptures \in Nat
      /\ main # "idle" => n \in Captures
      /\ \A m \in Captures : m \in Nat
  BY <1>1, Current
<1>3. CASE OpenLog
  <2>1. n + 1 \in Captures
    BY <1>1, <1>3, Current DEF OpenLog
  <2>2. /\ n' = n + 1 /\ main = "idle" /\ main' = "logged"
        /\ open' = [open EXCEPT ![n + 1] = TRUE]
        /\ UNCHANGED <<kids, pump, late>>
    BY <1>3 DEF OpenLog
  <2>3. pump[n + 1] = "off" /\ ~late[n + 1]
    BY <1>1, <1>2, <2>1 DEF PipesCarryOutput, Stages
  <2>4. \A m \in Captures : open'[m] <=> m = n + 1
    BY <1>1, <2>1, <2>2 DEF Stages, Types
  <2>5. \A m \in Captures : m < n + 1 => late[m] \/ pump[m] \in {"off", "gone"}
    BY <1>1, <1>2, <2>2 DEF Stages
  <2>6. \A m \in Captures : m > n + 1 => ~late[m]
    BY <1>1, <1>2 DEF Stages
  <2> QED
    BY <1>1, <1>2, <2>2, <2>3, <2>4, <2>5, <2>6 DEF Stages
<1>4. CASE EnterCapturing
  BY <1>1, <1>2, <1>4 DEF EnterCapturing, Stages, Types
<1>5. CASE SkipCapturing \/ LeaveCapturing \/ JoinPump \/ CloseSaved \/ OpenFile
           \/ CloseFile \/ WriteFooter
  BY <1>1, <1>2, <1>5
  DEF SkipCapturing, LeaveCapturing, JoinPump, CloseSaved, OpenFile, CloseFile,
      WriteFooter, Stages
<1>6. CASE JoinTimesOut
  BY <1>1, <1>2, <1>6 DEF JoinTimesOut, Stages, Types
<1>7. CASE CloseLog
  BY <1>1, <1>2, <1>7 DEF CloseLog, Stages, Types
<1>8. ASSUME NEW m \in Captures, ReadChunk(m) \/ EchoChunk(m) \/ EmitLine(m)
      PROVE  Stages'
  <2>1. /\ pump[m] \notin {"off", "gone"}
        /\ UNCHANGED <<main, n, kids, open, late>>
    BY <1>8, PumpMoves
  <2>2. PICK stage \in {"read", "echo", "emit"} : pump' = [pump EXCEPT ![m] = stage]
    BY <1>8, PumpMoves
  <2> QED
    BY <1>1, <1>2, <2>1, <2>2 DEF Stages, Types
<1>9. ASSUME NEW m \in Captures, PumpEnds(m)
      PROVE  Stages'
  <2>1. /\ pump[m] = "read" /\ ~HoldsPipe(m)
        /\ pump' = [pump EXCEPT ![m] = "gone"]
        /\ UNCHANGED <<main, n, kids, open, late>>
    BY <1>9 DEF PumpEnds
  <2>2. kids[m] = 0
    BY <1>1, <2>1, Bounds DEF HoldsPipe, Types
  <2>3. ~(main = "calling" /\ m = n)
    <3>1. 1 \in Fds
      BY Bounds
    <3> QED
      BY <1>1, <2>1, <3>1 DEF HoldsPipe, StandardFds
  <2> QED
    BY <1>1, <1>2, <2>1, <2>2, <2>3 DEF Stages, Types
<1>10. ASSUME NEW m \in Captures, NEW nl \in BOOLEAN, Output(m, nl)
       PROVE  Stages'
  BY <1>1, <1>10 DEF Output, Stages, mainVars
<1>11. CASE Spawn
  BY <1>1, <1>2, <1>11 DEF Spawn, Stages, Types, mainVars
<1>12. ASSUME NEW m \in Captures, KidExits(m)
       PROVE  Stages'
  BY <1>1, <1>12 DEF KidExits, Stages, Types, mainVars
<1>13. CASE UNCHANGED vars
  BY <1>1, <1>13 DEF vars, Stages
<1> QED
  BY <1>2, <1>3, <1>4, <1>5, <1>6, <1>7, <1>8, <1>9, <1>10, <1>11, <1>12, <1>13
  DEF Next, Main, Pump, Outside, AutomationWrites, KidWrites

\* Closing descriptors frees those and no others.
LEMMA ClosedFrees ==
    ASSUME NEW numbers, NEW f \in Fds
    PROVE  Closed(fds, numbers)[f] = IF f \in numbers THEN Free ELSE fds[f]
BY DEF Closed

\* Every step keeps the account of the descriptor table.
LEMMA FdsStep == IInv /\ [Next]_vars => StandardFds' /\ HeldHigh' /\ Accounted'
<1> SUFFICES ASSUME IInv, [Next]_vars
             PROVE  StandardFds' /\ HeldHigh' /\ Accounted'
  OBVIOUS
<1>1. /\ Types /\ EmitsLine /\ PipesCarryOutput /\ Stages
      /\ StandardFds /\ HeldHigh /\ Accounted /\ FooterOnce
  BY DEF IInv
<1>2. /\ n \in Nat /\ MaxCaptures \in Nat
      /\ main # "idle" => n \in Captures
      /\ \A m \in Captures : m \in Nat
  BY <1>1, Current
<1>3. /\ 0 \in Fds /\ 1 \in Fds /\ 2 \in Fds
      /\ \A f \in 3..MaxFd : f \in Fds /\ f # 0 /\ f # 1 /\ f # 2 /\ f >= 3
      /\ 0 \notin 3..MaxFd /\ 1 \notin 3..MaxFd /\ 2 \notin 3..MaxFd
      /\ ~(0 >= 3) /\ ~(1 >= 3) /\ ~(2 >= 3)
  BY Bounds
<1>4. CASE OpenLog
  <2> DEFINE new == FreeFd(1)
  <2>1. new \in 3..MaxFd /\ new \in Fds
    BY <1>1, <1>4, HandedOut DEF OpenLog
  <2> HIDE DEF new
  <2>2. /\ n + 1 \in Captures /\ n' = n + 1 /\ main = "idle" /\ main' = "logged"
        /\ fds' = [fds EXCEPT ![new] = LogOf(n + 1)]
        /\ held' = [held EXCEPT ![n + 1].log = new]
        /\ UNCHANGED pump
    BY <1>1, <1>4, Current DEF OpenLog, Opened, new
  <2>3. StandardFds'
    BY <1>1, <1>3, <2>1, <2>2 DEF StandardFds, Types
  <2>4. /\ held'[n + 1].log = new
        /\ \A m \in Captures : m # n + 1 => held'[m] = held[m]
        /\ pump[n + 1] = "off"
    BY <1>1, <1>2, <2>2 DEF Types, Held, PipesCarryOutput
  <2>5. HeldHigh'
    <3>1. \A m \in Captures : m <= n' /\ m # n + 1 => m <= n
      BY <1>2, <2>2
    <3>2. new >= 3
      BY <1>3, <2>1
    <3> QED
      BY <1>1, <2>2, <2>4, <3>1, <3>2 DEF HeldHigh
  <2>6. ASSUME NEW f \in 3..MaxFd
        PROVE  fds'[f] = Free \/ IsLog(f)' \/ IsRead(f)'
    <3>1. CASE f = new
      BY <1>1, <2>1, <2>2, <2>4, <3>1 DEF IsLog, Types
    <3>2. CASE f # new
      <4>1. fds'[f] = fds[f]
        BY <1>1, <1>3, <2>1, <2>2, <3>2 DEF Types
      <4>2. fds[f] = Free \/ IsRead(f)
        BY <1>1, <2>2 DEF Accounted, IsScratch, IsLog, IsWrite, IsSaved
      <4> QED
        BY <2>2, <2>4, <4>1, <4>2 DEF IsRead
    <3> QED
      BY <3>1, <3>2
  <2> QED
    BY <2>3, <2>5, <2>6 DEF Accounted
<1>5. CASE EnterCapturing
  <2> DEFINE new == CapturingFds
  <2>1. /\ new = [log |-> held[n].log, read |-> FreeFd(1), write |-> FreeFd(2),
                  out |-> FreeFd(3), err |-> FreeFd(4), term |-> FreeFd(5)]
        /\ \A k \in 1..5 : FreeFd(k) \in 3..MaxFd
        /\ FreeFd(2) # FreeFd(3)
    BY <1>1, <1>5, HandedOut DEF EnterCapturing, CapturingFds
  <2>2. /\ new.log = held[n].log
        /\ new.read \in 3..MaxFd /\ new.write \in 3..MaxFd /\ new.out \in 3..MaxFd
        /\ new.err \in 3..MaxFd /\ new.term \in 3..MaxFd
        /\ new.out # new.write
    BY <2>1
  <2> HIDE DEF new
  <2>3. /\ n \in Captures /\ n' = n /\ main = "logged" /\ main' = "calling"
        /\ pump' = [pump EXCEPT ![n] = "read"] /\ pump[n] = "off"
        /\ held' = [held EXCEPT ![n] = new]
        /\ fds' = [fds EXCEPT ![new.read] = ReadEnd(n), ![new.write] = WriteEnd(n),
                          ![new.out] = Terminal, ![new.err] = Terminal,
                          ![new.term] = Terminal,
                          ![1] = WriteEnd(n), ![2] = WriteEnd(n)]
    BY <1>1, <1>2, <1>5 DEF EnterCapturing, Stages, new
  <2>4. StandardFds'
    <3>1. fds \in [Fds -> Objects] /\ fds[0] = Terminal
      BY <1>1 DEF Types, StandardFds
    <3>2. /\ new.read \notin {0, 1, 2} /\ new.write \notin {0, 1, 2}
          /\ new.out \notin {0, 1, 2} /\ new.err \notin {0, 1, 2}
          /\ new.term \notin {0, 1, 2}
      BY <1>3, <2>2
    <3>3. fds'[0] = fds[0]
      BY <1>3, <2>3, <3>1, <3>2
    <3>4. fds'[1] = WriteEnd(n)
      BY <1>3, <2>3, <3>1, <3>2
    <3>5. fds'[2] = WriteEnd(n)
      BY <1>3, <2>3, <3>1, <3>2
    <3> QED
      BY <2>3, <3>1, <3>3, <3>4, <3>5 DEF StandardFds
  <2>5. /\ held'[n] = new /\ pump'[n] = "read"
        /\ \A m \in Captures : m # n => held'[m] = held[m] /\ pump'[m] = pump[m]
    BY <1>1, <2>3 DEF Types
  <2>6. HeldHigh'
    BY <1>1, <1>3, <2>2, <2>3, <2>5 DEF HeldHigh
  <2>7. ASSUME NEW f \in 3..MaxFd
        PROVE  fds'[f] = Free \/ IsLog(f)' \/ IsRead(f)' \/ IsWrite(f)' \/ IsSaved(f)'
    <3>1. CASE f \in {new.out, new.err, new.term}
      <4>1. fds'[f] = Terminal
        BY <1>1, <1>3, <2>2, <2>3, <3>1 DEF Types
      <4> QED
        BY <2>3, <2>5, <3>1, <4>1 DEF IsSaved
    <3>2. CASE f = new.write /\ f \notin {new.out, new.err, new.term}
      <4>1. fds'[f] = WriteEnd(n)
        BY <1>1, <1>3, <2>2, <2>3, <3>2 DEF Types
      <4> QED
        BY <2>3, <2>5, <3>2, <4>1 DEF IsWrite
    <3>3. CASE f = new.read /\ f # new.write /\ f \notin {new.out, new.err, new.term}
      <4>1. fds'[f] = ReadEnd(n)
        BY <1>1, <1>3, <2>2, <2>3, <3>3 DEF Types
      <4> QED
        BY <2>3, <2>5, <3>3, <4>1 DEF IsRead
    <3>4. CASE f \notin {new.read, new.write, new.out, new.err, new.term}
      <4>1. fds'[f] = fds[f]
        BY <1>1, <1>3, <2>2, <2>3, <3>4 DEF Types
      <4>2. fds[f] = Free \/ IsLog(f) \/ IsRead(f)
        BY <1>1, <2>3 DEF Accounted, IsScratch, IsWrite, IsSaved
      <4>3. IsLog(f) => IsLog(f)'
        BY <2>2, <2>3, <2>5, <4>1 DEF IsLog
      <4>4. IsRead(f) => IsRead(f)'
        BY <2>3, <2>5, <4>1 DEF IsRead
      <4> QED
        BY <4>1, <4>2, <4>3, <4>4
    <3> QED
      BY <3>1, <3>2, <3>3, <3>4
  <2> QED
    BY <2>4, <2>6, <2>7 DEF Accounted
<1>6. CASE SkipCapturing \/ JoinPump \/ JoinTimesOut \/ WriteFooter
  <2>1. /\ UNCHANGED <<n, fds, held, pump>> /\ main # "idle" /\ main' # "idle"
        /\ main # "calling" /\ main' # "calling"
        /\ main = "join" => main' = "saved"
        /\ main # "join" => main \notin {"saved", "file"}
    BY <1>6 DEF SkipCapturing, JoinPump, JoinTimesOut, WriteFooter
  <2>2. StandardFds' /\ HeldHigh'
    BY <1>1, <2>1 DEF StandardFds, HeldHigh
  <2>3. ASSUME NEW f \in 3..MaxFd
        PROVE  fds'[f] = Free \/ IsLog(f)' \/ IsRead(f)' \/ IsSaved(f)'
    <3>1. fds[f] = Free \/ IsLog(f) \/ IsRead(f) \/ IsSaved(f)
      BY <1>1, <1>6, <2>1
      DEF Accounted, IsScratch, IsWrite, SkipCapturing, JoinPump, JoinTimesOut, WriteFooter
    <3> QED
      BY <2>1, <3>1 DEF IsLog, IsRead, IsSaved
  <2> QED
    BY <2>2, <2>3 DEF Accounted
<1>7. CASE LeaveCapturing
  <2>1. /\ main = "calling" /\ main' = "join" /\ UNCHANGED <<n, held, pump>>
        /\ fds' = [Closed(fds, {held[n].term, held[n].write})
                      EXCEPT ![1] = Terminal, ![2] = Terminal]
        /\ n \in Captures
    BY <1>2, <1>7 DEF LeaveCapturing
  <2>2. pump[n] # "off" /\ held[n].term >= 3 /\ held[n].write >= 3
    BY <1>1, <2>1 DEF Stages, HeldHigh
  <2>3. /\ fds'[1] = Terminal /\ fds'[2] = Terminal
        /\ \A f \in Fds : f # 1 /\ f # 2 =>
               fds'[f] = IF f \in {held[n].term, held[n].write} THEN Free ELSE fds[f]
    <3> DEFINE gone == {held[n].term, held[n].write}
               F == Closed(fds, gone)
    <3>1. F = [f \in Fds |-> F[f]]
      BY DEF Closed
    <3>2. \A f \in Fds : F[f] = IF f \in gone THEN Free ELSE fds[f]
      BY ClosedFrees
    <3>3. fds' = [F EXCEPT ![1] = Terminal, ![2] = Terminal]
      BY <2>1
    <3> HIDE DEF F
    <3>4. \A f \in Fds : fds'[f] = IF f = 1 \/ f = 2 THEN Terminal ELSE F[f]
      BY <3>1, <3>3
    <3> QED
      BY <1>3, <3>2, <3>4
  <2>4. StandardFds' /\ HeldHigh'
    BY <1>1, <1>3, <2>1, <2>2, <2>3 DEF StandardFds, HeldHigh
  <2>5. ASSUME NEW f \in 3..MaxFd
        PROVE  fds'[f] = Free \/ IsLog(f)' \/ IsRead(f)' \/ IsSaved(f)'
    <3>1. CASE f \in {held[n].term, held[n].write}
      BY <1>3, <2>3, <3>1
    <3>2. CASE f \notin {held[n].term, held[n].write}
      <4>1. fds'[f] = fds[f]
        BY <1>3, <2>3, <3>2
      <4>2. fds[f] = Free \/ IsLog(f) \/ IsRead(f) \/ IsSaved(f)
        BY <1>1, <2>1, <3>2 DEF Accounted, IsScratch, IsWrite
      <4> QED
        BY <2>1, <3>2, <4>1, <4>2 DEF IsLog, IsRead, IsSaved
    <3> QED
      BY <3>1, <3>2
  <2> QED
    BY <2>4, <2>5 DEF Accounted
<1>8. CASE CloseSaved
  <2>1. /\ main = "saved" /\ main' = "after" /\ UNCHANGED <<n, held, pump>>
        /\ fds' = Closed(fds, {held[n].out, held[n].err})
        /\ n \in Captures
    BY <1>2, <1>8 DEF CloseSaved
  <2>2. pump[n] # "off" /\ held[n].out >= 3 /\ held[n].err >= 3
    BY <1>1, <2>1 DEF Stages, HeldHigh
  <2>3. \A f \in Fds : fds'[f] = IF f \in {held[n].out, held[n].err} THEN Free ELSE fds[f]
    BY <2>1, ClosedFrees
  <2>4. StandardFds' /\ HeldHigh'
    BY <1>1, <1>3, <2>1, <2>2, <2>3 DEF StandardFds, HeldHigh
  <2>5. ASSUME NEW f \in 3..MaxFd
        PROVE  fds'[f] = Free \/ IsLog(f)' \/ IsRead(f)'
    <3>1. CASE f \in {held[n].out, held[n].err}
      BY <1>3, <2>3, <3>1
    <3>2. CASE f \notin {held[n].out, held[n].err}
      <4>1. fds'[f] = fds[f]
        BY <1>3, <2>3, <3>2
      <4>2. fds[f] = Free \/ IsLog(f) \/ IsRead(f)
        BY <1>1, <2>1, <3>2 DEF Accounted, IsScratch, IsWrite, IsSaved
      <4> QED
        BY <2>1, <4>1, <4>2 DEF IsLog, IsRead
    <3> QED
      BY <3>1, <3>2
  <2> QED
    BY <2>4, <2>5 DEF Accounted
<1>9. CASE OpenFile
  <2> DEFINE new == FreeFd(1)
  <2>1. new \in 3..MaxFd /\ new \in Fds
    BY <1>1, <1>9, HandedOut DEF OpenFile
  <2> HIDE DEF new
  <2>2. /\ main = "after" /\ main' = "file" /\ UNCHANGED <<n, held, pump>>
        /\ fds' = [fds EXCEPT ![new] = Scratch]
    BY <1>9 DEF OpenFile, Opened, new
  <2>3. StandardFds' /\ HeldHigh'
    BY <1>1, <1>3, <2>1, <2>2 DEF StandardFds, HeldHigh, Types
  <2>4. ASSUME NEW f \in 3..MaxFd
        PROVE  fds'[f] = Free \/ IsScratch(f)' \/ IsLog(f)' \/ IsRead(f)'
    <3>1. CASE f = new
      BY <1>1, <2>1, <2>2, <3>1 DEF IsScratch, Types
    <3>2. CASE f # new
      <4>1. fds'[f] = fds[f]
        BY <1>1, <1>3, <2>1, <2>2, <3>2 DEF Types
      <4>2. fds[f] = Free \/ IsLog(f) \/ IsRead(f)
        BY <1>1, <2>2 DEF Accounted, IsScratch, IsWrite, IsSaved
      <4> QED
        BY <2>2, <4>1, <4>2 DEF IsLog, IsRead
    <3> QED
      BY <3>1, <3>2
  <2> QED
    BY <2>3, <2>4 DEF Accounted
<1>10. CASE CloseFile
  <2> DEFINE scratch == {f \in Fds : fds[f] = Scratch}
  <2>1. /\ main = "file" /\ main' = "after" /\ UNCHANGED <<n, held, pump>>
        /\ fds' = Closed(fds, scratch)
    BY <1>10 DEF CloseFile
  <2>2. \A f \in Fds : fds'[f] = IF f \in scratch THEN Free ELSE fds[f]
    BY <2>1, ClosedFrees
  <2>3. 0 \notin scratch /\ 1 \notin scratch /\ 2 \notin scratch
    BY <1>1, <2>1 DEF StandardFds, Scratch, Terminal
  <2>4. StandardFds' /\ HeldHigh'
    BY <1>1, <1>3, <2>1, <2>2, <2>3 DEF StandardFds, HeldHigh
  <2>5. ASSUME NEW f \in 3..MaxFd
        PROVE  fds'[f] = Free \/ IsLog(f)' \/ IsRead(f)'
    <3>1. CASE f \in scratch
      BY <1>3, <2>2, <3>1
    <3>2. CASE f \notin scratch
      <4>1. fds'[f] = fds[f] /\ fds[f] # Scratch
        BY <1>3, <2>2, <3>2
      <4>2. fds[f] = Free \/ IsLog(f) \/ IsRead(f)
        BY <1>1, <2>1, <4>1 DEF Accounted, IsScratch, IsWrite, IsSaved
      <4> QED
        BY <2>1, <4>1, <4>2 DEF IsLog, IsRead
    <3> QED
      BY <3>1, <3>2
  <2> QED
    BY <2>4, <2>5 DEF Accounted
<1>11. CASE CloseLog
  <2>1. /\ main = "footed" /\ main' = "idle" /\ UNCHANGED <<n, held, pump>>
        /\ fds' = Closed(fds, {held[n].log})
        /\ n \in Captures
    BY <1>2, <1>11 DEF CloseLog
  <2>2. held[n].log >= 3
    BY <1>1, <1>2, <2>1 DEF HeldHigh
  <2>3. \A f \in Fds : fds'[f] = IF f = held[n].log THEN Free ELSE fds[f]
    BY <2>1, ClosedFrees
  <2>4. StandardFds' /\ HeldHigh'
    BY <1>1, <1>3, <2>1, <2>2, <2>3 DEF StandardFds, HeldHigh
  <2>5. ASSUME NEW f \in 3..MaxFd
        PROVE  fds'[f] = Free \/ IsRead(f)'
    <3>1. CASE f = held[n].log
      BY <1>3, <2>3, <3>1
    <3>2. CASE f # held[n].log
      <4>1. fds'[f] = fds[f]
        BY <1>3, <2>3, <3>2
      <4>2. fds[f] = Free \/ IsRead(f)
        BY <1>1, <2>1, <3>2 DEF Accounted, IsScratch, IsLog, IsWrite, IsSaved
      <4> QED
        BY <2>1, <4>1, <4>2 DEF IsRead
    <3> QED
      BY <3>1, <3>2
  <2> QED
    BY <2>4, <2>5 DEF Accounted
<1>12. ASSUME NEW m \in Captures, ReadChunk(m) \/ EchoChunk(m) \/ EmitLine(m)
       PROVE  StandardFds' /\ HeldHigh' /\ Accounted'
  <2>1. /\ pump[m] \notin {"off", "gone"} /\ UNCHANGED <<main, n, fds, held>>
    BY <1>12, PumpMoves
  <2>2. \A k \in Captures : pump'[k] \in {"off", "gone"} <=> pump[k] \in {"off", "gone"}
    BY <1>1, <1>12, <2>1, PumpMoves DEF Types
  <2>3. \A k \in Captures : pump'[k] = "off" <=> pump[k] = "off"
    BY <1>1, <1>12, <2>1, PumpMoves DEF Types
  <2>4. StandardFds' /\ HeldHigh'
    BY <1>1, <2>1, <2>3 DEF StandardFds, HeldHigh
  <2>5. \A f \in 3..MaxFd : IsRead(f) => IsRead(f)'
    BY <2>1, <2>2 DEF IsRead
  <2>6. \A f \in 3..MaxFd : /\ IsScratch(f) => IsScratch(f)'
                            /\ IsLog(f) => IsLog(f)'
                            /\ IsWrite(f) => IsWrite(f)'
                            /\ IsSaved(f) => IsSaved(f)'
    BY <2>1 DEF IsScratch, IsLog, IsWrite, IsSaved
  <2> QED
    BY <1>1, <2>1, <2>4, <2>5, <2>6 DEF Accounted
<1>13. ASSUME NEW m \in Captures, PumpEnds(m)
       PROVE  StandardFds' /\ HeldHigh' /\ Accounted'
  <2>1. /\ pump[m] = "read" /\ pump' = [pump EXCEPT ![m] = "gone"]
        /\ fds' = Closed(fds, {held[m].read})
        /\ UNCHANGED <<main, n, held>>
    BY <1>13 DEF PumpEnds
  <2>2. held[m].read >= 3
    BY <1>1, <2>1 DEF HeldHigh
  <2>3. \A f \in Fds : fds'[f] = IF f = held[m].read THEN Free ELSE fds[f]
    BY <2>1, ClosedFrees
  <2>4. StandardFds' /\ HeldHigh'
    BY <1>1, <1>3, <2>1, <2>2, <2>3 DEF StandardFds, HeldHigh, Types
  <2>5. ASSUME NEW f \in 3..MaxFd
        PROVE  \/ fds'[f] = Free
               \/ IsScratch(f)' \/ IsLog(f)' \/ IsRead(f)' \/ IsWrite(f)' \/ IsSaved(f)'
    <3>1. CASE f = held[m].read
      BY <1>3, <2>3, <3>1
    <3>2. CASE f # held[m].read
      <4>1. fds'[f] = fds[f]
        BY <1>3, <2>3, <3>2
      <4>2. IsRead(f) => IsRead(f)'
        BY <1>1, <2>1, <3>2, <4>1 DEF IsRead, Types
      <4>3. /\ IsScratch(f) => IsScratch(f)'
            /\ IsLog(f) => IsLog(f)'
            /\ IsWrite(f) => IsWrite(f)'
            /\ IsSaved(f) => IsSaved(f)'
        BY <2>1, <4>1 DEF IsScratch, IsLog, IsWrite, IsSaved
      <4> QED
        BY <1>1, <4>1, <4>2, <4>3 DEF Accounted
    <3> QED
      BY <3>1, <3>2
  <2> QED
    BY <2>4, <2>5 DEF Accounted
<1>14. ASSUME UNCHANGED <<main, n, fds, held, pump>>
       PROVE  StandardFds' /\ HeldHigh' /\ Accounted'
  <2>1. \A f \in 3..MaxFd : /\ IsScratch(f) => IsScratch(f)'
                            /\ IsLog(f) => IsLog(f)'
                            /\ IsRead(f) => IsRead(f)'
                            /\ IsWrite(f) => IsWrite(f)'
                            /\ IsSaved(f) => IsSaved(f)'
    BY <1>14 DEF IsScratch, IsLog, IsRead, IsWrite, IsSaved
  <2> QED
    BY <1>1, <1>14, <2>1 DEF StandardFds, HeldHigh, Accounted
<1>15. Outside \/ UNCHANGED vars => UNCHANGED <<main, n, fds, held, pump>>
  BY DEF Outside, AutomationWrites, KidWrites, Output, Spawn, KidExits, mainVars, vars
<1> QED
  BY <1>4, <1>5, <1>6, <1>7, <1>8, <1>9, <1>10, <1>11, <1>12, <1>13, <1>14, <1>15
  DEF Next, Main, Pump

\* Adding to a log that has been begun leaves its beginning.
LEMMA Continued ==
    ASSUME NEW s \in Seq(Pieces), NEW t \in Seq(Pieces), s # <<>>
    PROVE  s \o t # <<>> /\ (s \o t)[1] = s[1] /\ Len(s) \in Nat /\ Len(s \o t) >= Len(s)
<1>1. /\ Len(s) \in Nat /\ Len(t) \in Nat /\ Len(s) # 0
      /\ s \o t \in Seq(Pieces) /\ Len(s \o t) = Len(s) + Len(t)
  BY ConcatProperties, LenProperties, EmptySeq
<1>2. 1 \in 1..Len(s)
  BY <1>1
<1>3. (s \o t)[1] = s[1]
  BY <1>2, Joined
<1>4. s \o t # <<>>
  BY <1>1, EmptySeq
<1> QED
  BY <1>1, <1>3, <1>4

\* A pump adds output to its own log, and only while that is open.
LEMMA PumpAdds ==
    ASSUME Types, FooterOnce, Stages, NEW m \in Captures, NEW t \in Seq(Pieces),
           Feet(t) = {}, pump[m] \notin {"off", "gone"},
           log' = [log EXCEPT ![m] = Written(m, t)],
           UNCHANGED <<main, n, late>>
    PROVE  FooterOnce'
<1>1. \A k \in Captures : k # m => log'[k] = log[k]
  BY DEF Types
<1>2. CASE ~open[m]
  BY <1>1, <1>2 DEF Written, FooterOnce, Types
<1>3. CASE open[m]
  <2>1. log'[m] = log[m] \o t /\ log[m] \in Seq(Pieces)
    BY <1>3 DEF Written, Types
  <2>2. m = n /\ main # "idle" /\ n \in Nat
    BY <1>3, Current DEF Stages
  <2>3. main = "footed" => late[m]
    BY <2>2 DEF Stages
  <2>4. log[m] # <<>>
    <3>1. CASE main = "footed"
      <4>1. PICK i \in 1..Len(log[m]) : TRUE
        BY <2>2, <3>1 DEF FooterOnce
      <4>2. Len(log[m]) # 0
        BY <4>1
      <4> QED
        BY <2>1, <4>2, EmptySeq
    <3> QED
      BY <2>2, <3>1 DEF FooterOnce
  <2>5. /\ log'[m] # <<>> /\ log'[m][1] = log[m][1]
        /\ Len(log[m]) \in Nat /\ Len(log'[m]) >= Len(log[m]) /\ Len(log'[m]) \in Nat
    BY <2>1, <2>4, Continued, ConcatProperties, LenProperties
  <2>6. Feet(log'[m]) = Feet(log[m])
    BY <2>1, FeetOfJoined
  <2>7. 1..Len(log[m]) \subseteq 1..Len(log'[m])
    BY <2>5
  <2> QED
    BY <1>1, <2>2, <2>3, <2>4, <2>5, <2>6, <2>7 DEF FooterOnce
<1> QED
  BY <1>2, <1>3 DEF Types

\* Every step keeps the shape of the logs.
LEMMA FooterStep == IInv /\ [Next]_vars => FooterOnce'
<1> SUFFICES ASSUME IInv, [Next]_vars
             PROVE  FooterOnce'
  OBVIOUS
<1>1. /\ Types /\ EmitsLine /\ PipesCarryOutput /\ Stages
      /\ StandardFds /\ HeldHigh /\ Accounted /\ FooterOnce
  BY DEF IInv
<1>2. /\ n \in Nat /\ MaxCaptures \in Nat
      /\ main # "idle" => n \in Captures
      /\ \A m \in Captures : m \in Nat
  BY <1>1, Current
<1>3. CASE OpenLog
  <2>1. /\ n + 1 \in Captures /\ n' = n + 1 /\ main = "idle" /\ main' = "logged"
        /\ log' = [log EXCEPT ![n + 1] = <<Header(n + 1)>>]
        /\ UNCHANGED late
    BY <1>1, <1>3, Current DEF OpenLog
  <2>2. log'[n + 1] = <<Header(n + 1)>> /\ \A m \in Captures : m # n + 1 => log'[m] = log[m]
    BY <1>1, <2>1 DEF Types
  <2>3. /\ <<Header(n + 1)>> # <<>> /\ <<Header(n + 1)>>[1] = Header(n + 1)
        /\ Feet(<<Header(n + 1)>>) = {}
    BY DEF Feet, Header, Piece
  <2> DEFINE first == <<Header(n + 1)>>
  <2>4. first # <<>> /\ first[1] = Header(n + 1) /\ Feet(first) = {}
    BY <2>3
  <2>5. log'[n + 1] = first
    BY <2>2
  <2> HIDE DEF first
  <2> SUFFICES ASSUME NEW m \in Captures
               PROVE  /\ log'[m] # <<>> => log'[m][1] = Header(m)
                      /\ m = n + 1 => Feet(log'[m]) = {} /\ log'[m] # <<>>
                      /\ m > n + 1 => Feet(log'[m]) = {}
                      /\ m < n + 1 =>
                             \E i \in 1..Len(log'[m]) :
                                 Feet(log'[m]) = {i} /\ (~late[m] => i = Len(log'[m]))
    BY <1>2, <2>1 DEF FooterOnce
  <2>6. CASE m = n + 1
    BY <1>2, <2>4, <2>5, <2>6
  <2>7. CASE m # n + 1
    <3>1. log'[m] = log[m] /\ (m < n + 1 => m < n \/ m = n) /\ (m > n + 1 => m > n)
      BY <1>2, <2>2, <2>7
    <3> QED
      BY <1>1, <2>1, <2>7, <3>1 DEF FooterOnce
  <2> QED
    BY <2>6, <2>7
<1>4. CASE EnterCapturing \/ SkipCapturing \/ LeaveCapturing \/ JoinPump \/ CloseSaved
           \/ OpenFile \/ CloseLog
  BY <1>1, <1>2, <1>4
  DEF EnterCapturing, SkipCapturing, LeaveCapturing, JoinPump, CloseSaved, OpenFile,
      CloseLog, FooterOnce
<1>5. CASE JoinTimesOut
  BY <1>1, <1>2, <1>5 DEF JoinTimesOut, FooterOnce, Types
<1>6. ASSUME main = "file" \/ main = "after"
      PROVE  n \in Captures /\ open[n] /\ log[n] \in Seq(Pieces) /\ log[n] # <<>>
             /\ Feet(log[n]) = {} /\ log[n][1] = Header(n)
  BY <1>1, <1>2, <1>6 DEF Stages, Types, FooterOnce
<1>7. CASE CloseFile
  <2>1. /\ main = "file" /\ main' = "after" /\ UNCHANGED <<n, late>>
        /\ log' = [log EXCEPT ![n] = Written(n, <<Record(n)>>)]
    BY <1>7 DEF CloseFile
  <2>2. <<Record(n)>> \in Seq(Pieces)
    <3>1. 0 \in 0..MaxWrites
      BY Bounds
    <3> QED
      BY <1>6, <2>1, <3>1, PiecesAreTyped
  <2>3. Feet(<<Record(n)>>) = {}
    BY DEF Feet, Record, Piece
  <2>4. /\ log'[n] = log[n] \o <<Record(n)>>
        /\ \A m \in Captures : m # n => log'[m] = log[m]
    BY <1>1, <1>6, <2>1 DEF Types, Written
  <2> DEFINE t == <<Record(n)>>
  <2>5. log'[n] # <<>> /\ log'[n][1] = Header(n) /\ Feet(log'[n]) = {}
    <3>1. t \in Seq(Pieces) /\ Feet(t) = {} /\ log'[n] = log[n] \o t
      BY <2>2, <2>3, <2>4
    <3> HIDE DEF t
    <3>2. Feet(log[n] \o t) = Feet(log[n])
      BY <1>6, <2>1, <3>1, FeetOfJoined
    <3> QED
      BY <1>6, <2>1, <3>1, <3>2, Continued
  <2> QED
    BY <1>1, <1>2, <2>1, <2>4, <2>5 DEF FooterOnce
<1>8. CASE WriteFooter
  <2>1. /\ main = "after" /\ main' = "footed" /\ UNCHANGED <<n, late>>
        /\ log' = [log EXCEPT ![n] = Written(n, <<Footer(n)>>)]
    BY <1>8 DEF WriteFooter
  <2>2. <<Footer(n)>> \in Seq(Pieces)
    <3>1. 0 \in 0..MaxWrites
      BY Bounds
    <3> QED
      BY <1>6, <2>1, <3>1, PiecesAreTyped
  <2>3. /\ log'[n] = log[n] \o <<Footer(n)>>
        /\ \A m \in Captures : m # n => log'[m] = log[m]
    BY <1>1, <1>6, <2>1 DEF Types, Written
  <2>4. log'[n] # <<>> /\ log'[n][1] = Header(n) /\ Len(log[n]) \in Nat
    BY <1>6, <2>1, <2>2, <2>3, Continued
  <2>5. Feet(log'[n]) = {Len(log[n]) + 1} /\ Len(log'[n]) = Len(log[n]) + 1
    BY <1>6, <2>1, <2>3, FootedOnce
  <2>6. Len(log[n]) + 1 \in 1..Len(log'[n])
    BY <2>4, <2>5
  <2> QED
    BY <1>1, <1>2, <2>1, <2>3, <2>4, <2>5, <2>6 DEF FooterOnce
<1>9. ASSUME NEW m \in Captures, EmitLine(m)
      PROVE  FooterOnce'
  <2>1. PICK end \in 1..Len(text[m]) :
            log' = [log EXCEPT ![m] = Written(m, SubSeq(text[m], 1, end))]
    BY <1>1, <1>9, EmitEffect
  <2> DEFINE line == SubSeq(text[m], 1, end)
  <2>2. text[m] \in Seq(Pieces) /\ Len(text[m]) \in Nat /\ OnlyOutput(text[m])
    BY <1>1, LenProperties DEF Types, PipesCarryOutput
  <2>3. line \in Seq(Pieces) /\ OnlyOutput(line)
    BY <2>2, Part DEF OnlyOutput
  <2>4. Feet(line) = {}
    BY <2>3, OutputHasNoFeet
  <2>5. pump[m] = "emit" /\ UNCHANGED <<main, n, late>>
    BY <1>9 DEF EmitLine
  <2> HIDE DEF line
  <2>6. log' = [log EXCEPT ![m] = Written(m, line)]
    BY <2>1 DEF line
  <2> QED
    BY <1>1, <2>3, <2>4, <2>5, <2>6, PumpAdds
<1>10. ASSUME NEW m \in Captures, PumpEnds(m)
       PROVE  FooterOnce'
  <2>1. text[m] \in Seq(Pieces) /\ Feet(text[m]) = {}
    BY <1>1, OutputHasNoFeet DEF Types, PipesCarryOutput
  <2>2. /\ pump[m] = "read" /\ UNCHANGED <<main, n, late>>
        /\ log' = [log EXCEPT ![m] = Written(m, text[m])]
    BY <1>10 DEF PumpEnds
  <2> QED
    BY <1>1, <2>1, <2>2, PumpAdds
<1>11. ASSUME NEW m \in Captures, ReadChunk(m) \/ EchoChunk(m)
       PROVE  FooterOnce'
  BY <1>1, <1>11 DEF ReadChunk, ReadInto, EchoChunk, FooterOnce, mainVars
<1>12. CASE Outside \/ UNCHANGED vars
  BY <1>1, <1>12
  DEF Outside, AutomationWrites, KidWrites, Output, Spawn, KidExits, mainVars, vars,
      FooterOnce
<1> QED
  BY <1>3, <1>4, <1>5, <1>7, <1>8, <1>9, <1>10, <1>11, <1>12 DEF Next, Main, Pump

\* The invariant holds in every state of every run.
LEMMA Inductive == Spec => []IInv
<1>1. IInv /\ [Next]_vars => IInv'
  BY TypesStep, PipesStep, StagesStep, FdsStep, FooterStep DEF IInv
<1> QED
  BY <1>1, InitIInv, PTL DEF Spec

-----------------------------------------------------------------------------
(***************************************************************************)
(* What it says of the runs.                                               *)
(***************************************************************************)
\* A sequence of pieces is a text.
LEMMA PiecesAreText ==
    ASSUME NEW s \in Seq(Pieces)
    PROVE  IsText(s)
<1>1. \A i \in 1..Len(s) : s[i] \in Pieces
  BY ElementOfSeq
<1> QED
  BY <1>1 DEF IsText, IsPiece, Pieces

\* Every variable keeps its type: the stages of main thread and pumps, the
\* table of descriptors, the pieces of text in pipes, buffers and logs.
THEOREM TypeCorrect == Spec => []TypeOK
<1>1. ASSUME Types
      PROVE  TypeOK
  <2>1. /\ main \in {"idle", "logged", "calling", "join", "saved", "after", "file", "footed"}
        /\ n \in 0..MaxCaptures
    BY <1>1 DEF Types, MainStages
  <2>2. \A f \in Fds : fds[f] \in {Free, Terminal, Scratch} \cup
            UNION {{LogOf(m), ReadEnd(m), WriteEnd(m)} : m \in Captures}
    <3>1. \A m \in Captures : {LogOf(m), ReadEnd(m), WriteEnd(m)} \in
              {{LogOf(k), ReadEnd(k), WriteEnd(k)} : k \in Captures}
      OBVIOUS
    <3>2. \A object \in Objects :
              \/ object \in {Free, Terminal, Scratch}
              \/ \E m \in Captures : object \in {LogOf(m), ReadEnd(m), WriteEnd(m)}
      BY DEF Objects
    <3> QED
      BY <1>1, <3>1, <3>2 DEF Types
  <2>3. ASSUME NEW m \in Captures
        PROVE  /\ IsText(pipe[m]) /\ IsText(text[m]) /\ IsText(fresh[m]) /\ IsText(log[m])
               /\ \A name \in DOMAIN NoFds : held[m][name] \in Fds
    <3>1. /\ pipe[m] \in Seq(Pieces) /\ text[m] \in Seq(Pieces)
          /\ fresh[m] \in Seq(Pieces) /\ log[m] \in Seq(Pieces)
      BY <1>1 DEF Types
    <3>2. held[m] \in Held
      BY <1>1 DEF Types
    <3> QED
      BY <3>1, <3>2, PiecesAreText DEF Held, NoFds
  <2>4. ASSUME NEW m \in Captures
        PROVE  /\ kids[m] \in 0..MaxKids /\ sent[m] \in 0..MaxWrites
               /\ pump[m] \in {"off", "read", "echo", "emit", "gone"}
               /\ {echoing[m], open[m], late[m]} \subseteq BOOLEAN
    BY <1>1 DEF Types
  <2> QED
    BY <2>1, <2>2, <2>3, <2>4 DEF TypeOK
<1>2. IInv => TypeOK
  BY <1>1 DEF IInv
<1> QED
  BY <1>2, Inductive, PTL

\* A closed log has its header first and exactly one footer, which is last
\* unless the pump was given up on, whatever the pumps of this capture and of
\* earlier ones still do.
THEOREM LogsShaped == Spec => []LogShape
<1>1. ASSUME IInv, NEW m \in Captures
      PROVE  /\ log[m] # <<>> => log[m][1] = Header(m)
             /\ m <= n /\ ~open[m] => Cardinality(Feet(log[m])) = 1
             /\ ~late[m] => Feet(log[m]) \subseteq {Len(log[m])}
  <2>1. /\ n \in Nat /\ m \in Nat /\ (main # "idle" => n \in Captures)
    BY <1>1, Current DEF IInv
  <2>2. FooterOnce /\ (open[m] <=> m = n /\ main # "idle")
    BY <1>1 DEF IInv, Stages
  <2>3. CASE m < n \/ (m = n /\ main \in {"idle", "footed"})
    <3>1. PICK i \in 1..Len(log[m]) : Feet(log[m]) = {i} /\ (~late[m] => i = Len(log[m]))
      BY <2>2, <2>3 DEF FooterOnce
    <3>2. Cardinality({i}) = 1
      BY FS_Singleton
    <3> QED
      BY <2>2, <3>1, <3>2 DEF FooterOnce
  <2>4. CASE ~(m < n \/ (m = n /\ main \in {"idle", "footed"}))
    <3>1. Feet(log[m]) = {} /\ ~(m <= n /\ ~open[m])
      BY <2>1, <2>2, <2>4 DEF FooterOnce
    <3> QED
      BY <2>2, <3>1 DEF FooterOnce
  <2> QED
    BY <2>3, <2>4
<1>2. IInv => LogShape
  BY <1>1 DEF LogShape, Feet
<1> QED
  BY <1>2, Inductive, PTL

\* The redirection gives back what it took: outside the automation's call
\* descriptors 1 and 2 are the terminal, and between captures, once no pump is
\* left, the table is what the process started with.
THEOREM NothingLeaked == Spec => []DescriptorsReturned
<1>1. ASSUME IInv
      PROVE  DescriptorsReturned
  <2>1. Types /\ StandardFds /\ Accounted
    BY <1>1 DEF IInv
  <2>2. ASSUME main = "idle", \A m \in Captures : pump[m] \in {"off", "gone"}
        PROVE  fds = StartFds
    <3>1. ASSUME NEW f \in Fds
          PROVE  fds[f] = IF f \in {0, 1, 2} THEN Terminal ELSE Free
      <4>1. CASE f \in {0, 1, 2}
        BY <2>1, <2>2, <4>1 DEF StandardFds
      <4>2. CASE f \notin {0, 1, 2}
        <5>1. f \in 3..MaxFd
          BY <4>2, Bounds DEF Fds
        <5> QED
          BY <2>1, <2>2, <4>2, <5>1
          DEF Accounted, IsScratch, IsLog, IsRead, IsWrite, IsSaved
      <4> QED
        BY <4>1, <4>2
    <3>2. fds = [f \in Fds |-> fds[f]]
      BY <2>1 DEF Types
    <3> QED
      BY <3>1, <3>2 DEF StartFds
  <2> QED
    BY <2>1, <2>2 DEF DescriptorsReturned, StandardFds
<1>2. IInv => DescriptorsReturned
  BY <1>1
<1> QED
  BY <1>2, Inductive, PTL

-----------------------------------------------------------------------------
(***************************************************************************)
(* What a log holds of the output. The descriptor a --verbose pump echoes  *)
(* to may become the pipe of a later capture, which then gets pieces that  *)
(* are not its own: so the theorem is about processes that make no capture *)
(* after a --verbose one.                                                  *)
(***************************************************************************)
Outs(s) == {i \in 1..Len(s) : s[i].kind = "out"}

\* Where the output of two joined texts is.
LEMMA OutsOfJoined ==
    ASSUME NEW s \in Seq(Pieces), NEW t \in Seq(Pieces)
    PROVE  /\ Len(s) \in Nat /\ Len(t) \in Nat
           /\ \A i \in Outs(s) : i \in Outs(s \o t) /\ (s \o t)[i] = s[i] /\ i <= Len(s)
           /\ \A i \in Outs(t) : Len(s) + i \in Outs(s \o t) /\ (s \o t)[Len(s) + i] = t[i]
           /\ \A j \in Outs(s \o t) :
                  j \in Outs(s) \/ \E i \in Outs(t) : j = Len(s) + i
<1> DEFINE a == Len(s)
           b == Len(t)
           u == s \o t
<1>1. /\ a \in Nat /\ b \in Nat /\ Len(u) = a + b
      /\ \A i \in 1..a : u[i] = s[i]
      /\ \A i \in 1..b : u[a + i] = t[i]
      /\ \A j \in 1..Len(u) : j \in 1..a \/ \E i \in 1..b : j = a + i
  BY Joined
<1>2. Outs(s) = {i \in 1..a : s[i].kind = "out"} /\ Outs(t) = {i \in 1..b : t[i].kind = "out"}
      /\ Outs(u) = {i \in 1..Len(u) : u[i].kind = "out"}
  BY DEF Outs
<1> HIDE DEF a, b, u
<1>3. ASSUME NEW i \in Outs(s)
      PROVE  i \in Outs(u) /\ u[i] = s[i] /\ i <= a
  BY <1>1, <1>2
<1>4. ASSUME NEW i \in Outs(t)
      PROVE  a + i \in Outs(u) /\ u[a + i] = t[i]
  BY <1>1, <1>2
<1>5. ASSUME NEW j \in Outs(u)
      PROVE  j \in Outs(s) \/ \E i \in Outs(t) : j = a + i
  <2>1. j \in 1..Len(u) /\ u[j].kind = "out"
    BY <1>2
  <2>2. CASE j \in 1..a
    BY <1>1, <1>2, <2>1, <2>2
  <2>3. CASE \E i \in 1..b : j = a + i
    <3>1. PICK i \in 1..b : j = a + i
      BY <2>3
    <3>2. t[i].kind = "out"
      BY <1>1, <2>1, <3>1
    <3> QED
      BY <1>2, <3>1, <3>2
  <2> QED
    BY <1>1, <2>1, <2>2, <2>3
<1> QED
  BY <1>1, <1>3, <1>4, <1>5 DEF a, b, u

\* A text that goes on with the pieces after k makes a gapless text longer.
LEMMA GaplessOn ==
    ASSUME NEW s \in Seq(Pieces), NEW t \in Seq(Pieces), NEW m, NEW k \in Nat,
           Gapless(s, m, k), OnlyOutput(t), Continues(t, m, k)
    PROVE  Gapless(s \o t, m, k + Len(t))
<1> DEFINE a == Len(s)
           b == Len(t)
           u == s \o t
<1>1. /\ a \in Nat /\ b \in Nat
      /\ \A i \in Outs(s) : i \in Outs(u) /\ u[i] = s[i] /\ i <= a
      /\ \A i \in Outs(t) : a + i \in Outs(u) /\ u[a + i] = t[i]
      /\ \A j \in Outs(u) : j \in Outs(s) \/ \E i \in Outs(t) : j = a + i
  BY OutsOfJoined
<1>2. /\ \A i \in Outs(s) : s[i].of = m /\ s[i].place \in 1..k
      /\ \A i, j \in Outs(s) : i < j => s[i].place < s[j].place
      /\ \A p \in 1..k : \E i \in Outs(s) : s[i].place = p
  BY DEF Gapless, Outs
<1>3. /\ Outs(t) = 1..b
      /\ \A i \in 1..b : t[i].of = m /\ t[i].place = k + i
  BY DEF OnlyOutput, Continues, Outs
<1>4. \A i \in Outs(s) : i \in Nat
  BY DEF Outs
<1> HIDE DEF a, b, u
<1>5. ASSUME NEW j \in Outs(u)
      PROVE  u[j].of = m /\ u[j].place \in 1..(k + b)
  <2>1. CASE j \in Outs(s)
    BY <1>1, <1>2, <2>1
  <2>2. CASE \E i \in Outs(t) : j = a + i
    <3>1. PICK i \in 1..b : j = a + i
      BY <1>3, <2>2
    <3>2. u[j].of = m /\ u[j].place = k + i
      BY <1>1, <1>3, <3>1
    <3> QED
      BY <1>1, <3>1, <3>2
  <2> QED
    BY <1>1, <2>1, <2>2
<1>6. ASSUME NEW i \in Outs(u), NEW j \in Outs(u), i < j
      PROVE  u[i].place < u[j].place
  <2>1. CASE i \in Outs(s) /\ j \in Outs(s)
    BY <1>1, <1>2, <1>6, <2>1
  <2>2. CASE i \in Outs(s) /\ \E h \in Outs(t) : j = a + h
    <3>1. PICK h \in 1..b : j = a + h
      BY <1>3, <2>2
    <3>2. u[i].place \in 1..k /\ u[j].place = k + h
      BY <1>1, <1>2, <1>3, <2>2, <3>1
    <3> QED
      BY <3>1, <3>2
  <2>3. CASE (\E g \in Outs(t) : i = a + g) /\ j \in Outs(s)
    BY <1>1, <1>3, <1>4, <1>6, <2>3
  <2>4. CASE (\E g \in Outs(t) : i = a + g) /\ \E h \in Outs(t) : j = a + h
    <3>1. PICK g \in 1..b, h \in 1..b : i = a + g /\ j = a + h
      BY <1>3, <2>4
    <3>2. u[i].place = k + g /\ u[j].place = k + h
      BY <1>1, <1>3, <3>1
    <3> QED
      BY <1>1, <1>6, <3>1, <3>2
  <2> QED
    BY <1>1, <2>1, <2>2, <2>3, <2>4
<1>7. ASSUME NEW p \in 1..(k + b)
      PROVE  \E i \in Outs(u) : u[i].place = p
  <2>1. CASE p \in 1..k
    BY <1>1, <1>2, <2>1
  <2>2. CASE p \notin 1..k
    <3>1. p - k \in 1..b /\ k + (p - k) = p
      BY <1>1, <2>2
    <3> QED
      BY <1>1, <1>3, <3>1
  <2> QED
    BY <2>1, <2>2
<1> QED
  BY <1>5, <1>6, <1>7 DEF Gapless, Outs, u, b

\* A text without output, such as our own record, leaves it as it is.
LEMMA GaplessStays ==
    ASSUME NEW s \in Seq(Pieces), NEW t \in Seq(Pieces), NEW m, NEW k \in Nat,
           Gapless(s, m, k), Outs(t) = {}
    PROVE  Gapless(s \o t, m, k)
<1> DEFINE u == s \o t
<1>1. /\ \A i \in Outs(s) : i \in Outs(u) /\ u[i] = s[i]
      /\ \A j \in Outs(u) : j \in Outs(s)
  BY OutsOfJoined
<1>2. /\ \A i \in Outs(s) : s[i].of = m /\ s[i].place \in 1..k
      /\ \A i, j \in Outs(s) : i < j => s[i].place < s[j].place
      /\ \A p \in 1..k : \E i \in Outs(s) : s[i].place = p
  BY DEF Gapless, Outs
<1> HIDE DEF u
<1>3. /\ \A i \in Outs(u) : u[i].of = m /\ u[i].place \in 1..k
      /\ \A i, j \in Outs(u) : i < j => u[i].place < u[j].place
      /\ \A p \in 1..k : \E i \in Outs(u) : u[i].place = p
  BY <1>1, <1>2
<1> QED
  BY <1>3 DEF Gapless, Outs, u

\* A text without output holds all of nothing.
LEMMA GaplessNone ==
    ASSUME NEW s, Outs(s) = {}, NEW m
    PROVE  Gapless(s, m, 0)
<1>1. 1..0 = {}
  OBVIOUS
<1> QED
  BY <1>1 DEF Gapless, Outs

\* The first line of a text, and what is left of it.
LEMMA ContinuesParts ==
    ASSUME NEW s \in Seq(Pieces), NEW end \in 1..Len(s), NEW m, NEW k \in Nat,
           Continues(s, m, k), OnlyOutput(s)
    PROVE  LET line == SubSeq(s, 1, end)
               rest == SubSeq(s, end + 1, Len(s))
           IN /\ line \in Seq(Pieces) /\ rest \in Seq(Pieces)
              /\ Len(line) = end /\ Len(rest) = Len(s) - end
              /\ Continues(line, m, k) /\ OnlyOutput(line)
              /\ Continues(rest, m, k + end)
<1> DEFINE line == SubSeq(s, 1, end)
           rest == SubSeq(s, end + 1, Len(s))
           a == Len(s)
<1>1. a \in Nat
  BY LenProperties
<1>2. \A i \in 1..a : s[i].of = m /\ s[i].place = k + i /\ s[i].kind = "out"
  BY DEF Continues, OnlyOutput
<1>3. 1 \in 1..(a + 1) /\ end \in 0..a /\ 1 <= end + 1
      /\ end + 1 \in 1..(a + 1) /\ a \in 0..a /\ end + 1 <= a + 1
  BY <1>1
<1>4. /\ line \in Seq(Pieces) /\ Len(line) = end - 1 + 1
      /\ \A i \in 1..Len(line) : line[i] = s[1 + i - 1] /\ 1 + i - 1 \in 1..a
  BY <1>3, Part
<1>5. /\ rest \in Seq(Pieces) /\ Len(rest) = a - (end + 1) + 1
      /\ \A i \in 1..Len(rest) : rest[i] = s[end + 1 + i - 1] /\ end + 1 + i - 1 \in 1..a
  BY <1>3, Part
<1> HIDE DEF line, rest, a
<1>6. end \in Nat /\ Len(line) = end /\ Len(rest) = a - end
  BY <1>1, <1>3, <1>4, <1>5
<1>7. Continues(line, m, k) /\ OnlyOutput(line)
  BY <1>2, <1>4, <1>6 DEF Continues, OnlyOutput
<1>8. ASSUME NEW i \in 1..Len(rest)
      PROVE  rest[i].of = m /\ rest[i].place = k + end + i
  <2>1. end + 1 + i - 1 = end + i /\ k + (end + i) = k + end + i
    BY <1>6
  <2>2. rest[i] = s[end + i] /\ end + i \in 1..a
    BY <1>5, <2>1
  <2> QED
    BY <1>2, <2>1, <2>2
<1>9. Continues(rest, m, k + end)
  BY <1>8 DEF Continues
<1> QED
  BY <1>4, <1>5, <1>6, <1>7, <1>9 DEF line, rest, a

\* What the pump read before, and what it reads now.
LEMMA ContinuesJoined ==
    ASSUME NEW s \in Seq(Pieces), NEW t \in Seq(Pieces), NEW m, NEW k \in Nat,
           Continues(s, m, k), Continues(t, m, k + Len(s))
    PROVE  Continues(s \o t, m, k)
<1> DEFINE a == Len(s)
           b == Len(t)
           u == s \o t
<1>1. /\ a \in Nat /\ b \in Nat
      /\ \A i \in 1..a : u[i] = s[i]
      /\ \A i \in 1..b : u[a + i] = t[i]
      /\ \A j \in 1..Len(u) : j \in 1..a \/ \E i \in 1..b : j = a + i
  BY Joined
<1>2. /\ \A i \in 1..a : s[i].of = m /\ s[i].place = k + i
      /\ \A i \in 1..b : t[i].of = m /\ t[i].place = k + a + i
  BY DEF Continues
<1> HIDE DEF a, b, u
<1>3. ASSUME NEW j \in 1..Len(u)
      PROVE  u[j].of = m /\ u[j].place = k + j
  <2>1. CASE j \in 1..a
    BY <1>1, <1>2, <2>1
  <2>2. CASE \E i \in 1..b : j = a + i
    <3>1. PICK i \in 1..b : j = a + i
      BY <2>2
    <3>2. u[j].of = m /\ u[j].place = k + a + i
      BY <1>1, <1>2, <3>1
    <3> QED
      BY <1>1, <3>1, <3>2
  <2> QED
    BY <1>1, <2>1, <2>2
<1> QED
  BY <1>3 DEF Continues, u

\* A step that leaves what belongs to capture m alone keeps its stream.
LEMMA StreamStays ==
    ASSUME NEW m \in Captures, Stream(m),
           UNCHANGED <<sent[m], pipe[m], text[m], log[m]>>,
           pump'[m] = "gone" => pump[m] = "gone",
           UpToDate(m)' => UpToDate(m)
    PROVE  Stream(m)'
<1>1. Passed(m)' = Passed(m)
  BY DEF Passed
<1>2. /\ Continues(text[m], m, Passed(m))'
      /\ Continues(pipe[m], m, Passed(m) + Len(text[m]))'
  BY <1>1 DEF Stream, Continues
<1>3. PICK k \in 0..Passed(m) : Gapless(log[m], m, k) /\ (UpToDate(m) => k = Passed(m))
  BY DEF Stream
<1>4. Gapless(log[m], m, k)'
  BY <1>3 DEF Gapless
<1>5. k \in 0..Passed(m)' /\ (UpToDate(m)' => k = Passed(m)')
  BY <1>1, <1>3
<1> QED
  BY <1>1, <1>2, <1>4, <1>5 DEF Stream

\* The process only ever has one pipe to write to, so the current capture's echo
\* reaches none: its number is not the one kept for the write end.
LEMMA NoLaterPipe ==
    ASSUME NoEchoBehind, IInv, EchoesWhenAsked,
           NEW m \in Captures, pump[m] = "echo", NEW k \in Captures
    PROVE  fds[held[m].out] # WriteEnd(k)
<1>1. Types /\ PipesCarryOutput /\ Stages /\ HeldHigh /\ Accounted
  BY DEF IInv
<1>2. m = n
  <2>1. m \in Echo /\ ~(m > n)
    BY <1>1 DEF EchoesWhenAsked, PipesCarryOutput
  <2>2. m < n => late[m]
    BY <1>1 DEF Stages
  <2>3. m \in Nat /\ n \in Nat
    BY <1>1, Bounds, Current
  <2> QED
    BY <2>1, <2>2, <2>3 DEF NoEchoBehind
<1>3. held[m].out >= 3 /\ held[m].out # held[m].write
  BY <1>1 DEF HeldHigh
<1>4. held[m].out \in 3..MaxFd
  <2>1. held[m].out \in Fds
    BY <1>1 DEF Types, Held
  <2> QED
    BY <1>3, <2>1, Bounds DEF Fds
<1> SUFFICES ASSUME fds[held[m].out] = WriteEnd(k)
             PROVE  FALSE
  OBVIOUS
<1>5. IsWrite(held[m].out)
  BY <1>1, <1>4
  DEF Accounted, IsScratch, IsLog, IsRead, IsSaved, Free, Scratch, LogOf, ReadEnd,
      WriteEnd, Terminal
<1> QED
  BY <1>2, <1>3, <1>5 DEF IsWrite

\* Until there is such a capture every step keeps the streams.
LEMMA StreamsStep ==
    ASSUME NoEchoBehind, IInv, Streams, EchoesWhenAsked, [Next]_vars
    PROVE  Streams'
<1>1. /\ Types /\ EmitsLine /\ PipesCarryOutput /\ Stages /\ FooterOnce
  BY DEF IInv
<1>2. /\ n \in Nat /\ MaxCaptures \in Nat
      /\ main # "idle" => n \in Captures
      /\ \A m \in Captures : m \in Nat
  BY <1>1, Current
<1>3. \A m \in Captures :
          /\ Stream(m)
          /\ text[m] \in Seq(Pieces) /\ Len(text[m]) \in Nat
          /\ pipe[m] \in Seq(Pieces) /\ Len(pipe[m]) \in Nat
          /\ log[m] \in Seq(Pieces) /\ sent[m] \in Nat
  BY <1>1, LenProperties, Bounds DEF Streams, Types
<1>4. Len(<<>>) = 0 /\ \A m, k : Continues(<<>>, m, k)
  BY DEF Continues
<1>5. CASE OpenLog
  <2>1. /\ n + 1 \in Captures /\ n' = n + 1 /\ n + 1 > n
        /\ open' = [open EXCEPT ![n + 1] = TRUE]
        /\ log' = [log EXCEPT ![n + 1] = <<Header(n + 1)>>]
        /\ UNCHANGED <<sent, pipe, pump, text, late>>
    BY <1>1, <1>2, <1>5, Current DEF OpenLog
  <2>2. ASSUME NEW m \in Captures, m # n + 1
        PROVE  Stream(m)'
    <3>1. log'[m] = log[m] /\ open'[m] = open[m] /\ (m > n' => m > n)
      BY <1>1, <1>2, <2>1, <2>2 DEF Types
    <3> QED
      BY <1>3, <2>1, <3>1, StreamStays DEF UpToDate
  <2>3. ASSUME NEW m \in Captures, m = n + 1
        PROVE  Stream(m)'
    <3> DEFINE first == <<Header(m)>>
    <3>1. /\ pump[m] = "off" /\ sent[m] = 0
          /\ pipe[m] = <<>> /\ text[m] = <<>>
      BY <1>1, <2>1, <2>3 DEF PipesCarryOutput
    <3>2. Passed(m)' = 0 - 0 - 0
      BY <1>4, <2>1, <3>1 DEF Passed
    <3>3. log'[m] = first
      BY <1>1, <2>1, <2>3 DEF Types
    <3>4. Outs(first) = {}
      BY DEF Outs, Header, Piece
    <3> HIDE DEF first
    <3>5. Gapless(log'[m], m, 0)
      BY <3>3, <3>4, GaplessNone
    <3>6. Passed(m)' = 0 /\ 0 \in 0..0
      BY <3>2
    <3>7. (\E k \in 0..Passed(m) : Gapless(log[m], m, k) /\ (UpToDate(m) => k = Passed(m)))'
      BY <3>5, <3>6 DEF Gapless
    <3>8. Continues(text[m], m, Passed(m))' /\ Continues(pipe[m], m, Passed(m) + Len(text[m]))'
      BY <1>4, <2>1, <3>1 DEF Continues
    <3> QED
      BY <2>1, <3>1, <3>6, <3>7, <3>8 DEF Stream
  <2> QED
    BY <2>2, <2>3 DEF Streams
<1>6. CASE EnterCapturing
  <2>1. /\ main = "logged" /\ UNCHANGED <<n, sent, pipe, text, log, open, late>>
        /\ pump' = [pump EXCEPT ![n] = "read"]
    BY <1>6 DEF EnterCapturing
  <2>2. open[n] /\ \A m \in Captures : m # n => pump'[m] = pump[m]
    BY <1>1, <1>2, <2>1 DEF Stages, Types
  <2>3. \A m \in Captures : pump'[m] = "gone" => pump[m] = "gone"
    BY <1>1, <1>2, <2>1 DEF Types
  <2>4. \A m \in Captures : UpToDate(m)' => UpToDate(m)
    BY <2>1, <2>2, <2>3 DEF UpToDate
  <2> QED
    BY <1>3, <2>1, <2>3, <2>4, StreamStays DEF Streams
<1>7. CASE SkipCapturing \/ LeaveCapturing \/ JoinPump \/ CloseSaved \/ OpenFile
           \/ Spawn \/ (\E m \in Captures : KidExits(m)) \/ UNCHANGED vars
  <2>1. UNCHANGED <<n, sent, pipe, text, log, open, late, pump>>
    BY <1>7
    DEF SkipCapturing, LeaveCapturing, JoinPump, CloseSaved, OpenFile, Spawn, KidExits,
        mainVars, vars
  <2> QED
    BY <1>3, <2>1, StreamStays DEF Streams, UpToDate
<1>8. CASE JoinTimesOut \/ CloseLog
  <2>1. /\ UNCHANGED <<n, sent, pipe, text, log, pump>>
        /\ \A m \in Captures : (late[m] => late'[m]) /\ (open'[m] => open[m])
    BY <1>1, <1>2, <1>8 DEF JoinTimesOut, CloseLog, Types
  <2> QED
    BY <1>3, <2>1, StreamStays DEF Streams, UpToDate
<1>9. CASE CloseFile \/ WriteFooter
  <2>1. PICK t \in {<<Record(n)>>, <<Footer(n)>>} :
            /\ log' = [log EXCEPT ![n] = Written(n, t)]
            /\ UNCHANGED <<n, sent, pipe, text, open, late, pump>>
    BY <1>9 DEF CloseFile, WriteFooter
  <2>2. n \in Captures /\ open[n]
    BY <1>1, <1>2, <1>9 DEF CloseFile, WriteFooter, Stages
  <2>3. t \in Seq(Pieces) /\ Outs(t) = {}
    <3>1. 0 \in 0..MaxWrites
      BY Bounds
    <3>2. <<Record(n)>> \in Seq(Pieces) /\ <<Footer(n)>> \in Seq(Pieces)
      BY <2>2, <3>1, PiecesAreTyped
    <3>3. Outs(<<Record(n)>>) = {} /\ Outs(<<Footer(n)>>) = {}
      BY DEF Outs, Record, Footer, Piece
    <3> QED
      BY <3>2, <3>3
  <2>4. log'[n] = log[n] \o t /\ \A m \in Captures : m # n => log'[m] = log[m]
    BY <1>1, <2>1, <2>2 DEF Types, Written
  <2>5. ASSUME NEW m \in Captures, m # n
        PROVE  Stream(m)'
    BY <1>3, <2>1, <2>4, <2>5, StreamStays DEF UpToDate
  <2>6. ASSUME NEW m \in Captures, m = n
        PROVE  Stream(m)'
    <3>1. PICK k \in 0..Passed(m) : Gapless(log[m], m, k) /\ (UpToDate(m) => k = Passed(m))
      BY <1>3 DEF Stream
    <3>2. k \in Nat
      BY <1>3 DEF Stream
    <3>3. Gapless(log'[m], m, k)
      BY <1>3, <2>3, <2>4, <2>6, <3>1, <3>2, GaplessStays
    <3>4. Gapless(log[m], m, k)'
      BY <3>3 DEF Gapless
    <3>5. Passed(m)' = Passed(m) /\ (UpToDate(m)' <=> UpToDate(m))
      BY <2>1 DEF Passed, UpToDate
    <3>6. /\ Continues(text[m], m, Passed(m))' /\ Continues(pipe[m], m, Passed(m) + Len(text[m]))'
          /\ (pump[m] = "gone" => pipe[m] = <<>> /\ text[m] = <<>>)'
      BY <1>3, <2>1, <3>5 DEF Stream, Continues
    <3>7. k \in 0..Passed(m)' /\ (UpToDate(m)' => k = Passed(m)')
      BY <3>1, <3>5
    <3> QED
      BY <1>3, <3>4, <3>5, <3>6, <3>7 DEF Stream
  <2> QED
    BY <2>5, <2>6 DEF Streams
<1>10. ASSUME NEW m \in Captures, ReadChunk(m)
       PROVE  Streams'
  <2> DEFINE s == text[m] \o pipe[m]
             a == Len(text[m])
             b == Len(pipe[m])
  <2>1. /\ pump[m] = "read" /\ text' = [text EXCEPT ![m] = s]
        /\ pipe' = [pipe EXCEPT ![m] = <<>>]
        /\ UNCHANGED <<n, log, open, late, sent>>
        /\ \A k \in Captures : pump'[k] = "gone" => pump[k] = "gone"
    <3>1. \A k \in Captures : pump'[k] = "gone" => pump[k] = "gone"
      BY <1>1, <1>10, PumpMoves DEF Types
    <3> QED
      BY <1>1, <1>10, <3>1, ReadEffect
  <2>2. ASSUME NEW k \in Captures, k # m
        PROVE  Stream(k)'
    <3>1. text'[k] = text[k] /\ pipe'[k] = pipe[k]
      BY <1>1, <2>1, <2>2 DEF Types
    <3> QED
      BY <1>3, <2>1, <3>1, StreamStays DEF UpToDate
  <2>3. Stream(m)'
    <3>1. text'[m] = s /\ pipe'[m] = <<>>
      BY <1>1, <2>1 DEF Types
    <3>2. Len(s) = a + b /\ a \in Nat /\ b \in Nat
      BY <1>3, ConcatProperties
    <3>3. Passed(m)' = Passed(m)
      <4>1. Passed(m)' = sent[m] - 0 - (a + b)
        BY <1>4, <2>1, <3>1, <3>2 DEF Passed
      <4>2. Passed(m) = sent[m] - b - a
        BY DEF Passed
      <4>3. sent[m] \in Nat
        BY <1>3
      <4> HIDE DEF a, b, s
      <4> QED
        BY <3>2, <4>1, <4>2, <4>3
    <3>4. Continues(s, m, Passed(m))
      BY <1>3, ContinuesJoined DEF Stream
    <3> HIDE DEF s
    <3>5. Continues(text[m], m, Passed(m))'
      BY <3>1, <3>3, <3>4 DEF Continues
    <3>6. Continues(pipe[m], m, Passed(m) + Len(text[m]))'
      BY <1>4, <3>1 DEF Continues
    <3>7. pump'[m] # "gone"
      BY <2>1
    <3>8. UpToDate(m)' => UpToDate(m)
      BY <2>1 DEF UpToDate
    <3>9. Passed(m) \in Nat
          /\ \E k \in 0..Passed(m) : Gapless(log[m], m, k) /\ (UpToDate(m) => k = Passed(m))
      BY <1>3 DEF Stream
    <3>10. \A k : Gapless(log[m], m, k) => Gapless(log[m], m, k)'
      BY <2>1 DEF Gapless
    <3>11. (\E k \in 0..Passed(m) : Gapless(log[m], m, k) /\ (UpToDate(m) => k = Passed(m)))'
      BY <3>3, <3>8, <3>9, <3>10
    <3> QED
      BY <3>3, <3>5, <3>6, <3>7, <3>9, <3>11 DEF Stream
  <2> QED
    BY <2>2, <2>3 DEF Streams
<1>11. ASSUME NEW m \in Captures, EchoChunk(m)
       PROVE  Streams'
  <2>1. pump[m] = "echo"
    BY <1>11 DEF EchoChunk
  <2>2. \A k \in Captures : fds[held[m].out] # WriteEnd(k)
    BY <2>1, NoLaterPipe
  <2>3. pipe' = pipe
    <3>1. pipe' = [k \in Captures |-> pipe[k]]
      BY <1>11, <2>2 DEF EchoChunk
    <3> QED
      BY <1>1, <3>1 DEF Types
  <2>4. /\ UNCHANGED <<n, log, open, late, sent, text>>
        /\ \A k \in Captures : pump'[k] = "gone" => pump[k] = "gone"
    BY <1>1, <1>11, PumpMoves DEF Types, EchoChunk, mainVars
  <2> QED
    BY <1>3, <2>3, <2>4, StreamStays DEF Streams, UpToDate
<1>12. ASSUME NEW m \in Captures, NEW line \in Seq(Pieces), NEW rest \in Seq(Pieces),
              Len(text[m]) = Len(line) + Len(rest),
              OnlyOutput(line), Continues(line, m, Passed(m)),
              Continues(rest, m, Passed(m) + Len(line)),
              log' = [log EXCEPT ![m] = Written(m, line)],
              text' = [text EXCEPT ![m] = rest],
              UNCHANGED <<n, sent, pipe, open, late>>,
              pump[m] \notin {"off", "gone"},
              \A k \in Captures : k # m => pump'[k] = pump[k],
              pump'[m] = "gone" => pipe[m] = <<>> /\ rest = <<>>,
              UpToDate(m)' => UpToDate(m) \/ (pump'[m] = "gone" /\ ~late[m]),
              pump'[m] = "gone" /\ ~late[m] => open[m]
       PROVE  Streams'
  <2>1. ASSUME NEW k \in Captures, k # m
        PROVE  Stream(k)'
    <3>1. text'[k] = text[k] /\ log'[k] = log[k]
      BY <1>1, <1>12, <2>1 DEF Types
    <3> QED
      BY <1>3, <1>12, <2>1, <3>1, StreamStays DEF UpToDate
  <2>2. Stream(m)'
    <3>1. /\ Len(line) \in Nat /\ Len(rest) \in Nat /\ text'[m] = rest
          /\ log'[m] = Written(m, line)
      BY <1>1, <1>12, LenProperties DEF Types
    <3>2. Passed(m) \in Nat /\ Passed(m)' = Passed(m) + Len(line)
      <4>1. Passed(m)' = sent[m] - Len(pipe[m]) - Len(rest)
        BY <1>12, <3>1 DEF Passed
      <4>2. Passed(m) = sent[m] - Len(pipe[m]) - (Len(line) + Len(rest)) /\ Passed(m) \in Nat
        BY <1>3, <1>12 DEF Passed, Stream
      <4> QED
        BY <1>3, <3>1, <4>1, <4>2
    <3>3. Continues(text[m], m, Passed(m))'
      BY <1>12, <3>1, <3>2 DEF Continues
    <3>4. Continues(pipe[m], m, Passed(m) + Len(text[m]))'
      <4>1. Continues(pipe[m], m, Passed(m) + (Len(line) + Len(rest)))
        BY <1>3, <1>12 DEF Stream
      <4>2. Passed(m) + (Len(line) + Len(rest)) = Passed(m) + Len(line) + Len(rest)
        BY <3>1, <3>2
      <4> QED
        BY <1>12, <3>1, <3>2, <4>1, <4>2 DEF Continues
    <3>5. PICK k \in 0..Passed(m) : Gapless(log[m], m, k) /\ (UpToDate(m) => k = Passed(m))
      BY <1>3 DEF Stream
    <3>6. CASE open[m]
      <4>1. k = Passed(m) /\ log'[m] = log[m] \o line
        BY <3>1, <3>5, <3>6 DEF UpToDate, Written
      <4>2. k \in Nat /\ Continues(line, m, k) /\ log[m] \in Seq(Pieces)
        BY <1>3, <1>12, <3>2, <4>1
      <4>3. Gapless(log[m] \o line, m, k + Len(line))
        BY <1>12, <3>5, <4>2, GaplessOn
      <4>4. k + Len(line) \in Nat /\ k + Len(line) \in 0..(k + Len(line))
        BY <3>1, <4>2
      <4>5. Passed(m)' = k + Len(line)
        BY <3>2, <4>1
      <4>6. (\E j \in 0..Passed(m) : Gapless(log[m], m, j) /\ (UpToDate(m) => j = Passed(m)))'
        BY <4>1, <4>3, <4>4, <4>5 DEF Gapless
      <4> QED
        BY <1>12, <3>1, <3>3, <3>4, <4>4, <4>5, <4>6 DEF Stream
    <3>7. CASE ~open[m]
      <4>1. log'[m] = log[m]
        BY <3>1, <3>7 DEF Written
      <4>2. m <= n /\ ~UpToDate(m)'
        <5>1. m <= n
          BY <1>1, <1>2, <1>12 DEF PipesCarryOutput
        <5> QED
          BY <1>2, <1>12, <3>7, <5>1 DEF UpToDate
      <4>3. k \in 0..(Passed(m) + Len(line))
        BY <3>1, <3>2
      <4>4. k \in 0..Passed(m)' /\ Gapless(log'[m], m, k)
        BY <3>2, <3>5, <4>1, <4>3
      <4>5. (\E j \in 0..Passed(m) : Gapless(log[m], m, j) /\ (UpToDate(m) => j = Passed(m)))'
        BY <4>2, <4>4 DEF Gapless
      <4>6. Passed(m)' \in Nat
        BY <3>1, <3>2
      <4> QED
        BY <1>12, <3>1, <3>3, <3>4, <4>5, <4>6 DEF Stream
    <3> QED
      BY <3>6, <3>7
  <2> QED
    BY <2>1, <2>2 DEF Streams
<1>13. ASSUME NEW m \in Captures, EmitLine(m)
       PROVE  Streams'
  <2>1. PICK end \in 1..Len(text[m]) :
            /\ log' = [log EXCEPT ![m] = Written(m, SubSeq(text[m], 1, end))]
            /\ text' = [text EXCEPT ![m] = SubSeq(text[m], end + 1, Len(text[m]))]
    BY <1>1, <1>13, EmitEffect
  <2> DEFINE line == SubSeq(text[m], 1, end)
             rest == SubSeq(text[m], end + 1, Len(text[m]))
  <2>2. /\ line \in Seq(Pieces) /\ rest \in Seq(Pieces)
        /\ Len(line) = end /\ Len(rest) = Len(text[m]) - end
        /\ Continues(line, m, Passed(m)) /\ OnlyOutput(line)
        /\ Continues(rest, m, Passed(m) + end)
    <3>1. /\ text[m] \in Seq(Pieces) /\ Passed(m) \in Nat
          /\ Continues(text[m], m, Passed(m)) /\ OnlyOutput(text[m])
      BY <1>1, <1>3 DEF Stream, PipesCarryOutput
    <3> QED
      BY <3>1, ContinuesParts
  <2> HIDE DEF line, rest
  <2>3. /\ log' = [log EXCEPT ![m] = Written(m, line)]
        /\ text' = [text EXCEPT ![m] = rest]
    BY <2>1 DEF line, rest
  <2>4. /\ UNCHANGED <<n, sent, pipe, open, late>>
        /\ pump[m] \notin {"off", "gone"} /\ pump'[m] # "gone"
        /\ \A k \in Captures : k # m => pump'[k] = pump[k]
    <3>1. PICK stage \in {"read", "echo", "emit"} : pump' = [pump EXCEPT ![m] = stage]
      BY <1>13, PumpMoves
    <3>2. /\ UNCHANGED <<n, sent, pipe, open, late>> /\ pump[m] = "emit"
      BY <1>13 DEF EmitLine
    <3> QED
      BY <1>1, <3>1, <3>2 DEF Types
  <2>5. Len(text[m]) = Len(line) + Len(rest)
    <3>1. end \in Nat /\ Len(text[m]) \in Nat
      BY <1>3
    <3> QED
      BY <2>2, <3>1
  <2>6. UpToDate(m)' => UpToDate(m)
    BY <2>4 DEF UpToDate
  <2> QED
    BY <1>12, <2>2, <2>3, <2>4, <2>5, <2>6
<1>14. ASSUME NEW m \in Captures, PumpEnds(m)
       PROVE  Streams'
  <2>1. /\ pump[m] = "read" /\ pipe[m] = <<>>
        /\ log' = [log EXCEPT ![m] = Written(m, text[m])]
        /\ text' = [text EXCEPT ![m] = <<>>]
        /\ pump' = [pump EXCEPT ![m] = "gone"]
        /\ UNCHANGED <<n, sent, pipe, open, late>>
    BY <1>14 DEF PumpEnds
  <2>2. <<>> \in Seq(Pieces)
    OBVIOUS
  <2>3. Len(text[m]) = Len(text[m]) + Len(<<>>)
    BY <1>3, <1>4
  <2>4. OnlyOutput(text[m]) /\ Continues(text[m], m, Passed(m))
    BY <1>1, <1>3 DEF PipesCarryOutput, Stream
  <2>5. ~late[m] => open[m]
    <3>1. m <= n
      BY <1>1, <1>2, <2>1 DEF PipesCarryOutput
    <3>2. ~late[m] => m = n /\ main # "idle"
      BY <1>1, <1>2, <2>1, <3>1 DEF Stages
    <3> QED
      BY <1>1, <3>2 DEF Stages
  <2>6. \A k \in Captures : k # m => pump'[k] = pump[k]
    BY <1>1, <2>1 DEF Types
  <2>7. pump'[m] = "gone"
    BY <1>1, <2>1 DEF Types
  <2>8. UpToDate(m)' => UpToDate(m) \/ (pump'[m] = "gone" /\ ~late[m])
    BY <2>1 DEF UpToDate
  <2> DEFINE none == <<>>
  <2>9. none \in Seq(Pieces) /\ Len(text[m]) = Len(text[m]) + Len(none)
        /\ Continues(none, m, Passed(m) + Len(text[m])) /\ text' = [text EXCEPT ![m] = none]
        /\ none = <<>>
    BY <1>4, <2>1, <2>2, <2>3
  <2> HIDE DEF none
  <2> QED
    BY <1>3, <1>12, <2>1, <2>4, <2>5, <2>6, <2>7, <2>8, <2>9
<1>15. ASSUME NEW m \in Captures, NEW nl \in BOOLEAN, Output(m, nl),
              pump[m] \notin {"off", "gone"}
       PROVE  Streams'
  <2> DEFINE p == Piece("out", m, sent[m] + 1, nl)
  <2>1. /\ sent' = [sent EXCEPT ![m] = sent[m] + 1]
        /\ pipe' = [pipe EXCEPT ![m] = Append(pipe[m], p)]
        /\ UNCHANGED <<n, log, open, late, pump, text>>
    BY <1>15 DEF Output, mainVars
  <2>2. p \in Pieces /\ p.of = m /\ p.place = sent[m] + 1
    <3>1. sent[m] + 1 \in 0..MaxWrites
      BY <1>1, <1>15, Bounds DEF Types, Output
    <3> QED
      BY <3>1, PiecesAreTyped DEF Piece
  <2> HIDE DEF p
  <2>3. sent'[m] = sent[m] + 1 /\ pipe'[m] = Append(pipe[m], p)
    BY <1>1, <2>1 DEF Types
  <2>4. /\ Len(Append(pipe[m], p)) = Len(pipe[m]) + 1
        /\ \A i \in 1..Len(pipe[m]) : Append(pipe[m], p)[i] = pipe[m][i]
        /\ Append(pipe[m], p)[Len(pipe[m]) + 1] = p
    BY <1>3, <2>2, AppendProperties
  <2>5. ASSUME NEW k \in Captures, k # m
        PROVE  Stream(k)'
    <3>1. sent'[k] = sent[k] /\ pipe'[k] = pipe[k]
      BY <1>1, <2>1, <2>5 DEF Types
    <3> QED
      BY <1>3, <2>1, <3>1, StreamStays DEF UpToDate
  <2>6. Stream(m)'
    <3>1. Passed(m)' = Passed(m)
      <4>1. Passed(m)' = (sent[m] + 1) - (Len(pipe[m]) + 1) - Len(text[m])
        BY <2>1, <2>3, <2>4 DEF Passed
      <4>2. Passed(m) = sent[m] - Len(pipe[m]) - Len(text[m])
        BY DEF Passed
      <4> QED
        BY <1>3, <4>1, <4>2
    <3>2. Passed(m) + Len(text[m]) + (Len(pipe[m]) + 1) = sent[m] + 1
      <4>1. Passed(m) = sent[m] - Len(pipe[m]) - Len(text[m])
        BY DEF Passed
      <4> QED
        BY <1>3, <4>1
    <3>3. ASSUME NEW i \in 1..(Len(pipe[m]) + 1)
          PROVE  /\ Append(pipe[m], p)[i].of = m
                 /\ Append(pipe[m], p)[i].place = Passed(m) + Len(text[m]) + i
      <4>1. CASE i \in 1..Len(pipe[m])
        BY <1>3, <2>4, <4>1 DEF Stream, Continues
      <4>2. CASE i = Len(pipe[m]) + 1
        BY <2>2, <2>4, <3>2, <4>2
      <4> QED
        BY <1>3, <4>1, <4>2
    <3>4. Continues(pipe[m], m, Passed(m) + Len(text[m]))'
      BY <2>1, <2>3, <2>4, <3>1, <3>3 DEF Continues
    <3>5. Continues(text[m], m, Passed(m))'
      BY <1>3, <2>1, <3>1 DEF Stream, Continues
    <3>6. (\E k \in 0..Passed(m) : Gapless(log[m], m, k) /\ (UpToDate(m) => k = Passed(m)))'
      <4>1. PICK k \in 0..Passed(m) :
                Gapless(log[m], m, k) /\ (UpToDate(m) => k = Passed(m))
        BY <1>3 DEF Stream
      <4>2. Gapless(log[m], m, k)'
        BY <2>1, <4>1 DEF Gapless
      <4>3. k \in 0..Passed(m)' /\ (UpToDate(m)' => k = Passed(m)')
        BY <2>1, <3>1, <4>1 DEF UpToDate
      <4> QED
        BY <4>2, <4>3
    <3>7. Passed(m)' \in Nat /\ pump'[m] # "gone"
      BY <1>3, <1>15, <2>1, <3>1 DEF Stream
    <3> QED
      BY <3>4, <3>5, <3>6, <3>7 DEF Stream
  <2> QED
    BY <2>5, <2>6 DEF Streams
<1>16. ASSUME NEW nl \in BOOLEAN,
              AutomationWrites(nl) \/ \E m \in Captures : KidWrites(m, nl)
       PROVE  Streams'
  BY <1>1, <1>15, <1>16, Writers
<1> QED
  BY <1>5, <1>6, <1>7, <1>8, <1>9, <1>10, <1>11, <1>13, <1>14, <1>16
  DEF Next, Main, Pump, Outside

\* Only a capture made with --verbose echoes.
LEMMA EchoesStep == IInv /\ EchoesWhenAsked /\ [Next]_vars => EchoesWhenAsked'
<1> SUFFICES ASSUME IInv, EchoesWhenAsked, [Next]_vars
             PROVE  EchoesWhenAsked'
  OBVIOUS
<1>1. Types /\ EmitsLine
  BY DEF IInv
<1>2. \A s : Onward(s) # "echo"
  BY DEF Onward
<1>3. CASE EnterCapturing
  <2>1. /\ pump' = [pump EXCEPT ![n] = "read"]
        /\ echoing' = [echoing EXCEPT ![n] = n \in Echo]
    BY <1>3 DEF EnterCapturing
  <2>2. ASSUME NEW m \in Captures
        PROVE  (echoing'[m] => echoing[m] \/ m \in Echo) /\ (pump'[m] = "echo" => pump[m] = "echo")
    <3>1. CASE m = n
      BY <1>1, <2>1, <3>1 DEF Types
    <3>2. CASE m # n
      BY <1>1, <2>1, <3>2 DEF Types
    <3> QED
      BY <3>1, <3>2
  <2> QED
    BY <2>2 DEF EchoesWhenAsked
<1>4. ASSUME NEW m \in Captures, ReadChunk(m)
      PROVE  EchoesWhenAsked'
  <2> DEFINE next == Onward(text[m] \o pipe[m])
  <2>1. /\ pump' = [pump EXCEPT ![m] = IF echoing[m] THEN "echo" ELSE next]
        /\ UNCHANGED echoing
    BY <1>1, <1>4, ReadEffect
  <2>2. next # "echo"
    BY <1>2
  <2> HIDE DEF next
  <2> QED
    BY <1>1, <2>1, <2>2 DEF EchoesWhenAsked, Types
<1>5. ASSUME NEW m \in Captures, EchoChunk(m)
      PROVE  EchoesWhenAsked'
  <2>1. /\ pump[m] = "echo" /\ pump' = [pump EXCEPT ![m] = Onward(text[m])]
        /\ echoing' = [echoing EXCEPT ![m] =
              fds[held[m].out] \notin {Free} \cup {ReadEnd(k) : k \in Captures}]
    BY <1>5 DEF EchoChunk
  <2>2. m \in Echo
    BY <2>1 DEF EchoesWhenAsked
  <2>3. \A k \in Captures : k # m => pump'[k] = pump[k] /\ echoing'[k] = echoing[k]
    BY <1>1, <2>1 DEF Types
  <2> QED
    BY <2>2, <2>3 DEF EchoesWhenAsked
<1>6. ASSUME NEW m \in Captures, EmitLine(m)
      PROVE  EchoesWhenAsked'
  <2>1. \E s : pump' = [pump EXCEPT ![m] = Onward(s)]
    BY <1>1, <1>6, EmitEffect
  <2>2. UNCHANGED echoing
    BY <1>6 DEF EmitLine
  <2> QED
    BY <1>1, <1>2, <2>1, <2>2 DEF EchoesWhenAsked, Types
<1>7. ASSUME NEW m \in Captures, PumpEnds(m)
      PROVE  EchoesWhenAsked'
  BY <1>1, <1>7 DEF PumpEnds, EchoesWhenAsked, Types
<1>8. CASE OpenLog \/ SkipCapturing \/ LeaveCapturing \/ JoinPump \/ JoinTimesOut
           \/ CloseSaved \/ OpenFile \/ CloseFile \/ WriteFooter \/ CloseLog \/ Outside
           \/ UNCHANGED vars
  BY <1>8
  DEF OpenLog, SkipCapturing, LeaveCapturing, JoinPump, JoinTimesOut, CloseSaved, OpenFile,
      CloseFile, WriteFooter, CloseLog, Outside, AutomationWrites, KidWrites, Output,
      Spawn, KidExits, mainVars, vars, EchoesWhenAsked
<1> QED
  BY <1>3, <1>4, <1>5, <1>6, <1>7, <1>8 DEF Next, Main, Pump

\* A pump that was given up on stays so, and captures are counted upwards.
LEMMA NoEchoBefore ==
    ASSUME IInv, [Next]_vars, NoEchoBehind'
    PROVE  NoEchoBehind
<1>1. Types /\ Stages
  BY DEF IInv
<1>2. /\ n' = n \/ n' = n + 1
      /\ \A m \in Captures : late[m] => late'[m]
  <2>1. CASE OpenLog
    BY <2>1 DEF OpenLog
  <2>2. CASE JoinTimesOut
    BY <1>1, <2>2 DEF JoinTimesOut, Types
  <2>3. CASE EnterCapturing \/ SkipCapturing \/ LeaveCapturing \/ JoinPump \/ CloseSaved
    BY <2>3 DEF EnterCapturing, SkipCapturing, LeaveCapturing, JoinPump, CloseSaved
  <2>4. CASE OpenFile \/ CloseFile \/ WriteFooter \/ CloseLog
    BY <2>4 DEF OpenFile, CloseFile, WriteFooter, CloseLog
  <2>5. ASSUME NEW m \in Captures, ReadChunk(m) \/ EchoChunk(m) \/ EmitLine(m) \/ PumpEnds(m)
        PROVE  UNCHANGED <<n, late>>
    BY <2>5 DEF ReadChunk, ReadInto, EchoChunk, EmitLine, PumpEnds, mainVars
  <2>6. CASE Outside
    BY <2>6 DEF Outside, AutomationWrites, KidWrites, Output, Spawn, KidExits, mainVars
  <2>7. CASE UNCHANGED vars
    BY <2>7 DEF vars, mainVars
  <2> QED
    BY <2>1, <2>2, <2>3, <2>4, <2>5, <2>6, <2>7 DEF Next, Main, Pump
<1>4. ASSUME NEW m \in Echo, late[m]
      PROVE  m = n
  <2>1. m \in Captures /\ m \in Nat /\ n \in Nat
    BY <1>1, RunLogBounds, Bounds, Current DEF Captures
  <2>2. m = n'
    BY <1>2, <1>4, <2>1 DEF NoEchoBehind
  <2>3. ~(m > n)
    BY <1>1, <1>4, <2>1 DEF Stages
  <2> QED
    BY <1>2, <2>1, <2>2, <2>3
<1> QED
  BY <1>4 DEF NoEchoBehind

\* Whatever the captures are asked for: as long as none has followed a --verbose
\* one whose pump was given up on, a log holds a gapless beginning of what its
\* own automation wrote, and all of it unless something the automation started
\* outlived the wait for it.
THEOREM LogsWholeUntil == Spec => [](NoEchoBehind => OutputWhole)
<1> DEFINE SInv == EchoesWhenAsked /\ (NoEchoBehind => Streams)
<1>1. Init => SInv
  <2> SUFFICES ASSUME Init PROVE Streams /\ EchoesWhenAsked
    OBVIOUS
  <2>1. ASSUME NEW m \in Captures
        PROVE  Stream(m)
    <3>1. /\ pipe[m] = <<>> /\ text[m] = <<>> /\ sent[m] = 0 /\ log[m] = <<>>
          /\ pump[m] = "off"
      BY DEF Init
    <3>2. Len(<<>>) = 0 /\ Outs(<<>>) = {} /\ Passed(m) = 0 /\ 0 \in 0..0
      <4>1. Len(<<>>) = 0 /\ Outs(<<>>) = {}
        BY DEF Outs
      <4>2. Passed(m) = 0 - 0 - 0
        BY <3>1, <4>1 DEF Passed
      <4> QED
        BY <4>1, <4>2
    <3>3. Gapless(<<>>, m, 0)
      BY <3>2, GaplessNone
    <3> QED
      BY <3>1, <3>2, <3>3 DEF Stream, Continues
  <2> QED
    BY <2>1 DEF Streams, EchoesWhenAsked, Init
<1>2. IInv /\ SInv /\ [Next]_vars => SInv'
  BY StreamsStep, EchoesStep, NoEchoBefore
<1>3. IInv /\ Streams => OutputWhole
  <2> SUFFICES ASSUME IInv, Streams, NEW m \in Captures
               PROVE  \E k \in 0..sent[m] :
                          /\ Gapless(log[m], m, k)
                          /\ pump[m] = "gone" /\ ~late[m] => k = sent[m]
    BY DEF OutputWhole
  <2>1. /\ sent[m] \in Nat /\ Len(pipe[m]) \in Nat /\ Len(text[m]) \in Nat
        /\ Passed(m) \in Nat /\ Passed(m) = sent[m] - Len(pipe[m]) - Len(text[m])
    BY LenProperties, Bounds DEF IInv, Types, Streams, Stream, Passed
  <2>2. PICK k \in 0..Passed(m) : Gapless(log[m], m, k) /\ (UpToDate(m) => k = Passed(m))
    BY DEF Streams, Stream
  <2>3. k \in 0..sent[m]
    BY <2>1, <2>2
  <2>4. pump[m] = "gone" /\ ~late[m] => k = sent[m]
    <3>1. Len(<<>>) = 0
      OBVIOUS
    <3> QED
      BY <2>1, <2>2, <3>1 DEF Streams, Stream, UpToDate
  <2> QED
    BY <2>2, <2>3, <2>4
<1>4. IInv /\ SInv => (NoEchoBehind => OutputWhole)
  BY <1>3
<1> HIDE DEF SInv
<1> QED
  BY <1>1, <1>2, <1>4, Inductive, PTL DEF Spec

\* OutputWhole: in a process that makes no capture after a --verbose one, as the
\* command line's, this holds without exception.
THEOREM LogsWhole ==
    ASSUME Echo \subseteq {MaxCaptures}
    PROVE  Spec => []OutputWhole
<1>1. IInv => NoEchoBehind
  <2> SUFFICES ASSUME IInv, NEW m \in Echo, late[m]
               PROVE  m = n
    BY DEF NoEchoBehind
  <2>1. Types /\ Stages
    BY DEF IInv
  <2>2. m = MaxCaptures /\ m \in Captures
    BY RunLogBounds DEF Captures
  <2>3. n \in 0..MaxCaptures /\ MaxCaptures \in Nat
    BY <2>1, Bounds DEF Types
  <2>4. ~(m > n)
    BY <2>1, <2>2 DEF Stages
  <2> QED
    BY <2>2, <2>3, <2>4
<1> QED
  BY <1>1, Inductive, LogsWholeUntil, PTL
=============================================================================
