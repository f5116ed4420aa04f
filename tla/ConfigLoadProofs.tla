-------------------------- MODULE ConfigLoadProofs --------------------------
(***************************************************************************)
(* Proofs about ConfigLoad for any files and any limit on the depth: which *)
(* value a loaded config has, which variables it reports as unset, and     *)
(* what it is refused for.                                                 *)
(*                                                                         *)
(* The line of documents is a recursive function, unfolded once for all;   *)
(* from then on the argument is that the documents waiting to be merged    *)
(* are the nearest ones of that line, and that what has been merged is     *)
(* what the rest of the line says.                                         *)
(***************************************************************************)
EXTENDS ConfigLoad, LeastElements, SequenceTheorems

\* A config has a key, in its section.
InConfig(config, key) ==
    SectionOf(key) \in DOMAIN config /\ key \in DOMAIN config[SectionOf(key)]

IsConfig(config) ==
    /\ DOMAIN config \subseteq Sections
    /\ \A s \in DOMAIN config : \A k \in DOMAIN config[s] :
           k \in Keys /\ SectionOf(k) = s /\ config[s][k] \in [is : Kinds, by : Files]

\* Where a key is written in the line from place i on.
SpeakersFrom(key, i) ==
    {j \in i..MaxDepth : Line[j] # Null /\ Written(Line[j], key) # Null}

\* What place m of the line says of a key, as it is read.
Said(key, m) == Value(Defaulted(key, Written(Line[m], key)), Line[m])

\* The config is what the line says from place i on: of each key, what the
\* nearest document there says that mentions it.
Says(config, i) ==
    \A key \in Keys :
        IF SpeakersFrom(key, i) = {} THEN ~InConfig(config, key)
        ELSE /\ InConfig(config, key)
             /\ config[SectionOf(key)][key] = Said(key, Min(SpeakersFrom(key, i)))

-----------------------------------------------------------------------------
Documents == {Unwrap(f) : f \in Files}
Phases == {"read", "resolve", "merge", "validate", "done", "refused", "error"}

Types ==
    /\ disk \in Cases
    /\ at \in Files
    /\ docs \in Seq(Documents)
    /\ Len(docs) <= MaxDepth + 1
    /\ IsConfig(data)
    /\ unresolved \subseteq Keys
    /\ failure = Null \/ failure \in [is : {"missing", "invalid", "deep"}, file : Files]
    /\ phase \in Phases

\* The documents that wait are the nearest ones, in their order.
Waiting == \A j \in 1..Len(docs) : docs[j] = Unwrap(Line[j - 1])

\* How much of the line has been read.
Reached ==
    /\ phase = "read" =>
           /\ Len(docs) <= MaxDepth
           /\ at = Line[Len(docs)]
           /\ \A j \in 0..(Len(docs) - 1) : ReadableTo(j)
    /\ phase = "resolve" =>
           /\ Len(docs) >= 1
           /\ at = Line[Len(docs) - 1]
           /\ ReadableTo(Len(docs) - 1)
    /\ phase \in {"merge", "validate", "done", "refused"} =>
           \E i \in 0..MaxDepth : Len(docs) <= i /\ ReadableTo(i) /\ Line[i + 1] = Null

\* What has been merged is what the line says behind the waiting documents.
Merged == phase = "merge" => Says(data, Len(docs))

\* Once the variables are expanded the config is the one to validate.
Loaded ==
    phase \in {"validate", "done", "refused"} =>
        /\ unresolved = {key \in Keys :
               Speakers(key) # {} /\ Written(Line[Min(Speakers(key))], key) = "unset"}
        /\ \A key \in Keys :
               IF Speakers(key) = {} THEN ~Has(key) ELSE IsWrittenAt(key, Min(Speakers(key)))

IInv ==
    /\ Types
    /\ Waiting
    /\ Reached
    /\ Merged
    /\ Loaded
    /\ RefusedForCause

-----------------------------------------------------------------------------
(***************************************************************************)
(* The line.                                                               *)
(***************************************************************************)
\* What the assumptions say of the limit.
LEMMA Depth ==
    /\ MaxDepth \in Nat
    /\ 0 \in 0..(MaxDepth + 1)
    /\ \A i \in 0..MaxDepth : i \in Nat /\ i \in 0..(MaxDepth + 1) /\ i + 1 \in 0..(MaxDepth + 1)
BY DepthIsNat

\* The recursive definition of the line has the meaning it is read with.
LEMMA LineUnfolds ==
    /\ Line[0] = Root
    /\ \A i \in 0..MaxDepth :
           Line[i + 1] = IF Line[i] = Null THEN Null ELSE disk[Line[i]].extends
<1> DEFINE Next1(v) == IF v = Null THEN Null ELSE disk[v].extends
           To(g, k) == g = [i \in 0..k |-> IF i = 0 THEN Root ELSE Next1(g[i - 1])]
           S == {k \in Nat : \E g : To(g, k)}
<1>1. 0 \in S
  <2> DEFINE g == [i \in 0..0 |-> Root]
  <2>1. g = [i \in 0..0 |-> IF i = 0 THEN Root ELSE Next1(g[i - 1])]
    <3>1. \A i \in 0..0 : i = 0
      OBVIOUS
    <3> QED
      BY <3>1
  <2> HIDE DEF g
  <2> QED
    BY <2>1
<1>2. ASSUME NEW k \in Nat, k \in S
      PROVE  k + 1 \in S
  <2>1. PICK g : To(g, k)
    BY <1>2
  <2> DEFINE h == [i \in 0..(k + 1) |-> IF i <= k THEN g[i] ELSE Next1(g[k])]
  <2>2. ASSUME NEW i \in 0..(k + 1)
        PROVE  h[i] = IF i = 0 THEN Root ELSE Next1(h[i - 1])
    <3> HIDE DEF Next1
    <3>1. CASE i = 0
      <4>1. 0 \in 0..k /\ 0 <= k
        OBVIOUS
      <4>2. g[0] = Root
        BY <2>1, <4>1
      <4> QED
        BY <3>1, <4>1, <4>2
    <3>2. CASE i # 0 /\ i <= k
      <4>1. i \in 0..k /\ i - 1 \in 0..(k + 1) /\ i - 1 <= k
        BY <3>2
      <4>2. g[i] = Next1(g[i - 1])
        BY <2>1, <3>2, <4>1
      <4>3. h[i] = g[i] /\ h[i - 1] = g[i - 1]
        BY <3>2, <4>1
      <4> QED
        BY <3>2, <4>2, <4>3
    <3>3. CASE i = k + 1
      <4>1. ~(k + 1 <= k) /\ k \in 0..(k + 1) /\ k <= k /\ (k + 1) - 1 = k /\ k + 1 # 0
            /\ k + 1 \in 0..(k + 1)
        OBVIOUS
      <4>2. h[k + 1] = Next1(g[k]) /\ h[k] = g[k]
        BY <4>1
      <4> QED
        BY <3>3, <4>1, <4>2
    <3> QED
      BY <3>1, <3>2, <3>3
  <2>3. h = [i \in 0..(k + 1) |-> h[i]]
    OBVIOUS
  <2> HIDE DEF h, Next1
  <2>4. To(h, k + 1)
    BY <2>2, <2>3
  <2> QED
    BY <2>4
<1>3. MaxDepth + 1 \in S
  <2> HIDE DEF S
  <2>1. Nat \subseteq S
    BY <1>1, <1>2, AllNaturals
  <2> QED
    BY <2>1, Depth
<1>4. Line = CHOOSE g : To(g, MaxDepth + 1)
  BY DEF Line
<1>5. To(Line, MaxDepth + 1)
  <2>1. \E g : To(g, MaxDepth + 1)
    BY <1>3
  <2> HIDE DEF To
  <2> QED
    BY <1>4, <2>1
<1> HIDE DEF S
<1>6. Line[0] = Root
  BY <1>5, Depth
<1>7. ASSUME NEW i \in 0..MaxDepth
      PROVE  Line[i + 1] = Next1(Line[i])
  <2> HIDE DEF Next1
  <2>1. i + 1 \in 0..(MaxDepth + 1) /\ i + 1 # 0 /\ (i + 1) - 1 = i
    BY Depth
  <2> QED
    BY <1>5, <2>1
<1> QED
  BY <1>6, <1>7

\* The line runs through files.
LEMMA LineTyped ==
    ASSUME disk \in Cases, NEW i \in 0..(MaxDepth + 1)
    PROVE  Line[i] \in Files \cup {Null}
<1> DEFINE S == {k \in Nat : k <= MaxDepth + 1 => Line[k] \in Files \cup {Null}}
<1>1. 0 \in S
  BY LineUnfolds, RootIsAFile
<1>2. ASSUME NEW k \in Nat, k \in S
      PROVE  k + 1 \in S
  <2> SUFFICES ASSUME k + 1 <= MaxDepth + 1
               PROVE  Line[k + 1] \in Files \cup {Null}
    OBVIOUS
  <2>1. k \in 0..MaxDepth /\ k <= MaxDepth + 1
    BY Depth
  <2>2. Line[k + 1] = IF Line[k] = Null THEN Null ELSE disk[Line[k]].extends
    BY <2>1, LineUnfolds
  <2>3. Line[k] \in Files \cup {Null}
    BY <1>2, <2>1
  <2>4. \A f \in Files : disk[f].extends \in Files \cup {Null}
    BY CasesAreDisks DEF IsDocument
  <2> QED
    BY <2>2, <2>3, <2>4
<1> HIDE DEF S
<1>3. Nat \subseteq S
  BY <1>1, <1>2, AllNaturals
<1>4. i \in Nat /\ i <= MaxDepth + 1
  BY Depth
<1> QED
  BY <1>3, <1>4 DEF S

\* Behind its end there is nothing.
LEMMA LineEnded ==
    ASSUME NEW i \in 0..(MaxDepth + 1), Line[i] = Null, NEW j \in i..(MaxDepth + 1)
    PROVE  Line[j] = Null
<1> DEFINE S == {k \in Nat : i + k <= MaxDepth + 1 => Line[i + k] = Null}
<1>1. 0 \in S
  <2>1. i + 0 = i
    BY Depth
  <2> QED
    BY <2>1
<1>2. ASSUME NEW k \in Nat, k \in S
      PROVE  k + 1 \in S
  <2> SUFFICES ASSUME i + (k + 1) <= MaxDepth + 1
               PROVE  Line[i + (k + 1)] = Null
    OBVIOUS
  <2>1. i + k \in 0..MaxDepth /\ i + k <= MaxDepth + 1 /\ i + (k + 1) = (i + k) + 1
    BY Depth
  <2>2. Line[(i + k) + 1] = IF Line[i + k] = Null THEN Null ELSE disk[Line[i + k]].extends
    BY <2>1, LineUnfolds
  <2> QED
    BY <1>2, <2>1, <2>2
<1> HIDE DEF S
<1>3. Nat \subseteq S
  BY <1>1, <1>2, AllNaturals
<1>4. j - i \in Nat /\ i + (j - i) = j /\ j <= MaxDepth + 1
  BY Depth
<1> QED
  BY <1>3, <1>4 DEF S

\* A nonempty set of places has a nearest one.
LEMMA Nearest ==
    ASSUME NEW S \in SUBSET Nat, S # {}
    PROVE  Min(S) \in S /\ \A x \in S : Min(S) <= x
BY LeastElement DEF Min

-----------------------------------------------------------------------------
(***************************************************************************)
(* Documents and their merge.                                              *)
(***************************************************************************)
\* Over is a function of the keys of both.
LEMMA OverSays ==
    ASSUME NEW f, NEW g
    PROVE  /\ DOMAIN Over(f, g) = DOMAIN f \cup DOMAIN g
           /\ \A x \in DOMAIN f : Over(f, g)[x] = f[x]
           /\ \A x \in DOMAIN g : x \notin DOMAIN f => Over(f, g)[x] = g[x]
BY DEF Over

\* Reading a document keeps what its keys say, gives a list without entries
\* its empty default, and takes the host's report_dir where the code does.
LEMMA UnwrapSays ==
    ASSUME disk \in Cases, NEW f \in Files
    PROVE  /\ IsConfig(Unwrap(f))
           /\ \A key \in Keys :
                  /\ InConfig(Unwrap(f), key) <=> Written(f, key) # Null
                  /\ Written(f, key) # Null =>
                         /\ Written(f, key) \in Kinds
                         /\ Unwrap(f)[SectionOf(key)][key] =
                                Value(Defaulted(key, Written(f, key)), f)
<1> DEFINE raw == disk[f].sections
           own == DropEmptySections(raw, f)
           lent == [s \in {"output"} |-> [k \in {"dir"} |-> Value(disk[f].report_dir, f)]]
<1>1. IsDocument(disk[f])
  BY CasesAreDisks
<1>2. /\ DOMAIN raw \subseteq Sections
      /\ disk[f].embedded \in BOOLEAN /\ disk[f].report_dir \in Kinds \cup {Null}
      /\ \A s \in DOMAIN raw : raw[s] # Null =>
             \A k \in DOMAIN raw[s] :
                 k \in Keys /\ SectionOf(k) = s /\ raw[s][k] \in Kinds
  BY <1>1 DEF IsDocument
<1>3. /\ DOMAIN own = DOMAIN raw
      /\ \A s \in DOMAIN raw : raw[s] = Null => own[s] = << >>
      /\ \A s \in DOMAIN raw : raw[s] # Null =>
             /\ DOMAIN own[s] = DOMAIN raw[s]
             /\ \A k \in DOMAIN raw[s] : own[s][k] = Value(Defaulted(k, raw[s][k]), f)
  BY DEF DropEmptySections
<1>4. \A k, kind : kind \in Kinds => Defaulted(k, kind) \in Kinds
  BY DEF Defaulted, Kinds
<1>5. \A kind \in Kinds : Value(kind, f) \in [is : Kinds, by : Files]
  BY DEF Value
<1>6. DOMAIN << >> = {}
  OBVIOUS
<1>7. IsConfig(own)
  BY <1>2, <1>3, <1>4, <1>5, <1>6 DEF IsConfig
<1>8. \A key : Written(f, key) =
          IF SectionOf(key) \in DOMAIN raw
          THEN IF raw[SectionOf(key)] # Null /\ key \in DOMAIN raw[SectionOf(key)]
               THEN raw[SectionOf(key)][key] ELSE Null
          ELSE IF key = "dir" THEN Lent(f) ELSE Null
  BY DEF Written
<1>9. Lends(f) <=> /\ disk[f].embedded /\ HasValue(disk[f].report_dir)
                   /\ "output" \notin DOMAIN raw
  BY DEF Lends
<1>10. Unwrap(f) = IF Lends(f) THEN Over(lent, own) ELSE own
  BY DEF Unwrap
<1>11. /\ SectionOf("dir") = "output" /\ "dir" \in Keys /\ "output" \in Sections
       /\ \A key \in Keys : SectionOf(key) = "output" => key = "dir"
       /\ \A kind : Defaulted("dir", kind) = kind
  BY DEF SectionOf, Keys, Sections, Defaulted, Lists
<1>12. Null \notin Kinds
  BY NullIsApart
<1>13. /\ DOMAIN lent = {"output"} /\ DOMAIN lent["output"] = {"dir"}
       /\ lent["output"]["dir"] = Value(disk[f].report_dir, f)
  OBVIOUS
<1>17. Lent(f) = IF disk[f].embedded /\ HasValue(disk[f].report_dir)
                 THEN disk[f].report_dir ELSE Null
  BY DEF Lent, HasValue
<1> HIDE DEF raw, own, lent
\* The document's own sections say what is written in them.
<1>14. ASSUME NEW key \in Keys, SectionOf(key) \in DOMAIN raw
       PROVE  /\ InConfig(own, key) <=> Written(f, key) # Null
              /\ Written(f, key) # Null =>
                     /\ Written(f, key) \in Kinds
                     /\ own[SectionOf(key)][key] = Value(Defaulted(key, Written(f, key)), f)
  BY <1>2, <1>3, <1>6, <1>8, <1>12, <1>14 DEF InConfig
<1>15. CASE ~Lends(f)
  <2>1. Unwrap(f) = own
    BY <1>10, <1>15
  <2>2. ASSUME NEW key \in Keys, SectionOf(key) \notin DOMAIN raw
        PROVE  ~InConfig(own, key) /\ Written(f, key) = Null
    <3>1. ~InConfig(own, key)
      BY <1>3, <2>2 DEF InConfig
    <3>2. Written(f, key) = Null
      BY <1>8, <1>9, <1>11, <1>15, <1>17, <2>2
    <3> QED
      BY <3>1, <3>2
  <2> QED
    BY <1>7, <1>14, <2>1, <2>2
<1>16. CASE Lends(f)
  <2> DEFINE both == Over(lent, own)
  <2>1. Unwrap(f) = both
    BY <1>10, <1>16
  <2>2. /\ DOMAIN both = {"output"} \cup DOMAIN raw
        /\ both["output"] = lent["output"]
        /\ \A s \in DOMAIN raw : both[s] = own[s] /\ s # "output"
    <3>1. /\ DOMAIN both = DOMAIN lent \cup DOMAIN own
          /\ \A x \in DOMAIN lent : both[x] = lent[x]
          /\ \A x \in DOMAIN own : x \notin DOMAIN lent => both[x] = own[x]
      BY OverSays
    <3> HIDE DEF both
    <3> QED
      BY <1>3, <1>9, <1>13, <1>16, <3>1
  <2> HIDE DEF both
  <2>3. /\ disk[f].embedded /\ disk[f].report_dir \in Kinds /\ "output" \notin DOMAIN raw
        /\ Lent(f) = disk[f].report_dir
    BY <1>2, <1>9, <1>16, <1>17 DEF HasValue
  <2>4. IsConfig(both)
    BY <1>3, <1>5, <1>7, <1>11, <1>13, <2>2, <2>3, <1>2 DEF IsConfig
  <2>5. ASSUME NEW key \in Keys, SectionOf(key) \in DOMAIN raw
        PROVE  InConfig(both, key) <=> InConfig(own, key)
    BY <1>3, <2>2, <2>5 DEF InConfig
  <2>6. ASSUME NEW key \in Keys, SectionOf(key) \notin DOMAIN raw, key # "dir"
        PROVE  ~InConfig(both, key) /\ Written(f, key) = Null
    BY <1>8, <1>11, <2>2, <2>6 DEF InConfig
  <2>7. /\ InConfig(both, "dir") /\ Written(f, "dir") = disk[f].report_dir
        /\ both["output"]["dir"] = Value(Defaulted("dir", Written(f, "dir")), f)
        /\ Written(f, "dir") # Null /\ Written(f, "dir") \in Kinds
    BY <1>8, <1>11, <1>12, <1>13, <2>2, <2>3 DEF InConfig
  <2>8. ASSUME NEW key \in Keys
        PROVE  /\ InConfig(both, key) <=> Written(f, key) # Null
               /\ Written(f, key) # Null =>
                      /\ Written(f, key) \in Kinds
                      /\ both[SectionOf(key)][key] = Value(Defaulted(key, Written(f, key)), f)
    <3>1. CASE SectionOf(key) \in DOMAIN raw
      BY <1>14, <2>2, <2>5, <3>1
    <3>2. CASE SectionOf(key) \notin DOMAIN raw /\ key # "dir"
      BY <2>6, <3>2
    <3>3. CASE key = "dir"
      BY <1>11, <2>7, <3>3
    <3> QED
      BY <3>1, <3>2, <3>3
  <2> QED
    BY <2>1, <2>4, <2>8
<1> QED
  BY <1>15, <1>16

\* The merge has every key of either config, and the child's value of a key
\* that both have, whatever else their sections hold.
LEMMA MergeSays ==
    ASSUME NEW base, NEW override, IsConfig(base), IsConfig(override)
    PROVE  /\ IsConfig(DeepMerge(base, override))
           /\ \A key \in Keys :
                  /\ InConfig(DeepMerge(base, override), key)
                         <=> InConfig(override, key) \/ InConfig(base, key)
                  /\ InConfig(override, key) =>
                         DeepMerge(base, override)[SectionOf(key)][key]
                             = override[SectionOf(key)][key]
                  /\ InConfig(base, key) /\ ~InConfig(override, key) =>
                         DeepMerge(base, override)[SectionOf(key)][key]
                             = base[SectionOf(key)][key]
<1> DEFINE both == DeepMerge(base, override)
<1>1. /\ DOMAIN both = DOMAIN base \cup DOMAIN override
      /\ \A s \in DOMAIN base \cup DOMAIN override :
             both[s] = IF s \in DOMAIN base /\ s \in DOMAIN override
                       THEN Over(override[s], base[s])
                       ELSE IF s \in DOMAIN override THEN override[s] ELSE base[s]
  BY DEF DeepMerge, MergeSection
<1> HIDE DEF both
<1>2. \A s \in DOMAIN both :
          /\ s \in DOMAIN base /\ s \in DOMAIN override =>
                 /\ DOMAIN both[s] = DOMAIN override[s] \cup DOMAIN base[s]
                 /\ \A k \in DOMAIN override[s] : both[s][k] = override[s][k]
                 /\ \A k \in DOMAIN base[s] :
                        k \notin DOMAIN override[s] => both[s][k] = base[s][k]
          /\ s \notin DOMAIN base => both[s] = override[s]
          /\ s \notin DOMAIN override => both[s] = base[s]
  <2> SUFFICES ASSUME NEW s \in DOMAIN both
               PROVE  /\ s \in DOMAIN base /\ s \in DOMAIN override =>
                             /\ DOMAIN both[s] = DOMAIN override[s] \cup DOMAIN base[s]
                             /\ \A k \in DOMAIN override[s] : both[s][k] = override[s][k]
                             /\ \A k \in DOMAIN base[s] :
                                    k \notin DOMAIN override[s] => both[s][k] = base[s][k]
                      /\ s \notin DOMAIN base => both[s] = override[s]
                      /\ s \notin DOMAIN override => both[s] = base[s]
    OBVIOUS
  <2> DEFINE f == override[s]
             g == base[s]
  <2>1. /\ DOMAIN Over(f, g) = DOMAIN f \cup DOMAIN g
        /\ \A k \in DOMAIN f : Over(f, g)[k] = f[k]
        /\ \A k \in DOMAIN g : k \notin DOMAIN f => Over(f, g)[k] = g[k]
    BY OverSays
  <2>2. s \in DOMAIN base /\ s \in DOMAIN override => both[s] = Over(f, g)
    BY <1>1
  <2>3. (s \notin DOMAIN base => both[s] = f) /\ (s \notin DOMAIN override => both[s] = g)
    BY <1>1
  <2> QED
    BY <2>1, <2>2, <2>3
<1>3. IsConfig(both)
  BY <1>1, <1>2 DEF IsConfig
<1>4. ASSUME NEW key \in Keys
      PROVE  /\ InConfig(both, key) <=> InConfig(override, key) \/ InConfig(base, key)
             /\ InConfig(override, key) =>
                    both[SectionOf(key)][key] = override[SectionOf(key)][key]
             /\ InConfig(base, key) /\ ~InConfig(override, key) =>
                    both[SectionOf(key)][key] = base[SectionOf(key)][key]
  <2> DEFINE s == SectionOf(key)
  <2> HIDE DEF s
  <2>1. /\ InConfig(both, key) <=> s \in DOMAIN both /\ key \in DOMAIN both[s]
        /\ InConfig(base, key) <=> s \in DOMAIN base /\ key \in DOMAIN base[s]
        /\ InConfig(override, key) <=> s \in DOMAIN override /\ key \in DOMAIN override[s]
    BY DEF InConfig, s
  <2>2. /\ InConfig(both, key) <=> InConfig(override, key) \/ InConfig(base, key)
        /\ InConfig(override, key) => both[s][key] = override[s][key]
        /\ InConfig(base, key) /\ ~InConfig(override, key) => both[s][key] = base[s][key]
    BY <1>1, <1>2, <2>1
  <2> QED
    BY <2>2 DEF s
<1> QED
  BY <1>3, <1>4 DEF both

-----------------------------------------------------------------------------
(***************************************************************************)
(* What the line says.                                                     *)
(***************************************************************************)
\* A document in front of the line is the nearest one for what it mentions.
LEMMA Fronted ==
    ASSUME NEW key, NEW i \in 0..MaxDepth, Line[i] # Null
    PROVE  /\ Written(Line[i], key) # Null =>
                  SpeakersFrom(key, i) # {} /\ Min(SpeakersFrom(key, i)) = i
           /\ Written(Line[i], key) = Null => SpeakersFrom(key, i) = SpeakersFrom(key, i + 1)
<1>1. \A j \in i..MaxDepth : j = i \/ j \in (i + 1)..MaxDepth
  BY Depth
<1>2. i \in i..MaxDepth /\ \A j \in (i + 1)..MaxDepth : j \in i..MaxDepth
  BY Depth
<1>3. SpeakersFrom(key, i) \in SUBSET Nat
  BY Depth DEF SpeakersFrom
<1>4. ASSUME Written(Line[i], key) # Null
      PROVE  SpeakersFrom(key, i) # {} /\ Min(SpeakersFrom(key, i)) = i
  <2>1. i \in SpeakersFrom(key, i)
    BY <1>2, <1>4 DEF SpeakersFrom
  <2>2. /\ Min(SpeakersFrom(key, i)) \in SpeakersFrom(key, i)
        /\ Min(SpeakersFrom(key, i)) <= i
    BY <1>3, <2>1, Nearest
  <2>3. Min(SpeakersFrom(key, i)) \in i..MaxDepth
    BY <2>2 DEF SpeakersFrom
  <2> QED
    BY <2>1, <2>2, <2>3, Depth
<1>5. ASSUME Written(Line[i], key) = Null
      PROVE  SpeakersFrom(key, i) = SpeakersFrom(key, i + 1)
  BY <1>1, <1>2, <1>5 DEF SpeakersFrom
<1> QED
  BY <1>4, <1>5

\* The last document of the line says what the line says from its place on.
LEMMA TopSays ==
    ASSUME disk \in Cases, NEW i \in 0..MaxDepth, Line[i] \in Files, Line[i + 1] = Null
    PROVE  Says(Unwrap(Line[i]), i)
<1> SUFFICES ASSUME NEW key \in Keys
             PROVE  IF SpeakersFrom(key, i) = {} THEN ~InConfig(Unwrap(Line[i]), key)
                    ELSE /\ InConfig(Unwrap(Line[i]), key)
                         /\ Unwrap(Line[i])[SectionOf(key)][key] =
                                Said(key, Min(SpeakersFrom(key, i)))
  BY DEF Says
<1>1. Line[i] # Null
  BY NullIsApart
<1>2. SpeakersFrom(key, i + 1) = {}
  <2>1. \A j \in (i + 1)..MaxDepth : j \in (i + 1)..(MaxDepth + 1)
    BY Depth
  <2>2. i + 1 \in 0..(MaxDepth + 1)
    BY Depth
  <2> QED
    BY <2>1, <2>2, LineEnded DEF SpeakersFrom
<1>3. /\ InConfig(Unwrap(Line[i]), key) <=> Written(Line[i], key) # Null
      /\ Written(Line[i], key) # Null => Unwrap(Line[i])[SectionOf(key)][key] = Said(key, i)
  BY UnwrapSays DEF Said
<1> QED
  BY <1>1, <1>2, <1>3, Fronted

\* Merging the next document in front of what has been merged.
LEMMA MergedSays ==
    ASSUME disk \in Cases, NEW i \in 0..MaxDepth, Line[i] \in Files,
           IsConfig(data), Says(data, i + 1)
    PROVE  Says(DeepMerge(data, Unwrap(Line[i])), i)
<1> DEFINE override == Unwrap(Line[i])
           both == DeepMerge(data, override)
<1> SUFFICES ASSUME NEW key \in Keys
             PROVE  IF SpeakersFrom(key, i) = {} THEN ~InConfig(both, key)
                    ELSE /\ InConfig(both, key)
                         /\ both[SectionOf(key)][key] = Said(key, Min(SpeakersFrom(key, i)))
  BY DEF Says
<1>1. Line[i] # Null
  BY NullIsApart
<1>2. /\ IsConfig(override)
      /\ InConfig(override, key) <=> Written(Line[i], key) # Null
      /\ Written(Line[i], key) # Null => override[SectionOf(key)][key] = Said(key, i)
  BY UnwrapSays DEF Said
<1> HIDE DEF override
<1>3. /\ InConfig(both, key) <=> InConfig(override, key) \/ InConfig(data, key)
      /\ InConfig(override, key) =>
             both[SectionOf(key)][key] = override[SectionOf(key)][key]
      /\ InConfig(data, key) /\ ~InConfig(override, key) =>
             both[SectionOf(key)][key] = data[SectionOf(key)][key]
  BY <1>2, MergeSays
<1> HIDE DEF both
<1>4. IF SpeakersFrom(key, i + 1) = {} THEN ~InConfig(data, key)
      ELSE /\ InConfig(data, key)
           /\ data[SectionOf(key)][key] = Said(key, Min(SpeakersFrom(key, i + 1)))
  BY DEF Says
<1>5. CASE Written(Line[i], key) # Null
  <2>1. SpeakersFrom(key, i) # {} /\ Min(SpeakersFrom(key, i)) = i
    BY <1>1, <1>5, Fronted
  <2> QED
    BY <1>2, <1>3, <1>5, <2>1
<1>6. CASE Written(Line[i], key) = Null
  <2>1. SpeakersFrom(key, i) = SpeakersFrom(key, i + 1)
    BY <1>1, <1>6, Fronted
  <2> QED
    BY <1>2, <1>3, <1>4, <1>6, <2>1
<1> QED
  BY <1>5, <1>6

-----------------------------------------------------------------------------
(***************************************************************************)
(* The steps.                                                              *)
(***************************************************************************)
\* The disk stays as it is, and with it all that is said of the line.
LEMMA SameDisk ==
    ASSUME UNCHANGED disk
    PROVE  /\ Line' = Line
           /\ Documents' = Documents
           /\ \A f : Unwrap(f)' = Unwrap(f)
           /\ \A f, key : Written(f, key)' = Written(f, key)
           /\ \A key, i : SpeakersFrom(key, i)' = SpeakersFrom(key, i)
           /\ \A key : Speakers(key)' = Speakers(key)
           /\ \A j : ReadableTo(j)' = ReadableTo(j)
<1>1. Line' = Line
  BY DEF Line
<1>2. \A f : Unwrap(f)' = Unwrap(f)
  BY DEF Unwrap, Lends, HasValue, DropEmptySections
<1>3. \A f, key : Written(f, key)' = Written(f, key)
  BY DEF Written, Lent
<1>4. Documents' = Documents
  BY <1>2 DEF Documents
<1>5. /\ \A key, i : SpeakersFrom(key, i)' = SpeakersFrom(key, i)
      /\ \A key : Speakers(key)' = Speakers(key)
      /\ \A j : ReadableTo(j)' = ReadableTo(j)
  BY <1>1, <1>3 DEF SpeakersFrom, Speakers, ReadableTo
<1> QED
  BY <1>1, <1>2, <1>3, <1>4, <1>5

\* Loading begins with the file that was asked for.
LEMMA InitIInv == Init => IInv
<1> SUFFICES ASSUME Init PROVE IInv
  OBVIOUS
<1> USE DEF Init
<1>1. Len(<<>>) = 0 /\ <<>> \in Seq(Documents) /\ DOMAIN << >> = {}
  OBVIOUS
<1>2. Types
  BY <1>1, RootIsAFile, Depth DEF Types, IsConfig, Phases
<1>3. Waiting
  BY <1>1 DEF Waiting
<1>4. Reached
  BY <1>1, LineUnfolds, Depth DEF Reached
<1> QED
  BY <1>2, <1>3, <1>4 DEF IInv, Merged, Loaded, RefusedForCause

\* The documents that wait, after one more was read or one was taken.
LEMMA Queue ==
    ASSUME NEW D, NEW s \in Seq(D)
    PROVE  /\ Len(s) \in Nat
           /\ \A x \in D : /\ Append(s, x) \in Seq(D) /\ Len(Append(s, x)) = Len(s) + 1
                           /\ \A j \in 1..Len(s) : Append(s, x)[j] = s[j]
                           /\ Append(s, x)[Len(s) + 1] = x
           /\ s # <<>> =>
                  /\ Len(s) >= 1 /\ Last(s) = s[Len(s)] /\ Last(s) \in D
                  /\ Front(s) \in Seq(D) /\ Len(Front(s)) = Len(s) - 1
                  /\ \A j \in 1..(Len(s) - 1) : Front(s)[j] = s[j]
<1>1. Len(s) \in Nat
  BY LenProperties
<1>2. ASSUME NEW x \in D
      PROVE  /\ Append(s, x) \in Seq(D) /\ Len(Append(s, x)) = Len(s) + 1
             /\ \A j \in 1..Len(s) : Append(s, x)[j] = s[j]
             /\ Append(s, x)[Len(s) + 1] = x
  BY AppendProperties
<1>3. ASSUME s # <<>>
      PROVE  /\ Len(s) >= 1 /\ Last(s) = s[Len(s)] /\ Last(s) \in D
             /\ Front(s) \in Seq(D) /\ Len(Front(s)) = Len(s) - 1
             /\ \A j \in 1..(Len(s) - 1) : Front(s)[j] = s[j]
  <2>1. Len(s) # 0 /\ Len(s) >= 1
    BY <1>1, <1>3, EmptySeq
  <2>2. Last(s) = s[Len(s)] /\ Last(s) \in D
    BY <1>1, <2>1, ElementOfSeq DEF Last
  <2>3. \A j \in 1..(Len(s) - 1) : s[j] \in D
    BY <1>1, ElementOfSeq
  <2> DEFINE t == SubSeq(s, 1, Len(s) - 1)
  <2>4. /\ t \in Seq(D)
        /\ Len(t) = IF 1 <= Len(s) - 1 THEN (Len(s) - 1) - 1 + 1 ELSE 0
        /\ \A j \in 1..((Len(s) - 1) - 1 + 1) : t[j] = s[1 + j - 1]
    BY <1>1, <2>3, SubSeqProperties
  <2>5. Front(s) = t
    BY DEF Front
  <2> HIDE DEF t
  <2>6. Len(t) = Len(s) - 1
    <3>1. CASE Len(s) = 1
      BY <2>4, <3>1
    <3>2. CASE Len(s) # 1
      <4>1. 1 <= Len(s) - 1
        <5>1. \A l \in Nat : l >= 1 /\ l # 1 => 1 <= l - 1
          OBVIOUS
        <5> QED
          BY <1>1, <2>1, <3>2, <5>1
      <4>2. Len(t) = (Len(s) - 1) - 1 + 1
        BY <2>4, <4>1
      <4> QED
        BY <1>1, <4>2
    <3> QED
      BY <3>1, <3>2
  <2>7. ASSUME NEW j \in 1..(Len(s) - 1)
        PROVE  t[j] = s[j]
    <3>1. j \in 1..((Len(s) - 1) - 1 + 1) /\ 1 + j - 1 = j
      BY <1>1
    <3> QED
      BY <2>4, <3>1
  <2> QED
    BY <2>1, <2>2, <2>4, <2>5, <2>6, <2>7
<1> QED
  BY <1>1, <1>2, <1>3

\* A document is read where the line has come to.
LEMMA ReadStep == IInv /\ Read => IInv'
<1> SUFFICES ASSUME IInv, Read
             PROVE  IInv'
  OBVIOUS
<1>1. /\ Types /\ Waiting /\ Reached
      /\ phase = "read" /\ disk[at].status = "ok" /\ phase' = "resolve"
      /\ docs' = Append(docs, Unwrap(at))
      /\ UNCHANGED <<disk, at, data, unresolved, failure>>
  BY DEF IInv, Read
<1>2. /\ Line' = Line /\ Documents' = Documents /\ (\A f : Unwrap(f)' = Unwrap(f))
      /\ \A j : ReadableTo(j)' = ReadableTo(j)
  BY <1>1, SameDisk
<1>3. /\ Len(docs) <= MaxDepth /\ at = Line[Len(docs)] /\ at \in Files
      /\ \A j \in 0..(Len(docs) - 1) : ReadableTo(j)
  BY <1>1 DEF Reached, Types
<1>4. /\ Len(docs) \in Nat /\ docs' \in Seq(Documents) /\ Len(docs') = Len(docs) + 1
      /\ \A j \in 1..Len(docs) : docs'[j] = docs[j]
      /\ docs'[Len(docs) + 1] = Unwrap(at)
  <2>1. docs \in Seq(Documents) /\ Unwrap(at) \in Documents
    BY <1>1 DEF Types, Documents
  <2> QED
    BY <1>1, <2>1, Queue
<1>5. Types'
  BY <1>1, <1>2, <1>3, <1>4, Depth DEF Types, Phases, IsConfig
<1>6. Waiting'
  <2> SUFFICES ASSUME NEW j \in 1..(Len(docs) + 1)
               PROVE  docs'[j] = Unwrap(Line[j - 1])
    BY <1>2, <1>4 DEF Waiting
  <2>1. CASE j \in 1..Len(docs)
    BY <1>1, <1>4, <2>1 DEF Waiting
  <2>2. CASE j = Len(docs) + 1
    <3>1. j - 1 = Len(docs)
      BY <1>4, <2>2
    <3> QED
      BY <1>3, <1>4, <2>2, <3>1
  <2> QED
    BY <1>4, <2>1, <2>2
<1>7. ReadableTo(Len(docs))
  <2>1. Line[Len(docs)] # Null /\ disk[Line[Len(docs)]].status = "ok"
    BY <1>1, <1>3, NullIsApart
  <2>2. ASSUME NEW j \in 0..Len(docs)
        PROVE  Line[j] # Null /\ disk[Line[j]].status = "ok"
    <3>1. CASE j = Len(docs)
      BY <2>1, <3>1
    <3>2. CASE j # Len(docs)
      <4>1. j \in 0..(Len(docs) - 1) /\ j \in 0..j
        BY <1>4, <3>2
      <4> QED
        BY <1>3, <4>1 DEF ReadableTo
    <3> QED
      BY <3>1, <3>2
  <2> QED
    BY <2>2 DEF ReadableTo
<1>8. Reached'
  <2>1. Len(docs') - 1 = Len(docs) /\ Len(docs') >= 1
    BY <1>4
  <2> QED
    BY <1>1, <1>2, <1>3, <1>7, <2>1 DEF Reached
<1> QED
  BY <1>1, <1>5, <1>6, <1>8 DEF IInv, Merged, Loaded, RefusedForCause

\* The line goes on, or is too long.
LEMMA FollowStep == IInv /\ (Follow \/ TooDeep) => IInv'
<1> SUFFICES ASSUME IInv, Follow \/ TooDeep
             PROVE  IInv'
  OBVIOUS
<1>1. /\ Types /\ Waiting /\ Reached /\ phase = "resolve" /\ disk[at].extends # Null
      /\ UNCHANGED <<disk, docs, data, unresolved>>
  BY DEF IInv, Follow, TooDeep, Error, Parent
<1>2. /\ Line' = Line /\ Documents' = Documents /\ (\A f : Unwrap(f)' = Unwrap(f))
      /\ \A j : ReadableTo(j)' = ReadableTo(j)
  BY <1>1, SameDisk
<1>3. /\ Len(docs) >= 1 /\ at = Line[Len(docs) - 1] /\ ReadableTo(Len(docs) - 1)
      /\ at \in Files /\ Len(docs) \in Nat /\ Len(docs) <= MaxDepth + 1
  BY <1>1, LenProperties DEF Reached, Types
<1>4. Line[Len(docs)] = disk[at].extends
  <2>1. Len(docs) - 1 \in 0..MaxDepth /\ (Len(docs) - 1) + 1 = Len(docs)
    BY <1>3, Depth
  <2>2. at # Null
    BY <1>3, NullIsApart
  <2> QED
    BY <1>3, <2>1, <2>2, LineUnfolds
<1>5. disk[at].extends \in Files
  BY <1>1, <1>3, CasesAreDisks DEF Types, IsDocument
<1>6. Waiting'
  BY <1>1, <1>2 DEF Waiting
<1>7. CASE Follow
  <2>1. /\ ~(Len(docs) > MaxDepth) /\ at' = disk[at].extends /\ phase' = "read"
        /\ UNCHANGED failure
    BY <1>7 DEF Follow, AtLimit, Parent
  <2>2. Types'
    BY <1>1, <1>2, <1>5, <2>1 DEF Types, Phases, IsConfig
  <2>3. \A j \in 0..(Len(docs) - 1) : ReadableTo(j)
    <3>1. \A j \in 0..(Len(docs) - 1) : \A i \in 0..j : i \in 0..(Len(docs) - 1)
      BY <1>3
    <3> QED
      BY <1>3, <3>1 DEF ReadableTo
  <2>4. Reached'
    BY <1>1, <1>2, <1>3, <1>4, <2>1, <2>3, Depth DEF Reached
  <2> QED
    BY <1>6, <2>1, <2>2, <2>4 DEF IInv, Merged, Loaded, RefusedForCause
<1>8. CASE TooDeep
  <2>1. /\ Len(docs) > MaxDepth /\ at' = at /\ phase' = "error"
        /\ failure' = [is |-> "deep", file |-> at]
    BY <1>8 DEF TooDeep, AtLimit, Error
  <2>2. Types'
    BY <1>1, <1>2, <1>3, <2>1 DEF Types, Phases, IsConfig
  <2>3. Len(docs) = MaxDepth + 1 /\ Len(docs) - 1 = MaxDepth
    BY <1>3, <2>1, Depth
  <2>4. failure'.is = "deep" /\ ReadableTo(MaxDepth) /\ Line[MaxDepth + 1] # Null
    BY <1>1, <1>3, <1>4, <2>1, <2>3
  <2> QED
    BY <1>2, <1>6, <2>1, <2>2, <2>4 DEF IInv, Reached, Merged, Loaded, RefusedForCause
<1> QED
  BY <1>7, <1>8

\* A file that cannot be read is the one the line has come to.
LEMMA FailStep == IInv /\ ReadFails => IInv'
<1> SUFFICES ASSUME IInv, ReadFails
             PROVE  IInv'
  OBVIOUS
<1>1. /\ Types /\ Waiting /\ Reached /\ phase = "read" /\ disk[at].status # "ok"
      /\ failure' = [is |-> disk[at].status, file |-> at] /\ phase' = "error"
      /\ UNCHANGED <<disk, at, docs, data, unresolved>>
  BY DEF IInv, ReadFails, Error
<1>2. /\ Line' = Line /\ Documents' = Documents /\ (\A f : Unwrap(f)' = Unwrap(f))
      /\ \A j : ReadableTo(j)' = ReadableTo(j)
  BY <1>1, SameDisk
<1>3. /\ at \in Files /\ Len(docs) \in Nat /\ Len(docs) <= MaxDepth
      /\ at = Line[Len(docs)] /\ \A j \in 0..(Len(docs) - 1) : ReadableTo(j)
  BY <1>1, LenProperties DEF Types, Reached
<1>4. disk[at].status \in {"missing", "invalid"}
  BY <1>1, <1>3, CasesAreDisks DEF Types, IsDocument
<1>5. Types'
  BY <1>1, <1>2, <1>4 DEF Types, Phases, IsConfig
<1>6. Waiting'
  BY <1>1, <1>2 DEF Waiting
<1>7. /\ failure'.is # "deep"
      /\ Len(docs) \in 0..MaxDepth
      /\ Len(docs) > 0 => ReadableTo(Len(docs) - 1)
      /\ failure' = [is |-> disk[Line[Len(docs)]].status, file |-> Line[Len(docs)]]
  <2>1. Len(docs) > 0 => Len(docs) - 1 \in 0..(Len(docs) - 1)
    BY <1>3
  <2> QED
    BY <1>1, <1>3, <1>4, <2>1
<1>8. RefusedForCause'
  BY <1>1, <1>2, <1>7 DEF RefusedForCause
<1> QED
  BY <1>1, <1>5, <1>6, <1>8 DEF IInv, Reached, Merged, Loaded

\* What is read last is what the others are merged onto.
LEMMA TopStep == IInv /\ Top => IInv'
<1> SUFFICES ASSUME IInv, Top
             PROVE  IInv'
  OBVIOUS
<1>1. /\ Types /\ Waiting /\ Reached /\ phase = "resolve" /\ disk[at].extends = Null
      /\ data' = Last(docs) /\ docs' = Front(docs) /\ phase' = "merge"
      /\ UNCHANGED <<disk, at, unresolved, failure>>
  BY DEF IInv, Top, Parent
<1>2. /\ Line' = Line /\ Documents' = Documents /\ (\A f : Unwrap(f)' = Unwrap(f))
      /\ (\A j : ReadableTo(j)' = ReadableTo(j))
      /\ (\A f, key : Written(f, key)' = Written(f, key))
      /\ (\A key, i : SpeakersFrom(key, i)' = SpeakersFrom(key, i))
  BY <1>1, SameDisk
<1>3. /\ Len(docs) >= 1 /\ at = Line[Len(docs) - 1] /\ ReadableTo(Len(docs) - 1)
      /\ at \in Files /\ Len(docs) \in Nat /\ Len(docs) <= MaxDepth + 1
      /\ docs \in Seq(Documents) /\ docs # <<>>
  BY <1>1, LenProperties, EmptySeq DEF Reached, Types
<1> DEFINE i == Len(docs) - 1
<1>4. i \in 0..MaxDepth /\ i + 1 = Len(docs) /\ i <= MaxDepth + 1
  BY <1>3, Depth
<1>5. Line[i] \in Files /\ ReadableTo(i) /\ Line[i + 1] = Null
  <2>1. at # Null /\ Line[i] = at
    BY <1>3, NullIsApart
  <2> HIDE DEF i
  <2> QED
    BY <1>1, <1>3, <1>4, <2>1, LineUnfolds DEF i
<1>6. /\ data' = Unwrap(Line[i]) /\ docs' \in Seq(Documents) /\ Len(docs') = i
      /\ \A j \in 1..i : docs'[j] = docs[j]
  <2>1. /\ Last(docs) = docs[Len(docs)] /\ Front(docs) \in Seq(Documents)
        /\ Len(Front(docs)) = Len(docs) - 1
        /\ \A j \in 1..(Len(docs) - 1) : Front(docs)[j] = docs[j]
    BY <1>3, Queue
  <2>2. docs[Len(docs)] = Unwrap(Line[Len(docs) - 1])
    BY <1>1, <1>3 DEF Waiting
  <2> QED
    BY <1>1, <2>1, <2>2
<1> HIDE DEF i
<1>7. Types'
  <2>1. IsConfig(Unwrap(Line[i]))
    BY <1>1, <1>5, UnwrapSays DEF Types
  <2>2. IsConfig(data)'
    BY <1>6, <2>1 DEF IsConfig
  <2> QED
    BY <1>1, <1>2, <1>4, <1>6, <2>2 DEF Types, Phases
<1>8. Waiting'
  <2>1. \A j \in 1..i : j \in 1..Len(docs)
    BY <1>4
  <2> QED
    BY <1>1, <1>2, <1>6, <2>1 DEF Waiting
<1>9. Reached'
  BY <1>1, <1>2, <1>4, <1>5, <1>6 DEF Reached
<1>10. Merged'
  <2>1. Says(Unwrap(Line[i]), i)
    BY <1>1, <1>4, <1>5, TopSays DEF Types
  <2> QED
    BY <1>2, <1>6, <2>1 DEF Merged, Says, InConfig, Said
<1> QED
  BY <1>1, <1>7, <1>8, <1>9, <1>10 DEF IInv, Loaded, RefusedForCause

\* The next document of the line goes on top of what was merged.
LEMMA MergeStep == IInv /\ Merge => IInv'
<1> SUFFICES ASSUME IInv, Merge
             PROVE  IInv'
  OBVIOUS
<1>1. /\ Types /\ Waiting /\ Reached /\ Merged /\ phase = "merge" /\ docs # <<>>
      /\ data' = DeepMerge(data, Last(docs)) /\ docs' = Front(docs)
      /\ UNCHANGED <<disk, at, unresolved, failure, phase>>
  BY DEF IInv, Merge
<1>2. /\ Line' = Line /\ Documents' = Documents /\ (\A f : Unwrap(f)' = Unwrap(f))
      /\ (\A j : ReadableTo(j)' = ReadableTo(j))
      /\ (\A f, key : Written(f, key)' = Written(f, key))
      /\ (\A key, j : SpeakersFrom(key, j)' = SpeakersFrom(key, j))
  BY <1>1, SameDisk
<1>3. PICK top \in 0..MaxDepth :
          Len(docs) <= top /\ ReadableTo(top) /\ Line[top + 1] = Null
  BY <1>1 DEF Reached
<1> DEFINE i == Len(docs) - 1
<1>4. /\ docs \in Seq(Documents) /\ Len(docs) \in Nat /\ Len(docs) >= 1
      /\ i \in 0..MaxDepth /\ i + 1 = Len(docs) /\ i <= top /\ i \in 0..top
  BY <1>1, <1>3, Queue, Depth DEF Types
<1>5. Line[i] \in Files
  <2>1. Line[i] # Null
    BY <1>3, <1>4 DEF ReadableTo
  <2>2. i \in 0..(MaxDepth + 1) /\ disk \in Cases
    BY <1>1, <1>4, Depth DEF Types
  <2> QED
    BY <2>1, <2>2, LineTyped
<1>6. /\ Last(docs) = Unwrap(Line[i]) /\ docs' \in Seq(Documents) /\ Len(docs') = i
      /\ \A j \in 1..i : docs'[j] = docs[j]
  <2>1. /\ Last(docs) = docs[Len(docs)] /\ Front(docs) \in Seq(Documents)
        /\ Len(Front(docs)) = Len(docs) - 1
        /\ \A j \in 1..(Len(docs) - 1) : Front(docs)[j] = docs[j]
    BY <1>1, <1>4, Queue
  <2>2. docs[Len(docs)] = Unwrap(Line[Len(docs) - 1])
    BY <1>1, <1>4 DEF Waiting
  <2> QED
    BY <1>1, <2>1, <2>2
<1> HIDE DEF i
<1>7. data' = DeepMerge(data, Unwrap(Line[i]))
  BY <1>1, <1>6
<1>8. Types'
  <2>1. IsConfig(DeepMerge(data, Unwrap(Line[i])))
    BY <1>1, <1>5, UnwrapSays, MergeSays DEF Types
  <2>2. IsConfig(data)'
    BY <1>7, <2>1 DEF IsConfig
  <2>3. i <= MaxDepth + 1
    BY <1>4, Depth
  <2> QED
    BY <1>1, <1>2, <1>6, <2>2, <2>3 DEF Types, Phases
<1>9. Waiting'
  <2>1. \A j \in 1..i : j \in 1..Len(docs)
    BY <1>4
  <2> QED
    BY <1>1, <1>2, <1>6, <2>1 DEF Waiting
<1>10. Reached'
  BY <1>1, <1>2, <1>3, <1>4, <1>6 DEF Reached
<1>11. Merged'
  <2>1. Says(data, i + 1)
    BY <1>1, <1>4 DEF Merged
  <2>2. Says(DeepMerge(data, Unwrap(Line[i])), i)
    BY <1>1, <1>4, <1>5, <2>1, MergedSays DEF Types
  <2> QED
    BY <1>2, <1>6, <1>7, <2>2 DEF Merged, Says, InConfig, Said
<1> QED
  BY <1>1, <1>8, <1>9, <1>10, <1>11 DEF IInv, Loaded, RefusedForCause

\* Expanding the variables leaves every key where it is, and every value but
\* those of a variable that is set.
LEMMA InterpolateStep == IInv /\ Interpolate => IInv'
<1> SUFFICES ASSUME IInv, Interpolate
             PROVE  IInv'
  OBVIOUS
<1>1. /\ Types /\ Waiting /\ Reached /\ Merged /\ phase = "merge" /\ docs = <<>>
      /\ unresolved' = Unset(data)
      /\ data' = [s \in DOMAIN data |-> [k \in DOMAIN data[s] |-> Expand(data[s][k])]]
      /\ phase' = "validate"
      /\ UNCHANGED <<disk, at, docs, failure>>
  BY DEF IInv, Interpolate
<1>2. /\ Line' = Line /\ Documents' = Documents /\ (\A f : Unwrap(f)' = Unwrap(f))
      /\ (\A j : ReadableTo(j)' = ReadableTo(j))
      /\ (\A f, key : Written(f, key)' = Written(f, key))
      /\ (\A key : Speakers(key)' = Speakers(key))
  BY <1>1, SameDisk
<1>3. Says(data, 0)
  <2>1. Len(docs) = 0
    BY <1>1
  <2> QED
    BY <1>1, <2>1 DEF Merged
<1>4. \A value \in [is : Kinds, by : Files] :
          /\ Expand(value) \in [is : Kinds, by : Files]
          /\ Expand(value).by = value.by
          /\ Expand(value).is = IF value.is = "set" THEN "plain" ELSE value.is
  BY DEF Expand, Kinds
<1>5. /\ DOMAIN data' = DOMAIN data
      /\ \A s \in DOMAIN data : DOMAIN data'[s] = DOMAIN data[s]
      /\ \A s \in DOMAIN data : \A k \in DOMAIN data[s] : data'[s][k] = Expand(data[s][k])
  BY <1>1
<1>6. IsConfig(data)
  BY <1>1 DEF Types
<1>7. Types'
  <2>1. IsConfig(data)'
    BY <1>4, <1>5, <1>6 DEF IsConfig
  <2>2. unresolved' \subseteq Keys
    BY <1>1 DEF Unset
  <2> QED
    BY <1>1, <1>2, <2>1, <2>2 DEF Types, Phases
<1>8. Waiting'
  BY <1>1, <1>2 DEF Waiting
<1>9. Reached'
  BY <1>1, <1>2 DEF Reached
<1>10. ASSUME NEW key \in Keys
       PROVE  /\ key \in unresolved' <=>
                     Speakers(key) # {} /\ Written(Line[Min(Speakers(key))], key) = "unset"
              /\ Speakers(key) = {} => ~InConfig(data', key)
              /\ Speakers(key) # {} =>
                     LET m == Min(Speakers(key))
                         kind == Written(Line[m], key)
                     IN /\ InConfig(data', key)
                        /\ data'[SectionOf(key)][key].by = Line[m]
                        /\ data'[SectionOf(key)][key].is =
                               CASE kind = "set" -> "plain"
                                 [] kind = "null" /\ key \in Lists -> "empty"
                                 [] OTHER -> kind
  <2> DEFINE s == SectionOf(key)
             m == Min(Speakers(key))
             kind == Written(Line[m], key)
  <2>1. SpeakersFrom(key, 0) = Speakers(key)
    BY DEF SpeakersFrom, Speakers
  <2>2. /\ key \in unresolved' <=> InConfig(data, key) /\ data[s][key].is = "unset"
        /\ InConfig(data', key) <=> InConfig(data, key)
        /\ InConfig(data, key) =>
               /\ data'[s][key] = Expand(data[s][key])
               /\ data[s][key] \in [is : Kinds, by : Files]
    BY <1>1, <1>5, <1>6 DEF Unset, InConfig, IsConfig
  <2>3. CASE Speakers(key) = {}
    BY <1>3, <2>1, <2>2, <2>3 DEF Says
  <2>4. CASE Speakers(key) # {}
    <3>1. InConfig(data, key) /\ data[s][key] = Value(Defaulted(key, kind), Line[m])
      BY <1>3, <2>1, <2>4 DEF Says, Said
    <3> HIDE DEF s, m, kind
    <3>2. data[s][key].is = Defaulted(key, kind) /\ data[s][key].by = Line[m]
      BY <3>1 DEF Value
    <3>3. /\ data'[s][key].by = Line[m]
          /\ data'[s][key].is = IF Defaulted(key, kind) = "set" THEN "plain"
                                ELSE Defaulted(key, kind)
      BY <1>4, <2>2, <3>1, <3>2
    <3>4. (Defaulted(key, kind) = "unset") <=> (kind = "unset")
      BY DEF Defaulted
    <3>5. (IF Defaulted(key, kind) = "set" THEN "plain" ELSE Defaulted(key, kind))
             = CASE kind = "set" -> "plain"
                 [] kind = "null" /\ key \in Lists -> "empty"
                 [] OTHER -> kind
      BY DEF Defaulted
    <3> QED
      BY <2>2, <2>4, <3>1, <3>2, <3>3, <3>4, <3>5 DEF s, m, kind
  <2> QED
    BY <2>3, <2>4
<1>11. Loaded'
  <2>1. unresolved' = {key \in Keys :
            Speakers(key) # {} /\ Written(Line[Min(Speakers(key))], key) = "unset"}
    <3>1. unresolved' \subseteq Keys
      BY <1>1 DEF Unset
    <3> QED
      BY <1>10, <3>1
  <2>2. ASSUME NEW key \in Keys
        PROVE  IF Speakers(key) = {} THEN ~Has(key)'
               ELSE IsWrittenAt(key, Min(Speakers(key)))'
    BY <1>2, <1>10 DEF Has, IsWrittenAt, InConfig
  <2> QED
    BY <1>2, <2>1, <2>2 DEF Loaded
<1>12. RefusedForCause'
  BY <1>1, <1>9 DEF Reached, RefusedForCause
<1> QED
  BY <1>1, <1>7, <1>8, <1>9, <1>11, <1>12 DEF IInv, Merged

\* Validation looks at the config and changes nothing.
LEMMA ValidateStep == IInv /\ (Validate \/ UNCHANGED vars) => IInv'
<1> SUFFICES ASSUME IInv, Validate \/ UNCHANGED vars
             PROVE  IInv'
  OBVIOUS
<1>1. /\ UNCHANGED <<disk, at, docs, data, unresolved, failure>>
      /\ phase' = phase \/ (phase = "validate" /\ phase' \in {"done", "refused"})
  BY DEF Validate, vars
<1>2. /\ Line' = Line /\ Documents' = Documents /\ (\A f : Unwrap(f)' = Unwrap(f))
      /\ (\A j : ReadableTo(j)' = ReadableTo(j))
      /\ (\A f, key : Written(f, key)' = Written(f, key))
      /\ (\A key : Speakers(key)' = Speakers(key))
      /\ (\A key, i : SpeakersFrom(key, i)' = SpeakersFrom(key, i))
  BY <1>1, SameDisk
<1>3. Types' /\ Waiting'
  BY <1>1, <1>2 DEF IInv, Types, Phases, IsConfig, Waiting
<1>4. Reached'
  BY <1>1, <1>2 DEF IInv, Reached
<1>5. Merged'
  BY <1>1, <1>2 DEF IInv, Merged, Says, InConfig, Said
<1>6. Loaded'
  BY <1>1, <1>2 DEF IInv, Loaded, Has, IsWrittenAt
<1>7. RefusedForCause'
  BY <1>1, <1>2 DEF IInv, RefusedForCause
<1> QED
  BY <1>3, <1>4, <1>5, <1>6, <1>7 DEF IInv

\* The invariant holds in every state of every load.
LEMMA Inductive == Spec => []IInv
<1>1. IInv /\ [Next]_vars => IInv'
  BY ReadStep, FollowStep, FailStep, TopStep, MergeStep, InterpolateStep, ValidateStep DEF Next
<1> QED
  BY <1>1, InitIInv, PTL DEF Spec

-----------------------------------------------------------------------------
(***************************************************************************)
(* What it says of the loads.                                              *)
(***************************************************************************)
\* Every variable keeps its type, and at most one document more than the limit
\* is ever read.
THEOREM TypeCorrect == Spec => []TypeOK
<1>1. IInv => TypeOK
  BY CasesAreDisks DEF IInv, Types, IsConfig, TypeOK, Phases
<1> QED
  BY <1>1, Inductive, PTL

\* A loaded config has each key from the nearest document that mentions it.
THEOREM NearestDocumentWins == Spec => []NearestWins
<1>1. IInv => NearestWins
  BY DEF IInv, Loaded, NearestWins
<1> QED
  BY <1>1, Inductive, PTL

\* The variables it reports as unset are exactly those of values that count.
THEOREM UnsetReported == Spec => []UnresolvedExact
<1>1. IInv => UnresolvedExact
  BY DEF IInv, Loaded, UnresolvedExact
<1> QED
  BY <1>1, Inductive, PTL

\* A chain is loaded only if all of it is readable and ends within the limit,
\* so never when it loops; and it is refused for what is really wrong with it.
THEOREM RefusalsJustified == Spec => []RefusedForCause
<1>1. IInv => RefusedForCause
  BY DEF IInv
<1> QED
  BY <1>1, Inductive, PTL
=============================================================================
