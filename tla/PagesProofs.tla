------------------------------ MODULE PagesProofs ------------------------------
(***************************************************************************)
(* What the pages show (module MCPages), for any number of instances,      *)
(* events, losses of the connection, keys and files: InstancesAreCurrent   *)
(* and FilesAreApart.                                                      *)
(*                                                                         *)
(* Both pages learn of deletions from the server, so what they were told   *)
(* of is removed (PageInv).  Events arrive in order and an instance is     *)
(* made once, so no news of an instance is on its way after the page was   *)
(* told of its deletion (NewsFirst); only the classic page hears of a      *)
(* deletion from an answer too.  The classic page has nothing in its list  *)
(* before it knows its session, unless it made an instance (Before), and   *)
(* then each name of the index has its object in the list once (Indexed).  *)
(***************************************************************************)
EXTENDS MCPages, SequenceTheorems, FiniteSetTheorems, TLAPS

Objects == [name : Names, hasBuffer : BOOLEAN, term : BOOLEAN, buffer : Seq(Nat), screen : Seq(Nat),
            given : Seq(Nat), early : SUBSET Nat]
Messages == ({"new", "delete"} \X Names) \cup ({"out"} \X Names \X Nat) \cup {<<"end">>, <<"resize">>}

(* The deletions on the wire are of instances that are gone.               *)
Truthful(w, gone) ==
    /\ w \in Seq(Messages)
    /\ \A k \in DOMAIN w : w[k][1] = "delete" => w[k][2] \in gone

PageInv ==
    /\ live \in SUBSET Names /\ removed \in SUBSET Names /\ live \cap removed = {}
    /\ outputs \in Nat /\ told \subseteq removed /\ objects \in Seq(Objects)
    /\ Truthful(wire, removed)

(* News of an instance is on the wire before its deletion, and only while  *)
(* the page was not told of that.                                          *)
NewsFirst(w, known, deleted) ==
    /\ \A k \in DOMAIN w : w[k][1] = "new" => w[k][2] \in known \ deleted
    /\ \A j, k \in DOMAIN w : w[j][1] = "delete" /\ w[k][1] = "new" /\ w[j][2] = w[k][2] => k < j
-----------------------------------------------------------------------------
LEMMA MessageParts ==
  ASSUME NEW m \in Messages
  PROVE  /\ m[1] \in {"new", "delete"} => m[2] \in Names
         /\ m[1] = "out" => m[2] \in Names /\ m[3] \in Nat
BY DEF Messages

LEMMA Endings == <<"end">> \in Messages /\ <<"resize">> \in Messages
BY DEF Messages

(* A message is sent, one is taken, all are lost.                          *)
LEMMA WireSent ==
  ASSUME NEW w, NEW gone, NEW more, gone \subseteq more, Truthful(w, gone),
         NEW m \in Messages, m[1] = "delete" => m[2] \in more
  PROVE  Truthful(w, more) /\ Truthful(Append(w, m), more)
<1>1. w \in Seq(Messages) /\ DOMAIN w = 1..Len(w) /\ Len(w) \in Nat
  BY LenProperties DEF Truthful
<1>2. /\ Append(w, m) \in Seq(Messages) /\ DOMAIN Append(w, m) = 1..(Len(w) + 1)
      /\ \A k \in 1..Len(w) : Append(w, m)[k] = w[k]
      /\ Append(w, m)[Len(w) + 1] = m
  BY <1>1, AppendProperties, LenProperties
<1>3. Truthful(w, more)
  BY DEF Truthful
<1>4. ASSUME NEW k \in DOMAIN Append(w, m), Append(w, m)[k][1] = "delete" PROVE Append(w, m)[k][2] \in more
  <2>1. k \in DOMAIN w \/ k = Len(w) + 1
    BY <1>1, <1>2
  <2> QED
    BY <1>1, <1>2, <1>3, <1>4, <2>1 DEF Truthful
<1> QED
  BY <1>2, <1>3, <1>4 DEF Truthful

LEMMA WireTaken ==
  ASSUME NEW w, NEW gone, Truthful(w, gone), w # <<>>
  PROVE  /\ Truthful(Tail(w), gone) /\ Head(w) \in Messages
         /\ Head(w)[1] = "delete" => Head(w)[2] \in gone
<1>1. w \in Seq(Messages) /\ DOMAIN w = 1..Len(w) /\ Len(w) \in Nat \ {0}
  BY LenProperties, EmptySeq DEF Truthful
<1>2. /\ Tail(w) \in Seq(Messages) /\ Head(w) \in Messages /\ Head(w) = w[1]
      /\ DOMAIN Tail(w) = 1..(Len(w) - 1) /\ \A k \in 1..(Len(w) - 1) : Tail(w)[k] = w[k + 1]
  BY <1>1, HeadTailProperties, LenProperties
<1>3. \A k \in DOMAIN Tail(w) : k + 1 \in DOMAIN w
  BY <1>1, <1>2
<1> QED
  BY <1>1, <1>2, <1>3 DEF Truthful

LEMMA WireLost == \A gone : Truthful(<<>>, gone)
BY DEF Truthful

LEMMA NewsSent ==
  ASSUME NEW w \in Seq(Messages), NEW known, NEW deleted, NEW m, NewsFirst(w, known, deleted),
         NEW more, known \subseteq more,
         \/ m[1] \notin {"new", "delete"}
         \/ m[1] = "delete"
         \/ m[1] = "new" /\ m[2] \in more \ deleted /\ \A j \in DOMAIN w : w[j][1] = "delete" => w[j][2] # m[2]
  PROVE  NewsFirst(w, more, deleted) /\ NewsFirst(Append(w, m), more, deleted)
<1>1. DOMAIN w = 1..Len(w) /\ Len(w) \in Nat
  BY LenProperties
<1>2. /\ DOMAIN Append(w, m) = 1..(Len(w) + 1)
      /\ \A k \in 1..Len(w) : Append(w, m)[k] = w[k]
      /\ Append(w, m)[Len(w) + 1] = m
  BY <1>1
<1> DEFINE v == Append(w, m)
<1>3. \A k \in DOMAIN v : (k \in DOMAIN w /\ v[k] = w[k]) \/ (k = Len(w) + 1 /\ v[k] = m)
  BY <1>1, <1>2
<1> HIDE DEF v
<1>4. ASSUME NEW k \in DOMAIN v, v[k][1] = "new" PROVE v[k][2] \in more \ deleted
  BY <1>3, <1>4 DEF NewsFirst
<1>5. ASSUME NEW j \in DOMAIN v, NEW k \in DOMAIN v, v[j][1] = "delete", v[k][1] = "new", v[j][2] = v[k][2]
      PROVE  k < j
  <2>1. CASE k \in DOMAIN w /\ v[k] = w[k] /\ j \in DOMAIN w /\ v[j] = w[j]
    BY <1>5, <2>1 DEF NewsFirst
  <2>2. CASE k = Len(w) + 1 /\ v[k] = m
    BY <1>3, <1>5, <2>2
  <2>3. CASE k \in DOMAIN w /\ j = Len(w) + 1
    BY <1>1, <2>3
  <2> QED
    BY <1>3, <2>1, <2>2, <2>3
<1>6. NewsFirst(v, more, deleted)
  BY <1>4, <1>5 DEF NewsFirst
<1>7. NewsFirst(w, more, deleted)
  BY DEF NewsFirst
<1> QED
  BY <1>6, <1>7 DEF v

LEMMA NewsTaken ==
  ASSUME NEW w \in Seq(Messages), NEW known, NEW deleted, NewsFirst(w, known, deleted), w # <<>>
  PROVE  /\ NewsFirst(Tail(w), known, deleted)
         /\ Head(w)[1] = "new" => Head(w)[2] \in known \ deleted
         /\ Head(w)[1] = "delete" => NewsFirst(Tail(w), known, deleted \cup {Head(w)[2]})
<1>1. DOMAIN w = 1..Len(w) /\ Len(w) \in Nat \ {0} /\ Head(w) = w[1]
  BY LenProperties, EmptySeq
<1>2. DOMAIN Tail(w) = 1..(Len(w) - 1) /\ \A k \in 1..(Len(w) - 1) : Tail(w)[k] = w[k + 1]
  BY <1>1
<1> DEFINE v == Tail(w)
<1>3. \A k \in DOMAIN v : k + 1 \in DOMAIN w /\ v[k] = w[k + 1] /\ k \in Nat \ {0}
  BY <1>1, <1>2
<1> HIDE DEF v
<1>4. NewsFirst(v, known, deleted)
  <2>1. ASSUME NEW j \in DOMAIN v, NEW k \in DOMAIN v, v[j][1] = "delete", v[k][1] = "new", v[j][2] = v[k][2]
        PROVE  k < j
    <3>1. k + 1 < j + 1
      BY <1>3, <2>1 DEF NewsFirst
    <3> QED
      BY <1>3, <3>1
  <2>2. \A k \in DOMAIN v : v[k][1] = "new" => v[k][2] \in known \ deleted
    BY <1>3 DEF NewsFirst
  <2> QED
    BY <2>1, <2>2 DEF NewsFirst
<1>5. Head(w)[1] = "new" => Head(w)[2] \in known \ deleted
  BY <1>1 DEF NewsFirst
<1>6. ASSUME Head(w)[1] = "delete", NEW k \in DOMAIN v, v[k][1] = "new" PROVE v[k][2] # Head(w)[2]
  <2>1. SUFFICES ASSUME v[k][2] = Head(w)[2] PROVE FALSE
    OBVIOUS
  <2>2. 1 \in DOMAIN w /\ k + 1 \in DOMAIN w /\ w[k + 1] = v[k]
    BY <1>1, <1>3
  <2>3. k + 1 < 1
    BY <1>1, <1>6, <2>1, <2>2 DEF NewsFirst
  <2> QED
    BY <1>3, <2>3
<1> QED
  BY <1>4, <1>5, <1>6 DEF v, NewsFirst

-----------------------------------------------------------------------------
(* Objects keep their names whatever they are given.                       *)
LEMMA FreshObject ==
  ASSUME NEW name \in Names, NEW has \in BOOLEAN
  PROVE  NewObject(name, has) \in Objects /\ NewObject(name, has).name = name
<1>1. <<>> \in Seq(Nat)
  BY EmptySeq
<1> QED
  BY <1>1 DEF NewObject, Objects

LEMMA HeardObject ==
  ASSUME NEW x \in Objects, NEW piece \in Nat
  PROVE  Heard(x, piece) \in Objects /\ Heard(x, piece).name = x.name
<1>1. /\ x.name \in Names /\ x.given \in Seq(Nat) /\ x.screen \in Seq(Nat) /\ x.buffer \in Seq(Nat)
      /\ x.early \in SUBSET Nat
  BY DEF Objects
<1>2. /\ Append(x.given, piece) \in Seq(Nat) /\ Append(x.screen, piece) \in Seq(Nat)
      /\ (IF x.hasBuffer THEN x.buffer ELSE <<0>>) \in Seq(Nat)
  BY <1>1
<1>3. (IF x.hasBuffer THEN x.buffer ELSE <<0>>) \o <<piece>> \in Seq(Nat)
  BY <1>2
<1>4. (IF x.buffer = <<>> THEN x.early ELSE x.early \cup {piece}) \in SUBSET Nat
  BY <1>1
<1> DEFINE a == Append(x.given, piece)
           s == Append(x.screen, piece)
           b == (IF x.hasBuffer THEN x.buffer ELSE <<0>>) \o <<piece>>
           e == IF x.buffer = <<>> THEN x.early ELSE x.early \cup {piece}
<1>5. a \in Seq(Nat) /\ s \in Seq(Nat) /\ b \in Seq(Nat) /\ e \in SUBSET Nat
  BY <1>2, <1>3, <1>4
<1>6. Heard(x, piece) = IF x.term THEN [x EXCEPT !.given = a, !.screen = s, !.early = e]
                        ELSE [x EXCEPT !.given = a, !.hasBuffer = TRUE, !.buffer = b]
  BY DEF Heard
<1> HIDE DEF a, s, b, e
<1>7. /\ [x EXCEPT !.given = a, !.screen = s, !.early = e] \in Objects
      /\ [x EXCEPT !.given = a, !.screen = s, !.early = e].name = x.name
  BY <1>5 DEF Objects
<1>8. /\ [x EXCEPT !.given = a, !.hasBuffer = TRUE, !.buffer = b] \in Objects
      /\ [x EXCEPT !.given = a, !.hasBuffer = TRUE, !.buffer = b].name = x.name
  BY <1>5 DEF Objects
<1> QED
  BY <1>6, <1>7, <1>8

LEMMA FlushedObject ==
  ASSUME NEW x \in Objects
  PROVE  /\ Flushed(x) \in Objects /\ Flushed(x).name = x.name
         /\ [x EXCEPT !.term = TRUE] \in Objects /\ [x EXCEPT !.term = TRUE].name = x.name
<1>1. x.screen \o x.buffer \in Seq(Nat) /\ <<>> \in Seq(Nat)
  BY EmptySeq DEF Objects
<1> DEFINE s == x.screen \o x.buffer
<1>2. Flushed(x) = [x EXCEPT !.screen = s, !.buffer = <<>>]
  BY DEF Flushed
<1> HIDE DEF s
<1>3. [x EXCEPT !.screen = s, !.buffer = <<>>] \in Objects /\ [x EXCEPT !.screen = s, !.buffer = <<>>].name = x.name
  BY <1>1 DEF Objects, s
<1> QED
  BY <1>2, <1>3 DEF Objects

(* No object is added and none changes its name.                           *)
Renames == /\ objects' \in Seq(Objects) /\ Len(objects') = Len(objects)
           /\ \A o \in 1..Len(objects) : objects'[o].name = objects[o].name
LEMMA OneObject ==
  ASSUME objects \in Seq(Objects), NEW o \in 1..Len(objects), NEW x \in Objects, x.name = objects[o].name,
         objects' = [objects EXCEPT ![o] = x]
  PROVE  Renames
BY DEF Renames

LEMMA SameObjects == objects \in Seq(Objects) /\ UNCHANGED objects => Renames
BY DEF Renames

LEMMA OneMore ==
  ASSUME objects \in Seq(Objects), NEW x \in Objects, objects' = Append(objects, x)
  PROVE  /\ objects' \in Seq(Objects) /\ Len(objects) \in Nat /\ Len(objects') = Len(objects) + 1
         /\ \A o \in 1..Len(objects) : objects'[o] = objects[o]
         /\ objects'[Len(objects) + 1] = x
BY AppendProperties, LenProperties

-----------------------------------------------------------------------------
(* The editor: ids and names are given once, and the next number is fresh. *)
SampleNames == {<<Files!Samples[k]>> : k \in 1..3}
OpenFiles == [id : Nat \ {0}, name : SampleNames \cup {Files!Untitled(n) : n \in Nat},
              isNew : BOOLEAN, isDirty : BOOLEAN]
(* Files of f are told apart by id and name; c is one of them, or 0.       *)
Apart(f, c, count) ==
    /\ f \in Seq(OpenFiles)
    /\ \A j, k \in DOMAIN f : (f[j].id = f[k].id \/ f[j].name = f[k].name) => j = k
    /\ \A k \in DOMAIN f : f[k].id <= count
    /\ c = 0 <=> f = <<>>
    /\ c # 0 => \E k \in DOMAIN f : f[k].id = c

FilesInv ==
    /\ made \in Nat /\ fileCounter \in Nat
    /\ Apart(openFiles, currentFile, made)
    /\ \A k \in DOMAIN openFiles, n \in Nat : openFiles[k].name = Files!Untitled(n) => n < fileCounter

LEMMA InitFiles == Files!Init => FilesInv
BY EmptySeq DEF Files!Init, FilesInv, Apart

LEMMA UntitledOnce == \A m, n \in Nat : Files!Untitled(m) = Files!Untitled(n) => m = n
BY DEF Files!Untitled

LEMMA SamplesUntitled == \A n \in Nat : Files!Untitled(n) \notin SampleNames
<1>1. ASSUME NEW n \in Nat, NEW x, Files!Untitled(n) = <<x>> PROVE FALSE
  <2>1. Len(Files!Untitled(n)) = 2 /\ Len(<<x>>) = 1
    BY DEF Files!Untitled
  <2> QED
    BY <1>1, <2>1
<1> QED
  BY <1>1 DEF SampleNames

LEMMA CreateHolds == FilesInv /\ Files!createNewFile => FilesInv'
<1> SUFFICES ASSUME FilesInv, Files!createNewFile PROVE FilesInv'
  OBVIOUS
<1> DEFINE x == [id |-> made + 1, name |-> Files!Untitled(fileCounter), isNew |-> TRUE, isDirty |-> FALSE]
<1>1. /\ made' = made + 1 /\ openFiles' = Append(openFiles, x)
      /\ currentFile' = made + 1 /\ fileCounter' = fileCounter + 1
  BY DEF Files!createNewFile
<1>2. /\ made \in Nat /\ fileCounter \in Nat /\ openFiles \in Seq(OpenFiles)
      /\ DOMAIN openFiles = 1..Len(openFiles) /\ Len(openFiles) \in Nat
      /\ \A k \in DOMAIN openFiles : openFiles[k] \in OpenFiles
  BY LenProperties DEF FilesInv, Apart
<1>3. x \in OpenFiles /\ x.id = made + 1 /\ x.name = Files!Untitled(fileCounter)
  BY <1>2 DEF OpenFiles
<1> HIDE DEF x
<1>4. /\ openFiles' \in Seq(OpenFiles) /\ DOMAIN openFiles' = 1..(Len(openFiles) + 1)
      /\ \A k \in DOMAIN openFiles : openFiles'[k] = openFiles[k]
      /\ openFiles'[Len(openFiles) + 1] = x
  BY <1>1, <1>2, <1>3, AppendProperties, LenProperties
<1>5. \A k \in DOMAIN openFiles : /\ openFiles[k].id \in Nat /\ openFiles[k].id <= made
                                  /\ openFiles[k].name # Files!Untitled(fileCounter)
  BY <1>2 DEF FilesInv, Apart, OpenFiles
<1>6. \A k \in DOMAIN openFiles' : k \in DOMAIN openFiles \/ k = Len(openFiles) + 1
  BY <1>2, <1>4
<1>7. Apart(openFiles', currentFile', made')
  <2>1. ASSUME NEW j \in DOMAIN openFiles', NEW k \in DOMAIN openFiles',
               openFiles'[j].id = openFiles'[k].id \/ openFiles'[j].name = openFiles'[k].name
        PROVE  j = k
    <3>1. CASE j \in DOMAIN openFiles /\ k \in DOMAIN openFiles
      BY <1>4, <2>1, <3>1 DEF FilesInv, Apart
    <3>2. CASE j \in DOMAIN openFiles /\ k = Len(openFiles) + 1
      BY <1>2, <1>3, <1>4, <1>5, <2>1, <3>2
    <3>3. CASE k \in DOMAIN openFiles /\ j = Len(openFiles) + 1
      BY <1>2, <1>3, <1>4, <1>5, <2>1, <3>3
    <3> QED
      BY <1>6, <3>1, <3>2, <3>3
  <2>2. \A k \in DOMAIN openFiles' : openFiles'[k].id <= made'
    BY <1>1, <1>2, <1>3, <1>4, <1>5, <1>6
  <2>3. currentFile' # 0 /\ Len(openFiles) + 1 \in DOMAIN openFiles' /\ openFiles' # <<>>
    BY <1>1, <1>2, <1>4
  <2>4. openFiles'[Len(openFiles) + 1].id = currentFile'
    BY <1>1, <1>3, <1>4
  <2> QED
    BY <1>4, <2>1, <2>2, <2>3, <2>4 DEF Apart
<1>8. ASSUME NEW k \in DOMAIN openFiles', NEW n \in Nat, openFiles'[k].name = Files!Untitled(n)
      PROVE  n < fileCounter'
  <2>1. CASE k \in DOMAIN openFiles
    BY <1>1, <1>2, <1>4, <1>8, <2>1 DEF FilesInv
  <2>2. CASE k = Len(openFiles) + 1
    BY <1>1, <1>2, <1>3, <1>4, <1>8, <2>2, UntitledOnce
  <2> QED
    BY <1>6, <2>1, <2>2
<1> QED
  BY <1>1, <1>2, <1>7, <1>8 DEF FilesInv

LEMMA SamplesHold == FilesInv /\ Files!createSampleFiles => FilesInv'
<1> SUFFICES ASSUME FilesInv, Files!createSampleFiles PROVE FilesInv'
  OBVIOUS
<1> DEFINE x(k) == [id |-> made + k, name |-> <<Files!Samples[k]>>, isNew |-> FALSE, isDirty |-> FALSE]
<1>1. /\ made' = made + 3 /\ openFiles' = [k \in 1..3 |-> x(k)]
      /\ currentFile' = made + 1 /\ fileCounter' = 4 /\ made \in Nat
  BY DEF Files!createSampleFiles, FilesInv
<1>2. ASSUME NEW k \in 1..3 PROVE x(k) \in OpenFiles /\ x(k).id = made + k /\ x(k).name = <<Files!Samples[k]>>
  BY <1>1 DEF OpenFiles, SampleNames
<1> HIDE DEF x
<1>3. /\ DOMAIN openFiles' = 1..3 /\ openFiles' \in Seq(OpenFiles)
      /\ \A k \in 1..3 : openFiles'[k].id = made + k /\ openFiles'[k].name = <<Files!Samples[k]>>
  BY <1>1, <1>2
<1>4. \A j, k \in 1..3 : Files!Samples[j] = Files!Samples[k] => j = k
  BY DEF Files!Samples
<1>5. Apart(openFiles', currentFile', made')
  <2>1. ASSUME NEW j \in 1..3, NEW k \in 1..3,
               openFiles'[j].id = openFiles'[k].id \/ openFiles'[j].name = openFiles'[k].name
        PROVE  j = k
    BY <1>1, <1>3, <1>4, <2>1
  <2>2. \A k \in 1..3 : openFiles'[k].id <= made'
    BY <1>1, <1>3
  <2>3. currentFile' # 0 /\ openFiles' # <<>> /\ 1 \in 1..3 /\ openFiles'[1].id = currentFile'
    BY <1>1, <1>3
  <2> QED
    BY <1>3, <2>1, <2>2, <2>3 DEF Apart
<1>6. \A k \in 1..3, n \in Nat : openFiles'[k].name # Files!Untitled(n)
  BY <1>3, SamplesUntitled DEF SampleNames
<1> QED
  BY <1>1, <1>3, <1>5, <1>6 DEF FilesInv

(* One element is taken out of a sequence.                                 *)
Place(i, k) == IF i < k THEN i ELSE i + 1
Without(f, k) == SubSeq(f, 1, k - 1) \o SubSeq(f, k + 1, Len(f))
LEMMA FirstPart ==
  ASSUME NEW T, NEW f, NEW k \in Nat, 1 <= k, \A i \in 1..(k - 1) : f[i] \in T
  PROVE  /\ SubSeq(f, 1, k - 1) \in Seq(T) /\ Len(SubSeq(f, 1, k - 1)) = k - 1
         /\ \A i \in 1..(k - 1) : SubSeq(f, 1, k - 1)[i] = f[i]
<1>1. 1 \in Int /\ k - 1 \in Int
  OBVIOUS
<1>2. /\ SubSeq(f, 1, k - 1) \in Seq(T)
      /\ Len(SubSeq(f, 1, k - 1)) = IF 1 <= k - 1 THEN k - 1 - 1 + 1 ELSE 0
      /\ \A i \in 1..(k - 1 - 1 + 1) : SubSeq(f, 1, k - 1)[i] = f[1 + i - 1]
  BY <1>1, SubSeqProperties
<1>3. /\ k - 1 - 1 + 1 = k - 1 /\ (IF 1 <= k - 1 THEN k - 1 - 1 + 1 ELSE 0) = k - 1
      /\ \A i \in 1..(k - 1) : 1 + i - 1 = i
  OBVIOUS
<1> QED
  BY <1>2, <1>3

LEMMA LastPart ==
  ASSUME NEW T, NEW f, NEW n \in Nat, NEW k \in Nat, k <= n, \A i \in (k + 1)..n : f[i] \in T
  PROVE  /\ SubSeq(f, k + 1, n) \in Seq(T) /\ Len(SubSeq(f, k + 1, n)) = n - k
         /\ \A i \in 1..(n - k) : SubSeq(f, k + 1, n)[i] = f[k + i]
<1>1. n \in Int /\ k + 1 \in Int
  OBVIOUS
<1>2. /\ SubSeq(f, k + 1, n) \in Seq(T)
      /\ Len(SubSeq(f, k + 1, n)) = IF k + 1 <= n THEN n - (k + 1) + 1 ELSE 0
      /\ \A i \in 1..(n - (k + 1) + 1) : SubSeq(f, k + 1, n)[i] = f[k + 1 + i - 1]
  BY <1>1, SubSeqProperties
<1>3. /\ n - (k + 1) + 1 = n - k /\ (IF k + 1 <= n THEN n - (k + 1) + 1 ELSE 0) = n - k
      /\ \A i \in 1..(n - k) : k + 1 + i - 1 = k + i
  OBVIOUS
<1> QED
  BY <1>2, <1>3

LEMMA WithoutOne ==
  ASSUME NEW T, NEW f \in Seq(T), NEW k \in 1..Len(f)
  PROVE  /\ Without(f, k) \in Seq(T) /\ DOMAIN Without(f, k) = 1..(Len(f) - 1)
         /\ Len(Without(f, k)) = Len(f) - 1
         /\ \A i \in 1..(Len(f) - 1) : /\ Place(i, k) \in 1..Len(f) /\ Place(i, k) # k
                                       /\ Without(f, k)[i] = f[Place(i, k)]
         /\ \A i, j \in 1..(Len(f) - 1) : Place(i, k) = Place(j, k) => i = j
         /\ \A i \in 1..Len(f) : i # k => \E j \in 1..(Len(f) - 1) : Place(j, k) = i
<1>1. PICK n : n = Len(f)
  OBVIOUS
<1>2. n \in Nat /\ k \in Nat /\ 1 <= k /\ k <= n
  BY <1>1, LenProperties
<1>3. \A i \in 1..n : f[i] \in T
  BY <1>1, LenProperties
<1>4. PICK a : a = SubSeq(f, 1, k - 1)
  OBVIOUS
<1>5. PICK b : b = SubSeq(f, k + 1, n)
  OBVIOUS
<1>6. a \in Seq(T) /\ Len(a) = k - 1 /\ \A i \in 1..(k - 1) : a[i] = f[i]
  <2>1. \A i \in 1..(k - 1) : f[i] \in T
    BY <1>2, <1>3
  <2> QED
    BY <1>2, <1>4, <2>1, FirstPart
<1>7. b \in Seq(T) /\ Len(b) = n - k /\ \A i \in 1..(n - k) : b[i] = f[k + i]
  <2>1. \A i \in (k + 1)..n : f[i] \in T
    BY <1>2, <1>3
  <2> QED
    BY <1>2, <1>5, <2>1, LastPart
<1> DEFINE g == a \o b
<1>8. /\ g \in Seq(T) /\ Len(g) = Len(a) + Len(b)
      /\ \A i \in 1..(Len(a) + Len(b)) : g[i] = IF i <= Len(a) THEN a[i] ELSE b[i - Len(a)]
  BY <1>6, <1>7, ConcatProperties
<1>9. Without(f, k) = g
  BY <1>1, <1>4, <1>5 DEF Without
<1> HIDE DEF g
<1>10. Len(g) = n - 1 /\ DOMAIN g = 1..(n - 1)
  <2>1. Len(a) + Len(b) = n - 1
    BY <1>2, <1>6, <1>7
  <2> QED
    BY <1>8, <2>1, LenProperties
<1>11. ASSUME NEW i \in 1..(n - 1)
       PROVE  Place(i, k) \in 1..n /\ Place(i, k) # k /\ g[i] = f[Place(i, k)]
  <2>1. g[i] = IF i <= k - 1 THEN a[i] ELSE b[i - (k - 1)]
    <3>1. Len(a) + Len(b) = n - 1
      BY <1>2, <1>6, <1>7
    <3> QED
      BY <1>6, <1>8, <3>1
  <2>2. CASE i < k
    <3>1. Place(i, k) = i /\ i \in 1..(k - 1) /\ i <= k - 1 /\ i \in 1..n /\ i # k
      BY <1>2, <2>2 DEF Place
    <3> QED
      BY <1>6, <2>1, <3>1
  <2>3. CASE ~(i < k)
    <3>1. /\ i - (k - 1) \in 1..(n - k) /\ k + (i - (k - 1)) = i + 1 /\ ~(i <= k - 1)
          /\ Place(i, k) = i + 1 /\ i + 1 \in 1..n /\ i + 1 # k
      BY <1>2, <2>3 DEF Place
    <3> QED
      BY <1>7, <2>1, <3>1
  <2> QED
    BY <2>2, <2>3
<1>12. \A i, j \in 1..(n - 1) : Place(i, k) = Place(j, k) => i = j
  BY <1>2 DEF Place
<1>13. ASSUME NEW i \in 1..n, i # k PROVE \E j \in 1..(n - 1) : Place(j, k) = i
  <2>1. CASE i < k
    <3>1. i \in 1..(n - 1) /\ Place(i, k) = i
      BY <1>2, <2>1 DEF Place
    <3> QED
      BY <3>1
  <2>2. CASE i > k
    <3>1. i - 1 \in 1..(n - 1) /\ Place(i - 1, k) = i
      BY <1>2, <2>2 DEF Place
    <3> QED
      BY <3>1
  <2> QED
    BY <1>2, <1>13, <2>1, <2>2
<1> QED
  BY <1>1, <1>8, <1>9, <1>10, <1>11, <1>12, <1>13

(* A file is closed: the others keep their order, its neighbour or another *)
(* one is current.                                                         *)
LEMMA CloseHolds == ASSUME FilesInv, NEW k \in DOMAIN openFiles, Files!closeFile(k) PROVE FilesInv'
<1>1. PICK f : f = openFiles
  OBVIOUS
<1>2. PICK g : g = openFiles'
  OBVIOUS
<1>3. /\ g = Without(f, k) /\ UNCHANGED <<fileCounter, made>>
      /\ currentFile' = IF currentFile = f[k].id THEN Files!Neighbour(g, k) ELSE currentFile
  BY <1>1, <1>2 DEF Files!closeFile, Without
<1>4. /\ f \in Seq(OpenFiles) /\ DOMAIN f = 1..Len(f) /\ Len(f) \in Nat /\ k \in 1..Len(f)
      /\ \A i \in DOMAIN f : f[i] \in OpenFiles
  BY <1>1, LenProperties DEF FilesInv, Apart
<1>5. /\ g \in Seq(OpenFiles) /\ DOMAIN g = 1..(Len(f) - 1) /\ Len(g) = Len(f) - 1
      /\ \A i \in DOMAIN g : Place(i, k) \in DOMAIN f /\ Place(i, k) # k /\ g[i] = f[Place(i, k)]
      /\ \A i, j \in DOMAIN g : Place(i, k) = Place(j, k) => i = j
      /\ \A i \in DOMAIN f : i # k => \E j \in DOMAIN g : Place(j, k) = i
  <2>1. f \in Seq(OpenFiles) /\ k \in 1..Len(f)
    BY <1>4
  <2>2. /\ Without(f, k) \in Seq(OpenFiles) /\ DOMAIN Without(f, k) = 1..(Len(f) - 1)
        /\ Len(Without(f, k)) = Len(f) - 1
        /\ \A i \in 1..(Len(f) - 1) : /\ Place(i, k) \in 1..Len(f) /\ Place(i, k) # k
                                      /\ Without(f, k)[i] = f[Place(i, k)]
        /\ \A i, j \in 1..(Len(f) - 1) : Place(i, k) = Place(j, k) => i = j
        /\ \A i \in 1..Len(f) : i # k => \E j \in 1..(Len(f) - 1) : Place(j, k) = i
    <3>1. Without(f, k) \in Seq(OpenFiles) /\ DOMAIN Without(f, k) = 1..(Len(f) - 1)
      BY <2>1, WithoutOne
    <3>2. Len(Without(f, k)) = Len(f) - 1
      BY <2>1, WithoutOne
    <3>3. \A i \in 1..(Len(f) - 1) : Place(i, k) \in 1..Len(f) /\ Place(i, k) # k /\ Without(f, k)[i] = f[Place(i, k)]
      BY <2>1, WithoutOne
    <3>4. \A i, j \in 1..(Len(f) - 1) : Place(i, k) = Place(j, k) => i = j
      BY <2>1, WithoutOne
    <3>5. \A i \in 1..Len(f) : i # k => \E j \in 1..(Len(f) - 1) : Place(j, k) = i
      BY <2>1, WithoutOne
    <3> QED
      BY <3>1, <3>2, <3>3, <3>4, <3>5
  <2> QED
    BY <1>3, <1>4, <2>2
<1>6. /\ \A i, j \in DOMAIN f : (f[i].id = f[j].id \/ f[i].name = f[j].name) => i = j
      /\ \A i \in DOMAIN f : f[i].id <= made
      /\ currentFile = 0 <=> f = <<>>
      /\ currentFile # 0 => \E i \in DOMAIN f : f[i].id = currentFile
      /\ \A i \in DOMAIN f, n \in Nat : f[i].name = Files!Untitled(n) => n < fileCounter
  BY <1>1 DEF FilesInv, Apart
<1>7. \A i \in DOMAIN f : f[i].id # 0
  BY <1>4 DEF OpenFiles
<1>8. /\ currentFile' = 0 <=> g = <<>>
      /\ currentFile' # 0 => \E i \in DOMAIN g : g[i].id = currentFile'
  <2>1. CASE currentFile = f[k].id
    <3>1. CASE g = <<>>
      BY <1>3, <2>1, <3>1 DEF Files!Neighbour
    <3>2. CASE g # <<>>
      <4> DEFINE i == IF k = 1 THEN 1 ELSE k - 1
      <4>1. currentFile' = g[i].id
        BY <1>3, <2>1, <3>2 DEF Files!Neighbour
      <4>2. Len(g) # 0
        BY <1>5, <3>2, EmptySeq
      <4>3. i \in DOMAIN g
        BY <1>4, <1>5, <4>2
      <4> HIDE DEF i
      <4>4. g[i].id # 0
        BY <1>5, <1>7, <4>3
      <4> QED
        BY <3>2, <4>1, <4>3, <4>4
    <3> QED
      BY <3>1, <3>2
  <2>2. CASE currentFile # f[k].id
    <3>1. currentFile' = currentFile /\ currentFile # 0
      BY <1>3, <1>4, <1>6, <2>2, EmptySeq
    <3>2. PICK i \in DOMAIN f : f[i].id = currentFile /\ i # k
      BY <1>6, <2>2, <3>1
    <3>3. PICK j \in DOMAIN g : Place(j, k) = i
      BY <1>5, <3>2
    <3>4. g[j].id = currentFile
      BY <1>5, <3>2, <3>3
    <3>5. g # <<>>
      BY <3>3
    <3> QED
      BY <3>1, <3>3, <3>4, <3>5
  <2> QED
    BY <2>1, <2>2
<1>9. Apart(g, currentFile', made)
  <2>1. ASSUME NEW i \in DOMAIN g, NEW j \in DOMAIN g, g[i].id = g[j].id \/ g[i].name = g[j].name PROVE i = j
    <3>1. Place(i, k) = Place(j, k)
      BY <1>5, <1>6, <2>1
    <3> QED
      BY <1>5, <3>1
  <2>2. \A i \in DOMAIN g : g[i].id <= made
    BY <1>5, <1>6
  <2> QED
    BY <1>5, <1>8, <2>1, <2>2 DEF Apart
<1>10. ASSUME NEW i \in DOMAIN g, NEW n \in Nat, g[i].name = Files!Untitled(n) PROVE n < fileCounter
  BY <1>5, <1>6, <1>10
<1>11. made \in Nat /\ fileCounter \in Nat
  BY DEF FilesInv
<1> QED
  BY <1>2, <1>3, <1>9, <1>10, <1>11 DEF FilesInv

(* A file keeps id and name when it is edited or saved.                    *)
LEMMA ChangeHolds ==
  ASSUME FilesInv, NEW k \in DOMAIN openFiles, Files!saveFile(k) \/ Files!Edit(k)
  PROVE  FilesInv'
<1> DEFINE f == openFiles
           s == [f[k] EXCEPT !.isNew = FALSE, !.isDirty = FALSE]
           e == [f[k] EXCEPT !.isDirty = TRUE]
<1>1. UNCHANGED <<currentFile, fileCounter, made>> /\ (openFiles' = [f EXCEPT ![k] = s] \/ openFiles' = [f EXCEPT ![k] = e])
  BY DEF Files!saveFile, Files!Edit
<1>2. f \in Seq(OpenFiles) /\ DOMAIN f = 1..Len(f) /\ f[k] \in OpenFiles
  BY LenProperties DEF FilesInv, Apart
<1>3. s \in OpenFiles /\ s.id = f[k].id /\ s.name = f[k].name /\ e \in OpenFiles /\ e.id = f[k].id /\ e.name = f[k].name
  BY <1>2 DEF OpenFiles
<1>4. PICK x \in OpenFiles : openFiles' = [f EXCEPT ![k] = x] /\ x.id = f[k].id /\ x.name = f[k].name
  BY <1>1, <1>3
<1>5. /\ openFiles' \in Seq(OpenFiles) /\ DOMAIN openFiles' = DOMAIN f
      /\ \A i \in DOMAIN f : openFiles'[i].id = f[i].id /\ openFiles'[i].name = f[i].name
  BY <1>2, <1>4
<1>6. f = <<>> <=> openFiles' = <<>>
  BY <1>2, <1>5
<1> QED
  BY <1>1, <1>5, <1>6 DEF FilesInv, Apart

LEMMA NextFiles == FilesInv /\ (Files!Next \/ UNCHANGED editorVars) => FilesInv'
<1> SUFFICES ASSUME FilesInv, Files!Next \/ UNCHANGED editorVars PROVE FilesInv'
  OBVIOUS
<1>1. CASE UNCHANGED editorVars
  BY <1>1 DEF editorVars, FilesInv
<1>2. CASE Files!createNewFile \/ Files!createSampleFiles
  BY <1>2, CreateHolds, SamplesHold
<1>3. ASSUME NEW k \in DOMAIN openFiles, Files!closeFile(k) \/ Files!saveFile(k) \/ Files!Edit(k) PROVE FilesInv'
  BY <1>3, CloseHolds, ChangeHolds
<1>4. ASSUME NEW k \in DOMAIN openFiles, Files!selectFile(k) PROVE FilesInv'
  <2>1. currentFile' = openFiles[k].id /\ UNCHANGED <<openFiles, fileCounter, made>>
    BY <1>4 DEF Files!selectFile
  <2>2. openFiles[k] \in OpenFiles /\ openFiles # <<>>
    BY LenProperties DEF FilesInv, Apart
  <2>3. currentFile' # 0
    BY <2>1, <2>2 DEF OpenFiles
  <2> QED
    BY <2>1, <2>2, <2>3 DEF FilesInv, Apart
<1> QED
  BY <1>1, <1>2, <1>3, <1>4 DEF Files!Next

-----------------------------------------------------------------------------
(* The steps of the session as both pages see them: something may be sent, *)
(* everything on the wire is lost, or the page takes a message.            *)
Sends(m) == wire' = wire \/ wire' = Append(wire, m)
MadeOne(name) ==
    /\ name \in Names \ (live \cup removed) /\ live' = live \cup {name} /\ UNCHANGED <<removed, outputs>>
    /\ Sends(<<"new", name>>)
GoneOne(name) ==
    /\ name \in live /\ live' = live \ {name} /\ removed' = removed \cup {name} /\ UNCHANGED outputs
    /\ Sends(<<"delete", name>>)
PrintedOne(name) ==
    /\ name \in live /\ outputs' = outputs + 1 /\ UNCHANGED <<live, removed>>
    /\ Sends(<<"out", name, outputs + 1>>)
GoneAll == live' = {} /\ removed' = removed \cup live /\ UNCHANGED outputs /\ Sends(<<"end">>)
AskedResize == UNCHANGED <<live, removed, outputs>> /\ Sends(<<"resize">>)
LostAll == UNCHANGED <<live, removed, outputs>> /\ wire' = <<>>
Sending ==
    \/ \E name \in Names : MadeOne(name) \/ GoneOne(name) \/ PrintedOne(name)
    \/ GoneAll \/ AskedResize \/ LostAll

News == NewsFirst(wire, live \cup removed, told)

LEMMA SendingHolds ==
  ASSUME PageInv, Sending, objects' \in Seq(Objects), told' \subseteq removed'
  PROVE  PageInv' /\ removed \subseteq removed' /\ (News /\ UNCHANGED told => News')
<1>1. /\ live \in SUBSET Names /\ removed \in SUBSET Names /\ live \cap removed = {} /\ outputs \in Nat
      /\ told \subseteq removed /\ Truthful(wire, removed) /\ wire \in Seq(Messages)
  BY DEF PageInv, Truthful
<1>2. CASE \E name \in Names : MadeOne(name)
  <2>1. PICK name \in Names : MadeOne(name)
    BY <1>2
  <2>2. /\ name \notin live \cup removed /\ live' = live \cup {name} /\ UNCHANGED <<removed, outputs>>
        /\ Sends(<<"new", name>>)
    BY <2>1 DEF MadeOne
  <2> DEFINE m == <<"new", name>>
  <2>3. m \in Messages /\ m[1] = "new" /\ m[2] = name
    BY DEF Messages
  <2> HIDE DEF m
  <2>4. Truthful(wire', removed')
    <3>1. m[1] # "delete" /\ removed \subseteq removed'
      BY <2>2, <2>3
    <3>2. Truthful(wire, removed') /\ Truthful(Append(wire, m), removed')
      BY <1>1, <2>3, <3>1, WireSent
    <3> QED
      BY <2>2, <3>2 DEF Sends, m
  <2>5. ASSUME News, UNCHANGED told PROVE News'
    <3>1. \A j \in DOMAIN wire : wire[j][1] = "delete" => wire[j][2] # name
      BY <1>1, <2>2 DEF Truthful
    <3>2. live \cup removed \subseteq live' \cup removed' /\ name \in (live' \cup removed') \ told
      BY <1>1, <2>2
    <3>3. NewsFirst(wire, live \cup removed, told)
      BY <2>5 DEF News
    <3>4. NewsFirst(wire, live' \cup removed', told) /\ NewsFirst(Append(wire, m), live' \cup removed', told)
      BY <1>1, <2>3, <3>1, <3>2, <3>3, NewsSent
    <3> QED
      BY <2>2, <2>5, <3>4 DEF News, Sends, m
  <2> QED
    BY <1>1, <2>2, <2>4, <2>5 DEF PageInv
<1>3. CASE \E name \in Names : GoneOne(name)
  <2>1. PICK name \in Names : GoneOne(name)
    BY <1>3
  <2>2. /\ name \in live /\ live' = live \ {name} /\ removed' = removed \cup {name} /\ UNCHANGED outputs
        /\ Sends(<<"delete", name>>)
    BY <2>1 DEF GoneOne
  <2> DEFINE m == <<"delete", name>>
  <2>3. m \in Messages /\ m[1] = "delete" /\ m[2] = name
    BY DEF Messages
  <2> HIDE DEF m
  <2>4. Truthful(wire', removed')
    <3>1. m[2] \in removed' /\ removed \subseteq removed'
      BY <2>2, <2>3
    <3>2. Truthful(wire, removed') /\ Truthful(Append(wire, m), removed')
      BY <1>1, <2>3, <3>1, WireSent
    <3> QED
      BY <2>2, <3>2 DEF Sends, m
  <2>5. ASSUME News, UNCHANGED told PROVE News'
    <3>1. NewsFirst(wire, live \cup removed, told) /\ live \cup removed \subseteq live' \cup removed'
      BY <2>2, <2>5 DEF News
    <3>2. NewsFirst(wire, live' \cup removed', told) /\ NewsFirst(Append(wire, m), live' \cup removed', told)
      BY <1>1, <2>3, <3>1, NewsSent
    <3> QED
      BY <2>2, <2>5, <3>2 DEF News, Sends, m
  <2> QED
    BY <1>1, <2>2, <2>4, <2>5 DEF PageInv
<1>4. CASE (\E name \in Names : PrintedOne(name)) \/ GoneAll \/ AskedResize
  <2>1. PICK m \in Messages : /\ m[1] \notin {"new", "delete"} /\ Sends(m) /\ outputs' \in Nat
                              /\ live' \cup removed' = live \cup removed
                              /\ live' \subseteq live /\ removed \subseteq removed' /\ live' \cap removed' = {}
    <3>1. CASE \E name \in Names : PrintedOne(name)
      <4>1. PICK name \in Names : PrintedOne(name)
        BY <3>1
      <4>2. outputs + 1 \in Nat /\ <<"out", name, outputs + 1>> \in Messages
        BY <1>1 DEF Messages
      <4> QED
        BY <1>1, <4>1, <4>2 DEF PrintedOne
    <3>2. CASE GoneAll
      BY <1>1, <3>2, Endings DEF GoneAll
    <3>3. CASE AskedResize
      BY <1>1, <3>3, Endings DEF AskedResize
    <3> QED
      BY <1>4, <3>1, <3>2, <3>3
  <2>2. Truthful(wire', removed')
    <3>1. Truthful(wire, removed') /\ Truthful(Append(wire, m), removed')
      BY <1>1, <2>1, WireSent
    <3> QED
      BY <2>1, <3>1 DEF Sends
  <2>3. ASSUME News, UNCHANGED told PROVE News'
    <3>1. NewsFirst(wire, live \cup removed, told) /\ live \cup removed \subseteq live' \cup removed'
      BY <2>1, <2>3 DEF News
    <3>2. NewsFirst(wire, live' \cup removed', told) /\ NewsFirst(Append(wire, m), live' \cup removed', told)
      BY <1>1, <2>1, <3>1, NewsSent
    <3> QED
      BY <2>1, <2>3, <3>2 DEF News, Sends
  <2> QED
    BY <1>1, <2>1, <2>2, <2>3 DEF PageInv
<1>5. CASE LostAll
  <2>1. UNCHANGED <<live, removed, outputs>> /\ wire' = <<>>
    BY <1>5 DEF LostAll
  <2>2. Truthful(wire', removed')
    BY <2>1, WireLost
  <2>3. News'
    BY <2>1 DEF News, NewsFirst
  <2> QED
    BY <1>1, <2>1, <2>2, <2>3 DEF PageInv
<1> QED
  BY <1>2, <1>3, <1>4, <1>5 DEF Sending

(* The page takes a message; a deletion it is told of.                     *)
Takes == /\ UNCHANGED <<live, removed, outputs>> /\ wire # <<>> /\ wire' = Tail(wire)
         /\ \/ UNCHANGED told
            \/ Head(wire)[1] = "delete" /\ told' = told \cup {Head(wire)[2]}

LEMMA TakesHolds ==
  ASSUME PageInv, Takes, objects' \in Seq(Objects)
  PROVE  /\ PageInv'
         /\ Head(wire)[1] \in {"new", "delete"} => Head(wire)[2] \in Names
         /\ Head(wire)[1] = "out" => Head(wire)[2] \in Names /\ Head(wire)[3] \in Nat
         /\ Head(wire)[1] = "delete" => Head(wire)[2] \in removed
         /\ News => News' /\ (Head(wire)[1] = "new" => Head(wire)[2] \notin told)
<1>1. /\ wire # <<>> /\ Truthful(wire, removed) /\ wire \in Seq(Messages)
      /\ live' = live /\ removed' = removed /\ outputs' = outputs /\ wire' = Tail(wire)
  BY DEF PageInv, Truthful, Takes
<1>2. /\ Truthful(Tail(wire), removed) /\ Head(wire) \in Messages
      /\ Head(wire)[1] = "delete" => Head(wire)[2] \in removed
  BY <1>1, WireTaken
<1>3. /\ Head(wire)[1] \in {"new", "delete"} => Head(wire)[2] \in Names
      /\ Head(wire)[1] = "out" => Head(wire)[2] \in Names /\ Head(wire)[3] \in Nat
  BY <1>2, MessageParts
<1>4. PageInv'
  BY <1>1, <1>2 DEF PageInv, Takes
<1>5. ASSUME News PROVE News' /\ (Head(wire)[1] = "new" => Head(wire)[2] \notin told)
  <2>1. /\ NewsFirst(Tail(wire), live \cup removed, told)
        /\ Head(wire)[1] = "new" => Head(wire)[2] \in (live \cup removed) \ told
        /\ Head(wire)[1] = "delete" => NewsFirst(Tail(wire), live \cup removed, told \cup {Head(wire)[2]})
    BY <1>1, <1>5, NewsTaken DEF News
  <2> QED
    BY <1>1, <2>1 DEF News, Takes
<1> QED
  BY <1>2, <1>3, <1>4, <1>5

-----------------------------------------------------------------------------
(* The simplified page.  A request that is answered has the instances the  *)
(* session had then.                                                       *)
Request(r) == r = [id |-> r.id, saw |-> r.saw] /\ (r.saw = <<>> \/ \E names \in SUBSET Names : r.saw = <<names>>)
ShowsOne == instance \in 0..Len(objects) /\ stale \in BOOLEAN
SimpleInv == PageInv /\ News /\ ShowsOne /\ (\A r \in requests : Request(r)) /\ Simple!GhostsAreStale

LEMMA SameHelpers ==
  /\ \A o, p : Simple!Heard(o, p) = Heard(o, p)
  /\ \A o : Simple!Flushed(o) = Flushed(o)
  /\ \A n, b : Simple!NewObject(n, b) = NewObject(n, b)
BY DEF Simple!Heard, Heard, Simple!Flushed, Flushed, Simple!NewObject, NewObject

(* What is shown stays, or goes, while objects keep their names.           *)
LEMMA StillShown ==
  ASSUME SimpleInv, Renames, instance' = instance \/ instance' = 0, stale => stale', stale' \in BOOLEAN,
         \A name \in told' \ told : instance' = 0 \/ objects[instance'].name # name
  PROVE  ShowsOne' /\ Simple!GhostsAreStale'
<1>1. instance \in 0..Len(objects) /\ Len(objects) \in Nat
  BY LenProperties DEF SimpleInv, ShowsOne, PageInv
<1>2. ShowsOne'
  BY <1>1 DEF Renames, ShowsOne
<1>3. ASSUME instance' # 0, objects'[instance'].name \in told' PROVE stale'
  <2>1. instance' = instance /\ instance \in 1..Len(objects) /\ objects'[instance'].name = objects[instance].name
    BY <1>1, <1>3 DEF Renames
  <2>2. objects[instance].name \in told
    BY <1>3, <2>1
  <2> QED
    BY <1>3, <2>1, <2>2 DEF SimpleInv, Simple!GhostsAreStale
<1> QED
  BY <1>2, <1>3 DEF Simple!GhostsAreStale

(* A new object is shown.                                                  *)
LEMMA NewlyShown ==
  ASSUME PageInv, NEW x \in Objects, objects' = Append(objects, x), instance' = Len(objects) + 1,
         stale' \in BOOLEAN, x.name \in told' => stale'
  PROVE  ShowsOne' /\ Simple!GhostsAreStale'
<1>1. /\ Len(objects) \in Nat /\ Len(objects') = Len(objects) + 1 /\ objects'[Len(objects) + 1] = x
  BY OneMore DEF PageInv
<1> QED
  BY <1>1 DEF ShowsOne, Simple!GhostsAreStale

(* Asking, once more, leaves answers as they are.                          *)
LEMMA AskedRequests == (\A r \in requests : Request(r)) /\ Simple!Asked => \A r \in requests' : Request(r)
<1> SUFFICES ASSUME \A r \in requests : Request(r), Simple!Asked, NEW r \in requests' PROVE Request(r)
  OBVIOUS
<1>1. PICK id : requests' = requests \cup {[id |-> id, saw |-> <<>>]}
  BY Zenon DEF Simple!Asked
<1>2. Request([id |-> id, saw |-> <<>>])
  BY DEF Request
<1> QED
  BY <1>1, <1>2

LEMMA SimpleInit == MCInit /\ page = "simple" => SimpleInv
<1> SUFFICES ASSUME MCInit, page = "simple" PROVE SimpleInv
  OBVIOUS
<1>1. PICK first \in SUBSET Names : Simple!PageInit(first)
  BY DEF MCInit, Simple!Init
<1>2. /\ live = first /\ removed \in SUBSET (Names \ first) /\ outputs = 0 /\ wire = <<>> /\ told = {} /\ objects = <<>>
      /\ instance = 0 /\ requests = {} /\ stale = FALSE
  BY <1>1 DEF MCInit, Simple!Init, Simple!PageInit
<1>3. <<>> \in Seq(Objects) /\ Len(<<>>) = 0 /\ Truthful(<<>>, removed)
  BY EmptySeq, WireLost
<1>4. PageInv
  BY <1>2, <1>3 DEF PageInv
<1>5. News
  BY <1>2 DEF News, NewsFirst
<1>6. ShowsOne
  <2>1. instance \in 0..Len(objects)
    BY <1>2, <1>3
  <2>2. stale \in BOOLEAN
    BY <1>2, Zenon
  <2> QED
    BY <2>1, <2>2 DEF ShowsOne
<1>7. Simple!GhostsAreStale
  BY <1>2 DEF Simple!GhostsAreStale
<1> QED
  BY <1>2, <1>4, <1>5, <1>6, <1>7 DEF SimpleInv

(* What the server does, and the page sends, without a look at what is     *)
(* shown.                                                                  *)
LEMMA SimpleServer ==
  ASSUME SimpleInv, Simple!Server PROVE SimpleInv'
<1>1. Sending /\ UNCHANGED <<told, objects, instance, requests, stale>>
  BY DEF Simple!Server, Simple!Created, Simple!Deleted, Simple!Printed, Simple!Expired, Simple!Sent,
         Sending, MadeOne, GoneOne, PrintedOne, GoneAll, Sends, Simple!link, Simple!simpleVars
<1>2. PageInv' /\ News'
  <2>1. objects' \in Seq(Objects) /\ told' \subseteq removed'
    <3>1. removed \subseteq removed'
      BY <1>1 DEF Sending, MadeOne, GoneOne, PrintedOne, GoneAll, AskedResize, LostAll
    <3> QED
      BY <1>1, <3>1 DEF SimpleInv, PageInv
  <2> QED
    BY <1>1, <2>1, SendingHolds DEF SimpleInv
<1>3. ShowsOne' /\ Simple!GhostsAreStale'
  BY <1>1 DEF SimpleInv, ShowsOne, Simple!GhostsAreStale
<1> QED
  BY <1>1, <1>2, <1>3 DEF SimpleInv

LEMMA SimpleLink ==
  ASSUME SimpleInv, Simple!Open \/ Simple!Join \/ Simple!Lost PROVE SimpleInv'
<1>1. /\ UNCHANGED <<live, removed, outputs, told, objects, instance>> /\ (wire' = wire \/ wire' = <<>>)
  BY DEF Simple!Open, Simple!Join, Simple!Joined, Simple!Lost, Simple!Broken, Simple!server
<1>2. stale' \in BOOLEAN /\ (stale => stale') /\ \A r \in requests' : Request(r)
  <2>1. CASE Simple!Open
    BY <2>1, AskedRequests DEF Simple!Open, SimpleInv, ShowsOne
  <2>2. CASE Simple!Join
    BY <2>2 DEF Simple!Join, SimpleInv, ShowsOne
  <2>3. CASE Simple!Lost
    BY <2>3 DEF Simple!Lost, Simple!asking, SimpleInv, ShowsOne
  <2> QED
    BY <2>1, <2>2, <2>3
<1>3. Truthful(wire', removed) /\ NewsFirst(wire', live \cup removed, told)
  <2>1. NewsFirst(<<>>, live \cup removed, told)
    BY DEF NewsFirst
  <2> QED
    BY <1>1, <2>1, WireLost DEF SimpleInv, PageInv, News
<1>4. PageInv' /\ News'
  BY <1>1, <1>3 DEF SimpleInv, PageInv, News
<1>5. ShowsOne' /\ Simple!GhostsAreStale'
  BY <1>1, <1>2 DEF SimpleInv, ShowsOne, Simple!GhostsAreStale
<1> QED
  BY <1>2, <1>4, <1>5 DEF SimpleInv

LEMMA SimpleAnswers ==
  ASSUME SimpleInv, NEW r \in requests, Simple!Answer(r) \/ Simple!FailedAnswer(r) \/ Simple!GotSession(r)
  PROVE  SimpleInv'
<1>1. Request(r) /\ live \in SUBSET Names /\ PageInv /\ News
  BY DEF SimpleInv, PageInv
<1>2. UNCHANGED <<live, removed, outputs, wire, told>>
  BY DEF Simple!Answer, Simple!FailedAnswer, Simple!GotSession, Simple!pageVars, Simple!server
<1>3. CASE Simple!Answer(r) \/ Simple!FailedAnswer(r)
  <2>1. UNCHANGED <<objects, instance, stale>>
    BY <1>3 DEF Simple!Answer, Simple!FailedAnswer, Simple!pageVars
  <2>2. \A q \in requests' : Request(q)
    <3> DEFINE answered == [r EXCEPT !.saw = <<live>>]
    <3>1. Request(answered)
      <4>1. answered = [id |-> r.id, saw |-> <<live>>]
        BY <1>1 DEF Request
      <4> QED
        BY <1>1, <4>1 DEF Request
    <3> HIDE DEF answered
    <3>2. requests' = (requests \ {r}) \cup {answered} \/ requests' = requests \ {r}
      BY <1>3 DEF Simple!Answer, Simple!FailedAnswer, answered
    <3> QED
      BY <3>1, <3>2 DEF SimpleInv
  <2> QED
    BY <1>1, <1>2, <2>1, <2>2 DEF SimpleInv, PageInv, News, ShowsOne, Simple!GhostsAreStale
<1>4. CASE Simple!GotSession(r)
  <2>1. /\ (\A q \in requests' : Request(q)) /\ r.saw # <<>> /\ stale' = (stale \/ r.saw[1] \notin {{}, live})
        /\ ((\E name \in r.saw[1] : Simple!Replaced(name)) \/ Simple!Retried)
    BY <1>4 DEF Simple!GotSession, SimpleInv
  <2>2. stale' \in BOOLEAN /\ (stale => stale')
    <3> DEFINE old == r.saw[1] \notin {{}, live}
    <3>1. stale' = (stale \/ old) /\ stale \in BOOLEAN
      BY <2>1 DEF SimpleInv, ShowsOne
    <3> HIDE DEF old
    <3> QED
      BY <3>1, Zenon
  <2>3. CASE Simple!Retried
    <3>1. UNCHANGED <<objects, instance>>
      BY <2>3 DEF Simple!Retried
    <3> QED
      BY <1>1, <1>2, <2>1, <2>2, <3>1 DEF SimpleInv, PageInv, News, ShowsOne, Simple!GhostsAreStale
  <2>4. CASE \E name \in r.saw[1] : Simple!Replaced(name)
    <3>1. PICK name \in r.saw[1] : Simple!Replaced(name)
      BY <2>4
    <3>2. name \in Names /\ r.saw[1] \subseteq Names
      <4>1. PICK names \in SUBSET Names : r.saw = <<names>>
        BY <1>1, <2>1 DEF Request
      <4>2. r.saw[1] = names
        BY <4>1
      <4> QED
        BY <3>1, <4>2
    <3> DEFINE x == [NewObject(name, FALSE) EXCEPT !.term = TRUE]
    <3>3. x \in Objects /\ x.name = name
      BY <3>2, FreshObject, FlushedObject
    <3>4. objects' = Append(objects, x) /\ instance' = Len(objects) + 1
      BY <3>1, SameHelpers DEF Simple!Replaced
    <3> HIDE DEF x
    <3>5. ASSUME x.name \in told' PROVE stale'
      <4>1. name \notin live
        BY <1>1, <1>2, <3>3, <3>5 DEF PageInv
      <4> QED
        <5>1. r.saw[1] \notin {{}, live}
          BY <3>1, <4>1
        <5> QED
          BY <2>1, <5>1, Zenon
    <3>6. ShowsOne' /\ Simple!GhostsAreStale'
      BY <1>1, <2>2, <3>3, <3>4, <3>5, NewlyShown
    <3>7. PageInv'
      BY <1>1, <1>2, <3>3, <3>4, OneMore DEF PageInv
    <3>8. News'
      BY <1>1, <1>2 DEF News
    <3> QED
      BY <2>1, <3>6, <3>7, <3>8 DEF SimpleInv
  <2> QED
    BY <2>1, <2>3, <2>4
<1> QED
  BY <1>3, <1>4

(* The handlers of events.                                                 *)
LEMMA SimpleHandlers == SimpleInv /\ Simple!Handlers => SimpleInv'
<1> SUFFICES ASSUME SimpleInv, Simple!Handlers PROVE SimpleInv'
  OBVIOUS
<1>1. PageInv /\ News /\ ShowsOne /\ objects \in Seq(Objects) /\ stale \in BOOLEAN
      /\ (\A o \in 1..Len(objects) : objects[o] \in Objects) /\ instance \in 0..Len(objects) /\ Len(objects) \in Nat
  BY LenProperties DEF SimpleInv, PageInv, ShowsOne
<1>2. CASE Simple!OnNew
  <2>1. Takes /\ UNCHANGED <<told, requests, stale>> /\ Head(wire)[1] = "new"
    BY <1>2 DEF Simple!OnNew, Simple!Arrives, Simple!server, Simple!asking, Takes
  <2> DEFINE x == NewObject(Head(wire)[2], TRUE)
  <2>2. objects' = Append(objects, x) /\ instance' = Len(objects) + 1
    BY <1>2, SameHelpers DEF Simple!OnNew
  <2>3. Head(wire)[2] \in Names /\ (News => Head(wire)[2] \notin told)
    <3>1. wire # <<>> /\ Truthful(wire, removed) /\ wire \in Seq(Messages)
      BY <1>1, <2>1 DEF PageInv, Truthful, Takes
    <3>2. Head(wire) \in Messages
      BY <3>1, WireTaken
    <3>3. Head(wire)[2] \in Names
      BY <2>1, <3>2, MessageParts
    <3>4. NewsFirst(wire, live \cup removed, told)
      BY <1>1 DEF News
    <3>5. Head(wire)[2] \in (live \cup removed) \ told
      BY <2>1, <3>1, <3>4, NewsTaken
    <3> QED
      BY <3>3, <3>5
  <2>4. x \in Objects /\ x.name = Head(wire)[2]
    BY <2>3, FreshObject
  <2> HIDE DEF x
  <2>5. objects' \in Seq(Objects)
    BY <1>1, <2>2, <2>4, OneMore
  <2>6. PageInv' /\ News'
    BY <1>1, <2>1, <2>5, TakesHolds
  <2>7. ShowsOne' /\ Simple!GhostsAreStale'
    BY <1>1, <2>1, <2>2, <2>3, <2>4, NewlyShown
  <2> QED
    BY <2>1, <2>6, <2>7 DEF SimpleInv
<1>3. CASE Simple!OnDelete
  <2>1. /\ Takes /\ UNCHANGED <<objects, requests, stale>> /\ told' = told \cup {Head(wire)[2]}
        /\ (instance' = instance \/ instance' = 0)
        /\ (instance' = 0 \/ objects[instance'].name # Head(wire)[2])
    BY <1>3 DEF Simple!OnDelete, Simple!Arrives, Simple!server, Simple!asking, Takes
  <2>2. PageInv' /\ News'
    BY <1>1, <2>1, TakesHolds
  <2>3. Renames
    BY <1>1, <2>1, SameObjects
  <2>4. ShowsOne' /\ Simple!GhostsAreStale'
    BY <1>1, <2>1, <2>3, StillShown
  <2> QED
    BY <2>1, <2>2, <2>4 DEF SimpleInv
<1>4. CASE Simple!OnOutput \/ Simple!OnResize
  <2>1. /\ Takes /\ UNCHANGED <<told, requests, stale, instance>>
        /\ Simple!OnOutput => Head(wire)[1] = "out"
    BY <1>4 DEF Simple!OnOutput, Simple!OnResize, Simple!Arrives, Simple!server, Simple!simpleVars, Takes
  <2>2. Simple!OnOutput => Head(wire)[3] \in Nat
    <3>1. wire # <<>> /\ Truthful(wire, removed)
      BY <1>1, <2>1 DEF PageInv, Takes
    <3>2. Head(wire) \in Messages
      BY <3>1, WireTaken
    <3> QED
      BY <2>1, <3>2, MessageParts
  <2>3. Renames
    <3>1. CASE UNCHANGED objects
      BY <1>1, <3>1, SameObjects
    <3>2. CASE objects' # objects
      <4>1. instance # 0 /\ instance \in 1..Len(objects) /\ objects[instance] \in Objects
            /\ \/ Simple!OnOutput /\ objects' = [objects EXCEPT ![instance] = Heard(objects[instance], Head(wire)[3])]
               \/ objects' = [objects EXCEPT ![instance] = Flushed(objects[instance])]
        BY <1>1, <1>4, <3>2, SameHelpers DEF Simple!OnOutput, Simple!OnResize
      <4>2. PICK x \in Objects : x.name = objects[instance].name /\ objects' = [objects EXCEPT ![instance] = x]
        BY <2>2, <4>1, HeardObject, FlushedObject
      <4> QED
        BY <1>1, <4>1, <4>2, OneObject
    <3> QED
      BY <3>1, <3>2
  <2>4. PageInv' /\ News'
    BY <1>1, <2>1, <2>3, TakesHolds DEF Renames
  <2>5. ShowsOne' /\ Simple!GhostsAreStale'
    BY <1>1, <2>1, <2>3, StillShown
  <2> QED
    BY <2>1, <2>4, <2>5 DEF SimpleInv
<1>5. CASE Simple!OnEnd
  <2>1. UNCHANGED <<live, removed, outputs, told, objects, instance, requests, stale>> /\ wire' = <<>>
    BY <1>5 DEF Simple!OnEnd, Simple!Ended, Simple!server, Simple!asking
  <2>2. Truthful(wire', removed) /\ NewsFirst(wire', live \cup removed, told)
    <3>1. NewsFirst(<<>>, live \cup removed, told)
      BY DEF NewsFirst
    <3> QED
      BY <2>1, <3>1, WireLost
  <2> QED
    BY <2>1, <2>2 DEF SimpleInv, PageInv, News, ShowsOne, Simple!GhostsAreStale
<1> QED
  BY <1>2, <1>3, <1>4, <1>5 DEF Simple!Handlers

(* The timers, and the window's resize event.                              *)
LEMMA SimpleTimers == SimpleInv /\ (Simple!Timers \/ Simple!WindowResized) => SimpleInv'
<1> SUFFICES ASSUME SimpleInv, Simple!Timers \/ Simple!WindowResized PROVE SimpleInv'
  OBVIOUS
<1>1. PageInv /\ News /\ ShowsOne /\ objects \in Seq(Objects) /\ stale \in BOOLEAN
      /\ (\A o \in 1..Len(objects) : objects[o] \in Objects) /\ DOMAIN objects = 1..Len(objects)
  BY LenProperties DEF SimpleInv, PageInv, ShowsOne
<1>2. CASE Simple!Poll
  <2>1. UNCHANGED <<live, removed, outputs, wire, told, objects, instance, stale>> /\ \A r \in requests' : Request(r)
    BY <1>2, AskedRequests DEF Simple!Poll, Simple!pageVars, Simple!server, SimpleInv
  <2> QED
    BY <2>1 DEF SimpleInv, PageInv, News, ShowsOne, Simple!GhostsAreStale
<1>3. ASSUME NEW o \in DOMAIN objects, Simple!Setup(o) \/ Simple!Attach(o) PROVE SimpleInv'
  <2>1. UNCHANGED <<live, removed, outputs, wire, told, instance, requests, stale>>
    BY <1>3 DEF Simple!Setup, Simple!Attach, Simple!server, Simple!asking
  <2>2. \/ UNCHANGED objects
        \/ objects' = [objects EXCEPT ![o] = [objects[o] EXCEPT !.term = TRUE]]
        \/ objects' = [objects EXCEPT ![o] = Flushed(objects[o])]
    BY <1>3, SameHelpers DEF Simple!Setup, Simple!Attach
  <2>3. Renames
    <3>1. CASE UNCHANGED objects
      BY <1>1, <3>1, SameObjects
    <3>2. CASE ~UNCHANGED objects
      <4>1. PICK x \in Objects : x.name = objects[o].name /\ objects' = [objects EXCEPT ![o] = x]
        BY <1>1, <1>3, <2>2, <3>2, FlushedObject
      <4> QED
        BY <1>1, <1>3, <4>1, OneObject
    <3> QED
      BY <3>1, <3>2
  <2>4. ShowsOne' /\ Simple!GhostsAreStale'
    BY <1>1, <2>1, <2>3, StillShown
  <2> QED
    BY <1>1, <2>1, <2>3, <2>4 DEF SimpleInv, PageInv, News, Renames
<1>4. CASE Simple!HandleResize \/ Simple!WindowResized
  <2>1. AskedResize /\ UNCHANGED <<told, objects, instance, requests, stale>>
    BY <1>4 DEF Simple!HandleResize, Simple!WindowResized, Simple!AskResize, Simple!link, Simple!server, Simple!asking,
                AskedResize, Sends
  <2>2. PageInv' /\ News'
    <3>1. objects' \in Seq(Objects) /\ told' \subseteq removed' /\ Sending
      BY <1>1, <2>1 DEF PageInv, AskedResize, Sending
    <3> QED
      BY <1>1, <2>1, <3>1, SendingHolds
  <2> QED
    BY <2>1, <2>2 DEF SimpleInv, ShowsOne, Simple!GhostsAreStale
<1> QED
  BY <1>2, <1>3, <1>4 DEF Simple!Timers

LEMMA SimpleNext == SimpleInv /\ Simple!Next => SimpleInv'
BY SimpleServer, SimpleLink, SimpleAnswers, SimpleHandlers, SimpleTimers DEF Simple!Next

-----------------------------------------------------------------------------
(* The classic page.  The answers on their way are true of the session.    *)
Answered ==
    /\ session \in {<<"asked">>, <<"failed">>, <<"handled">>} \cup {<<"lists", names>> : names \in SUBSET Names}
    /\ post \in {<<"none">>, <<"asked">>, <<"refused">>, <<"over">>} \cup {<<"made", name>> : name \in Names}
    /\ deletion \in {<<"none">>, <<"failed">>, <<"over">>} \cup {<<"asked", name>> : name \in Names}
                        \cup {<<"done", name>> : name \in removed}

(* The list and the index hold objects, the index under their names.       *)
Lists ==
    /\ list \in Seq(1..Len(objects)) /\ idx \in [Names -> 0..Len(objects)]
    /\ \A name \in Names : idx[name] # 0 => objects[idx[name]].name = name

Before == session # <<"handled">> =>
    /\ socket = "absent"
    /\ early \/ (list = <<>> /\ \A name \in Names : idx[name] = 0)

Indexed ==
    /\ \A j, k \in DOMAIN list : list[j] = list[k] => j = k
    /\ \A k \in DOMAIN list : idx[objects[list[k]].name] = list[k]
    /\ \A name \in Names : idx[name] # 0 => \E k \in DOMAIN list : list[k] = idx[name]

Forgotten == \A name \in told \ late : idx[name] = 0

ClassicInv == PageInv /\ Answered /\ Lists /\ Before /\ (early \/ Indexed) /\ Forgotten

LEMMA ClassicParts ==
  ASSUME ClassicInv
  PROVE  /\ objects \in Seq(Objects) /\ Len(objects) \in Nat /\ DOMAIN objects = 1..Len(objects)
         /\ list \in Seq(1..Len(objects)) /\ Len(list) \in Nat /\ DOMAIN list = 1..Len(list)
         /\ idx \in [Names -> 0..Len(objects)]
         /\ \A o \in 1..Len(objects) : objects[o] \in Objects /\ objects[o].name \in Names
         /\ \A k \in DOMAIN list : list[k] \in 1..Len(objects)
<1>1. /\ objects \in Seq(Objects) /\ Len(objects) \in Nat /\ DOMAIN objects = 1..Len(objects)
      /\ list \in Seq(1..Len(objects)) /\ Len(list) \in Nat /\ DOMAIN list = 1..Len(list)
      /\ idx \in [Names -> 0..Len(objects)]
  BY LenProperties DEF ClassicInv, PageInv, Lists
<1>2. \A o \in 1..Len(objects) : objects[o] \in Objects /\ objects[o].name \in Names
  <2>1. \A x \in Objects : x.name \in Names
    BY DEF Objects
  <2>2. \A o \in 1..Len(objects) : objects[o] \in Objects
    BY <1>1
  <2> QED
    BY <2>1, <2>2
<1>3. \A k \in DOMAIN list : list[k] \in 1..Len(objects)
  BY <1>1
<1> QED
  BY <1>1, <1>2, <1>3

LEMMA ClassicImplies == ClassicInv => ListMatchesIndex
<1> SUFFICES ASSUME ClassicInv PROVE ListMatchesIndex
  OBVIOUS
<1>1. ASSUME Indexed
      PROVE  /\ \A j, k \in DOMAIN list : objects[list[j]].name = objects[list[k]].name => j = k
             /\ \A name \in Names : idx[name] # 0 <=> \E k \in DOMAIN list : list[k] = idx[name]
  <2>1. ASSUME NEW j \in DOMAIN list, NEW k \in DOMAIN list, objects[list[j]].name = objects[list[k]].name PROVE j = k
    <3>1. list[j] = list[k]
      BY <1>1, <2>1 DEF Indexed
    <3> QED
      BY <1>1, <3>1 DEF Indexed
  <2>2. ASSUME NEW name \in Names, NEW k \in DOMAIN list, list[k] = idx[name] PROVE idx[name] # 0
    BY <2>2, ClassicParts
  <2>3. \A name \in Names : idx[name] # 0 => \E k \in DOMAIN list : list[k] = idx[name]
    BY <1>1 DEF Indexed
  <2> QED
    BY <2>1, <2>2, <2>3
<1>2. CASE early
  BY <1>2 DEF ClassicInv, Forgotten, ListMatchesIndex
<1>3. CASE Indexed
  BY <1>1, <1>3 DEF ClassicInv, Forgotten, ListMatchesIndex
<1> QED
  BY <1>2, <1>3 DEF ClassicInv

LEMMA ClassicInit == MCInit /\ page = "classic" => ClassicInv
<1> SUFFICES ASSUME MCInit, page = "classic" PROVE ClassicInv
  OBVIOUS
<1>1. PICK first \in SUBSET Names : PageInit(first)
  BY DEF MCInit, Init
<1>2. /\ live = first /\ removed \in SUBSET (Names \ first) /\ outputs = 0 /\ wire = <<>> /\ told = {} /\ objects = <<>>
      /\ session = <<"asked">> /\ post = <<"none">> /\ deletion = <<"none">> /\ socket = "absent"
      /\ list = <<>> /\ idx = [name \in Names |-> 0] /\ late = {}
  BY <1>1 DEF MCInit, Init, PageInit
<1>3. /\ <<>> \in Seq(Objects) /\ Len(<<>>) = 0 /\ Truthful(<<>>, removed) /\ DOMAIN <<>> = {}
      /\ <<>> \in Seq(1..0)
  BY EmptySeq, WireLost
<1>4. PageInv
  BY <1>2, <1>3 DEF PageInv
<1>5. Answered
  BY <1>2 DEF Answered
<1>6. Lists
  BY <1>2, <1>3 DEF Lists
<1>7. Before
  BY <1>2 DEF Before
<1>8. Indexed
  BY <1>2, <1>3 DEF Indexed
<1>9. Forgotten
  BY <1>2 DEF Forgotten
<1> QED
  BY <1>4, <1>5, <1>6, <1>7, <1>8, <1>9 DEF ClassicInv

-----------------------------------------------------------------------------
(* Steps that leave list and index alone.                                  *)
LEMMA ListsStay ==
  ASSUME ClassicInv, PageInv', Answered', Renames, UNCHANGED <<list, idx, early, late, told>>,
         session' # <<"handled">> => session # <<"handled">> /\ socket' = socket
  PROVE  ClassicInv'
<1>1. Lists'
  BY ClassicParts DEF ClassicInv, Lists, Renames
<1>2. Before'
  BY DEF ClassicInv, Before
<1>3. (early \/ Indexed)'
  <2>1. ASSUME Indexed PROVE Indexed'
    <3>1. \A k \in DOMAIN list : objects'[list[k]].name = objects[list[k]].name
      BY ClassicParts DEF Renames
    <3> QED
      BY <2>1, <3>1 DEF Indexed
  <2> QED
    BY <2>1 DEF ClassicInv
<1>4. Forgotten'
  BY DEF ClassicInv, Forgotten
<1> QED
  BY <1>1, <1>2, <1>3, <1>4 DEF ClassicInv

(* upsertInstance: a name without an object is given one, and listed.      *)
LEMMA UpsertHolds ==
  ASSUME ClassicInv, NEW name \in Names, Upserted(name), UNCHANGED <<removed, told>>
  PROVE  objects' \in Seq(Objects) /\ Lists' /\ (Indexed => Indexed') /\ Forgotten'
<1>1. CASE idx[name] # 0
  <2>1. UNCHANGED <<objects, list, idx, late>>
    BY <1>1 DEF Upserted
  <2> QED
    BY <2>1 DEF ClassicInv, PageInv, Lists, Indexed, Forgotten
<1>2. CASE idx[name] = 0
  <2> DEFINE x == NewObject(name, TRUE)
  <2>1. PICK new : new = Len(objects) + 1
    OBVIOUS
  <2>2. PICK last : last = Len(list) + 1
    OBVIOUS
  <2>3. x \in Objects /\ x.name = name
    BY FreshObject
  <2>4. /\ objects' = Append(objects, x) /\ list' = Append(list, new) /\ idx' = [idx EXCEPT ![name] = new]
        /\ late' = late \cup ({name} \cap removed)
    BY <1>2, <2>1 DEF Upserted
  <2> HIDE DEF x
  <2>5. /\ objects \in Seq(Objects) /\ Len(objects) \in Nat /\ idx \in [Names -> 0..Len(objects)]
        /\ list \in Seq(1..Len(objects)) /\ Len(list) \in Nat /\ DOMAIN list = 1..Len(list)
        /\ \A k \in DOMAIN list : list[k] \in 1..Len(objects)
        /\ \A o \in 1..Len(objects) : objects[o].name \in Names
    BY ClassicParts
  <2>6. /\ objects' \in Seq(Objects) /\ Len(objects') = Len(objects) + 1 /\ objects'[new] = x
        /\ \A o \in 1..Len(objects) : objects'[o] = objects[o]
    BY <2>1, <2>3, <2>4, <2>5, OneMore
  <2>7. /\ Len(list') = Len(list) + 1 /\ DOMAIN list' = 1..(Len(list) + 1) /\ list'[last] = new
        /\ \A k \in DOMAIN list : list'[k] = list[k]
    BY <2>2, <2>4, <2>5
  <2>8. /\ idx' \in [Names -> 0..Len(objects')] /\ idx'[name] = new
        /\ \A n \in Names \ {name} : idx'[n] = idx[n]
    BY <2>1, <2>4, <2>5, <2>6
  <2>9. list' \in Seq(1..Len(objects'))
    <3>1. list \in Seq(1..Len(objects')) /\ new \in 1..Len(objects')
      BY <2>1, <2>5, <2>6
    <3> QED
      BY <2>4, <3>1, AppendProperties
  <2>10. Lists'
    <3>1. ASSUME NEW n \in Names, idx'[n] # 0 PROVE objects'[idx'[n]].name = n
      <4>1. CASE n = name
        BY <2>3, <2>6, <2>8, <4>1
      <4>2. CASE n # name
        <5>1. idx'[n] = idx[n] /\ idx[n] \in 1..Len(objects) /\ objects[idx[n]].name = n
          BY <2>5, <2>8, <3>1, <4>2 DEF ClassicInv, Lists
        <5> QED
          BY <2>6, <5>1
      <4> QED
        BY <4>1, <4>2
    <3> QED
      BY <2>8, <2>9, <3>1 DEF Lists
  <2>11. ASSUME Indexed PROVE Indexed'
    <3>1. \A k \in DOMAIN list' : (k \in DOMAIN list /\ list'[k] = list[k]) \/ (k = last /\ list'[k] = new)
      BY <2>2, <2>5, <2>7
    <3>2. \A k \in DOMAIN list : list[k] # new /\ k # last
      BY <2>1, <2>2, <2>5
    <3>3. ASSUME NEW j \in DOMAIN list', NEW k \in DOMAIN list', list'[j] = list'[k] PROVE j = k
      BY <2>11, <3>1, <3>2, <3>3 DEF Indexed
    <3>4. ASSUME NEW k \in DOMAIN list' PROVE idx'[objects'[list'[k]].name] = list'[k]
      <4>1. CASE k = last /\ list'[k] = new
        BY <2>3, <2>6, <2>8, <4>1
      <4>2. CASE k \in DOMAIN list /\ list'[k] = list[k]
        <5>1. objects'[list'[k]] = objects[list[k]] /\ objects[list[k]].name \in Names
          BY <2>5, <2>6, <4>2
        <5>2. idx[objects[list[k]].name] = list[k] /\ list[k] # 0
          BY <2>5, <2>11, <4>2 DEF Indexed
        <5>3. objects[list[k]].name # name
          BY <1>2, <5>2
        <5> QED
          BY <2>8, <4>2, <5>1, <5>2, <5>3
      <4> QED
        BY <3>1, <4>1, <4>2
    <3>5. ASSUME NEW n \in Names, idx'[n] # 0 PROVE \E k \in DOMAIN list' : list'[k] = idx'[n]
      <4>1. CASE n = name
        <5>1. last \in DOMAIN list'
          BY <2>2, <2>5, <2>7
        <5> QED
          BY <2>7, <2>8, <4>1, <5>1
      <4>2. CASE n # name
        <5>1. PICK k \in DOMAIN list : list[k] = idx[n]
          BY <2>8, <2>11, <3>5, <4>2 DEF Indexed
        <5>2. k \in DOMAIN list'
          BY <2>5, <2>7
        <5> QED
          BY <2>7, <2>8, <4>2, <5>1, <5>2
      <4> QED
        BY <4>1, <4>2
    <3> QED
      BY <3>3, <3>4, <3>5 DEF Indexed
  <2>12. Forgotten'
    <3>1. ASSUME NEW n \in told' \ late' PROVE idx'[n] = 0
      <4>1. n \in told /\ n \in removed /\ n \in Names /\ n \notin late
        BY <2>4, <3>1 DEF ClassicInv, PageInv
      <4>2. n # name
        BY <2>4, <3>1, <4>1
      <4> QED
        BY <2>8, <4>1, <4>2 DEF ClassicInv, Forgotten
    <3> QED
      BY <3>1 DEF Forgotten
  <2> QED
    BY <2>6, <2>10, <2>11, <2>12
<1> QED
  BY <1>1, <1>2

(* removeInstance: a name's entry is cleared, and what is listed under it  *)
(* goes.                                                                   *)
LEMMA RemoveHolds ==
  ASSUME ClassicInv, NEW name \in Names, Removed(name), UNCHANGED <<objects, late>>, told' \subseteq told \cup {name}
  PROVE  /\ Lists' /\ (Indexed => Indexed') /\ Forgotten'
         /\ list = <<>> /\ (\A n \in Names : idx[n] = 0) => list' = <<>> /\ \A n \in Names : idx'[n] = 0
<1>1. /\ objects \in Seq(Objects) /\ Len(objects) \in Nat /\ idx \in [Names -> 0..Len(objects)]
      /\ list \in Seq(1..Len(objects)) /\ Len(list) \in Nat /\ DOMAIN list = 1..Len(list)
      /\ \A k \in DOMAIN list : list[k] \in 1..Len(objects)
      /\ \A o \in 1..Len(objects) : objects[o].name \in Names
  BY ClassicParts
<1>2. /\ idx' \in [Names -> 0..Len(objects)] /\ idx'[name] = 0 /\ \A n \in Names \ {name} : idx'[n] = idx[n]
  BY <1>1 DEF Removed
<1>3. Forgotten'
  <2>1. ASSUME NEW n \in told' \ late' PROVE idx'[n] = 0
    <3>1. CASE n = name
      BY <1>2, <3>1
    <3>2. CASE n # name
      <4>1. n \in told \ late /\ n \in Names
        BY <2>1, <3>2 DEF ClassicInv, PageInv
      <4> QED
        BY <1>2, <3>2, <4>1 DEF ClassicInv, Forgotten
    <3> QED
      BY <3>1, <3>2
  <2> QED
    BY <2>1 DEF Forgotten
<1>4. \A n \in Names : idx'[n] # 0 => n # name /\ idx'[n] = idx[n] /\ objects'[idx'[n]].name = n
  BY <1>2 DEF ClassicInv, Lists
<1>5. CASE idx[name] = 0
  <2>1. list' = list
    BY <1>5 DEF Removed
  <2>2. Lists'
    BY <1>1, <1>2, <1>4, <2>1 DEF Lists
  <2>3. ASSUME Indexed PROVE Indexed'
    <3>1. ASSUME NEW k \in DOMAIN list PROVE idx'[objects[list[k]].name] = list[k]
      <4>1. idx[objects[list[k]].name] = list[k] /\ list[k] # 0 /\ objects[list[k]].name \in Names
        BY <1>1, <2>3 DEF Indexed
      <4>2. objects[list[k]].name # name
        BY <1>5, <4>1
      <4> QED
        BY <1>2, <4>1, <4>2
    <3> QED
      BY <1>4, <2>1, <2>3, <3>1 DEF Indexed
  <2>4. (\A n \in Names : idx[n] = 0) => \A n \in Names : idx'[n] = 0
    BY <1>2
  <2> QED
    BY <1>3, <2>1, <2>2, <2>3, <2>4
<1>6. CASE idx[name] # 0
  <2>1. TakenOut(name)
    BY <1>6 DEF Removed
  <2> DEFINE others == {k \in DOMAIN list : objects[list[k]].name # name}
             size == Cardinality(others)
  <2>2. PICK place \in [1..size -> others] :
            /\ \A j, k \in DOMAIN place : j < k => place[j] < place[k]
            /\ others = {place[k] : k \in DOMAIN place}
            /\ list' = [k \in DOMAIN place |-> list[place[k]]]
    BY <2>1 DEF TakenOut
  <2>3. size \in Nat
    <3>1. IsFiniteSet(DOMAIN list)
      BY <1>1, FS_Interval
    <3>2. others \in SUBSET DOMAIN list
      OBVIOUS
    <3> QED
      BY <3>1, <3>2, FS_Subset, FS_CardinalityType
  <2>4. \A k \in others : k \in DOMAIN list /\ objects[list[k]].name # name
    OBVIOUS
  <2>5. \A k \in DOMAIN list : objects[list[k]].name # name => k \in others
    OBVIOUS
  <2> HIDE DEF others, size
  <2>6. /\ DOMAIN list' = 1..size /\ \A k \in 1..size : place[k] \in others /\ list'[k] = list[place[k]]
    BY <2>2
  <2>7. list' \in Seq(1..Len(objects))
    <3>1. \A k \in 1..size : list[place[k]] \in 1..Len(objects)
      BY <1>1, <2>4, <2>6
    <3>2. [k \in 1..size |-> list[place[k]]] \in Seq(1..Len(objects))
      BY <2>3, <3>1
    <3> QED
      BY <2>2, <3>2
  <2>8. Lists'
    BY <1>2, <1>4, <2>7 DEF Lists
  <2>9. ASSUME Indexed PROVE Indexed'
    <3>1. ASSUME NEW j \in 1..size, NEW k \in 1..size, list'[j] = list'[k] PROVE j = k
      <4>1. place[j] = place[k]
        BY <2>4, <2>6, <2>9, <3>1 DEF Indexed
      <4>2. ~(j < k) /\ ~(k < j)
        <5>1. place[j] \in Int /\ place[k] \in Int /\ DOMAIN place = 1..size
          <6>1. place[j] \in DOMAIN list /\ place[k] \in DOMAIN list /\ DOMAIN place = 1..size
            BY <2>2, <2>4, <2>6
          <6> QED
            BY <1>1, <6>1
        <5> QED
          BY <2>2, <4>1, <5>1
      <4> QED
        BY <2>3, <4>2
    <3>2. ASSUME NEW k \in 1..size PROVE idx'[objects'[list'[k]].name] = list'[k]
      <4>1. place[k] \in DOMAIN list /\ objects[list[place[k]]].name # name /\ list'[k] = list[place[k]]
        BY <2>4, <2>6
      <4>2. objects[list[place[k]]].name \in Names
        BY <1>1, <4>1
      <4>3. idx[objects[list[place[k]]].name] = list[place[k]]
        BY <2>9, <4>1 DEF Indexed
      <4> QED
        BY <1>2, <4>1, <4>2, <4>3
    <3>3. ASSUME NEW n \in Names, idx'[n] # 0 PROVE \E k \in 1..size : list'[k] = idx'[n]
      <4>1. n # name /\ idx'[n] = idx[n] /\ objects[idx[n]].name = n
        BY <1>4, <3>3
      <4>2. PICK k \in DOMAIN list : list[k] = idx[n]
        BY <2>9, <3>3, <4>1 DEF Indexed
      <4>3. k \in others
        BY <2>5, <4>1, <4>2
      <4>4. PICK j \in 1..size : place[j] = k
        BY <2>2, <4>3
      <4> QED
        BY <2>6, <4>1, <4>2, <4>4
    <3> QED
      BY <2>6, <3>1, <3>2, <3>3 DEF Indexed
  <2> QED
    BY <1>3, <1>6, <2>8, <2>9
<1> QED
  BY <1>5, <1>6

-----------------------------------------------------------------------------
(* As many places as there are names, and each name has one: no two share  *)
(* a name.                                                                 *)
LEMMA OrderIsInjective ==
  ASSUME NEW names \in SUBSET Names, NEW order \in [1..Cardinality(names) -> names],
         {order[k] : k \in DOMAIN order} = names
  PROVE  /\ Cardinality(names) \in Nat
         /\ \A j, k \in 1..Cardinality(names) : order[j] = order[k] => j = k
<1>1. IsFiniteSet(names) /\ Cardinality(names) \in Nat
  BY PageAssumption, FS_Subset, FS_CardinalityType
<1>2. IsFiniteSet(1..Cardinality(names)) /\ Cardinality(1..Cardinality(names)) = Cardinality(names)
  <2>1. 1 \in Int /\ Cardinality(names) \in Int
    BY <1>1
  <2>2. /\ IsFiniteSet(1..Cardinality(names))
        /\ Cardinality(1..Cardinality(names)) = IF 1 > Cardinality(names) THEN 0 ELSE Cardinality(names) - 1 + 1
    BY <2>1, FS_Interval
  <2> QED
    BY <1>1, <2>2
<1>3. order \in Surjection(1..Cardinality(names), names)
  BY DEF Surjection
<1>4. order \in Injection(1..Cardinality(names), names)
  BY <1>2, <1>3, FS_SurjSameCardinalityImpliesInj
<1> QED
  BY <1>1, <1>4 DEF Injection, IsInjective

LEMMA AsSequence == ASSUME NEW T, NEW k \in Nat, NEW f \in [1..k -> T] PROVE f \in Seq(T) /\ Len(f) = k
OBVIOUS

(* getSession is answered: every instance of the answer gets an object.    *)
LEMMA GotSessionHolds == ClassicInv /\ GotSession => ClassicInv'
<1> SUFFICES ASSUME ClassicInv, GotSession PROVE ClassicInv'
  OBVIOUS
<1>1. /\ objects \in Seq(Objects) /\ Len(objects) \in Nat /\ idx \in [Names -> 0..Len(objects)]
      /\ list \in Seq(1..Len(objects)) /\ Len(list) \in Nat /\ DOMAIN list = 1..Len(list)
      /\ \A k \in DOMAIN list : list[k] \in 1..Len(objects)
  BY ClassicParts
<1>2. PICK names \in SUBSET Names : session = <<"lists", names>>
  BY DEF GotSession, ClassicInv, Answered
<1>3. session[2] = names /\ session # <<"handled">>
  <2>1. Len(<<"lists", names>>) = 2 /\ Len(<<"handled">>) = 1
    OBVIOUS
  <2> QED
    BY <1>2, <2>1
<1>4. PICK n : n = Cardinality(names)
  OBVIOUS
<1>5. PICK m : m = Len(objects)
  OBVIOUS
<1>6. PICK order \in [1..Cardinality(session[2]) -> session[2]] :
        /\ {order[k] : k \in DOMAIN order} = session[2]
        /\ objects' = objects \o [k \in DOMAIN order |-> NewObject(order[k], FALSE)]
        /\ list' = list \o [k \in DOMAIN order |-> Len(objects) + k]
        /\ idx' = [name \in Names |-> IF name \in session[2]
                        THEN Len(objects) + CHOOSE k \in DOMAIN order : order[k] = name ELSE idx[name]]
  BY DEF GotSession
<1>7. /\ session' = <<"handled">> /\ late' = late \cup (names \cap removed)
      /\ UNCHANGED <<live, removed, outputs, wire, told, post, deletion, early>>
  BY <1>3 DEF GotSession, server
<1>8. n \in Nat /\ DOMAIN order = 1..n /\ order \in [1..n -> names] /\ \A j, k \in 1..n : order[j] = order[k] => j = k
  <2>1. order \in [1..Cardinality(names) -> names] /\ {order[k] : k \in DOMAIN order} = names
    BY <1>3, <1>6
  <2>2. /\ Cardinality(names) \in Nat
        /\ \A j, k \in 1..Cardinality(names) : order[j] = order[k] => j = k
    BY <2>1, OrderIsInjective
  <2> QED
    BY <1>4, <2>1, <2>2
<1>9. m \in Nat
  BY <1>1, <1>5
<1> DEFINE at(name) == CHOOSE k \in DOMAIN order : order[k] = name
<1>10. \A name \in names : at(name) \in 1..n /\ order[at(name)] = name
  <2>1. SUFFICES ASSUME NEW name \in names PROVE \E k \in 1..n : order[k] = name
    BY <1>8
  <2> QED
    BY <1>3, <1>6, <1>8
<1>11. /\ idx' \in [Names -> Int]
       /\ \A name \in names : idx'[name] = m + at(name)
       /\ \A name \in Names \ names : idx'[name] = idx[name]
  <2>1. idx' = [name \in Names |-> IF name \in session[2] THEN Len(objects) + at(name) ELSE idx[name]]
    BY <1>6
  <2> HIDE DEF at
  <2>2. \A name \in names : idx'[name] = m + at(name) /\ m + at(name) \in Int
    <3>1. SUFFICES ASSUME NEW name \in names PROVE idx'[name] = m + at(name) /\ m + at(name) \in Int
      OBVIOUS
    <3>2. name \in session[2] /\ name \in Names /\ at(name) \in Nat
      BY <1>3, <1>8, <1>10
    <3>3. idx'[name] = Len(objects) + at(name)
      BY <2>1, <3>2
    <3> QED
      BY <1>5, <1>9, <3>2, <3>3
  <2>3. \A name \in Names \ names : idx'[name] = idx[name] /\ idx[name] \in Int
    BY <1>1, <1>3, <2>1
  <2>4. idx' = [name \in Names |-> idx'[name]]
    BY <2>1
  <2> QED
    BY <2>2, <2>3, <2>4
<1> HIDE DEF at
<1> DEFINE more == [k \in 1..n |-> NewObject(order[k], FALSE)]
           places == [k \in 1..n |-> m + k]
<1>12. /\ more \in Seq(Objects) /\ Len(more) = n
       /\ \A k \in 1..n : more[k].name = order[k]
  <2>1. \A k \in 1..n : NewObject(order[k], FALSE) \in Objects /\ NewObject(order[k], FALSE).name = order[k]
    BY <1>8, FreshObject
  <2>2. more \in [1..n -> Objects]
    BY <2>1
  <2>3. more \in Seq(Objects) /\ Len(more) = n
    BY <1>8, <2>2, AsSequence
  <2> QED
    BY <2>1, <2>3
<1>13. /\ places \in Seq(1..(m + n)) /\ Len(places) = n
       /\ \A k \in 1..n : places[k] = m + k
  <2>1. places \in [1..n -> 1..(m + n)]
    BY <1>8, <1>9
  <2> QED
    BY <1>8, <2>1, AsSequence
<1>14. objects' = objects \o more /\ list' = list \o places
  BY <1>5, <1>6, <1>8
<1> HIDE DEF more, places
<1>15. /\ objects' \in Seq(Objects) /\ Len(objects') = m + n
       /\ \A o \in 1..m : objects'[o] = objects[o]
       /\ \A k \in 1..n : objects'[m + k].name = order[k]
  <2>1. /\ objects' \in Seq(Objects) /\ Len(objects') = m + n
        /\ \A o \in 1..(m + n) : objects'[o] = IF o <= m THEN objects[o] ELSE more[o - m]
    BY <1>1, <1>5, <1>12, <1>14, ConcatProperties
  <2>2. \A k \in 1..n : m + k \in 1..(m + n) /\ ~(m + k <= m) /\ m + k - m = k
    BY <1>8, <1>9
  <2>3. \A o \in 1..m : o \in 1..(m + n) /\ o <= m
    BY <1>8, <1>9
  <2>4. \A o \in 1..m : objects'[o] = objects[o]
    BY <2>1, <2>3
  <2>5. \A k \in 1..n : objects'[m + k].name = order[k]
    <3>1. SUFFICES ASSUME NEW k \in 1..n PROVE objects'[m + k].name = order[k]
      OBVIOUS
    <3>2. m + k \in 1..(m + n) /\ ~(m + k <= m) /\ m + k - m = k
      BY <2>2
    <3>3. PICK o : o = m + k
      OBVIOUS
    <3>4. objects'[o] = more[o - m]
      BY <2>1, <3>2, <3>3
    <3>5. o - m = k
      BY <1>8, <1>9, <3>2, <3>3
    <3>6. objects'[o].name = order[k]
      BY <1>12, <3>4, <3>5
    <3> QED
      BY <3>3, <3>6
  <2> QED
    BY <2>1, <2>4, <2>5
<1>16. list' \in Seq(1..(m + n))
  <2>1. list \in Seq(1..(m + n))
    <3>1. 1..Len(objects) \subseteq 1..(m + n)
      BY <1>5, <1>8, <1>9
    <3> QED
      BY <1>1, <3>1, SeqMonotonic
  <2> QED
    BY <1>13, <1>14, <2>1, ConcatProperties
<1>17. Lists'
  <2>1. ASSUME NEW name \in Names
        PROVE  idx'[name] \in 0..(m + n) /\ (idx'[name] # 0 => objects'[idx'[name]].name = name)
    <3>1. CASE name \in names
      <4>1. PICK k \in 1..n : k = at(name) /\ order[k] = name
        BY <1>10, <3>1
      <4>2. idx'[name] = m + k /\ m + k \in 1..(m + n)
        BY <1>8, <1>9, <1>11, <3>1, <4>1
      <4>3. objects'[idx'[name]].name = name
        BY <1>15, <4>1, <4>2
      <4> QED
        BY <1>8, <1>9, <4>2, <4>3
    <3>2. CASE name \notin names
      <4>1. idx'[name] = idx[name] /\ idx[name] \in 0..m /\ (idx[name] # 0 => objects[idx[name]].name = name)
        BY <1>1, <1>5, <1>11, <3>2 DEF ClassicInv, Lists
      <4> QED
        BY <1>8, <1>9, <1>15, <4>1
    <3> QED
      BY <3>1, <3>2
  <2>2. idx' \in [Names -> 0..(m + n)]
    BY <1>11, <2>1
  <2> QED
    BY <1>15, <1>16, <2>1, <2>2 DEF Lists
<1>18. ASSUME list = <<>>, \A name \in Names : idx[name] = 0 PROVE Indexed'
  <2>1. DOMAIN list' = 1..n /\ \A k \in 1..n : list'[k] = m + k
    <3>1. /\ list' \in Seq(1..(m + n)) /\ Len(list) = 0 /\ Len(list') = n
          /\ \A k \in 1..n : list'[k] = IF k <= 0 THEN list[k] ELSE places[k - 0]
      <4>1. Len(list) = 0
        BY <1>18
      <4>2. list \in Seq(1..(m + n))
        BY <1>18
      <4>3. 0 + n = n
        BY <1>8
      <4> QED
        BY <1>13, <1>14, <1>16, <4>1, <4>2, <4>3, ConcatProperties
    <3>2. \A k \in 1..n : ~(k <= 0) /\ k - 0 = k
      BY <1>8
    <3> QED
      BY <1>13, <3>1, <3>2, LenProperties
  <2>2. \A j, k \in 1..n : list'[j] = list'[k] => j = k
    BY <1>8, <1>9, <2>1
  <2>3. ASSUME NEW k \in 1..n PROVE idx'[objects'[list'[k]].name] = list'[k]
    <3>1. objects'[list'[k]].name = order[k] /\ order[k] \in names
      BY <1>8, <1>15, <2>1
    <3>2. at(order[k]) = k
      BY <1>8, <1>10, <3>1
    <3> QED
      BY <1>11, <2>1, <3>1, <3>2
  <2>4. ASSUME NEW name \in Names, idx'[name] # 0 PROVE \E k \in 1..n : list'[k] = idx'[name]
    BY <1>10, <1>11, <1>18, <2>1, <2>4
  <2> QED
    BY <2>1, <2>2, <2>3, <2>4 DEF Indexed
<1>19. (early \/ Indexed)'
  <2>1. early \/ (list = <<>> /\ \A name \in Names : idx[name] = 0)
    BY <1>3 DEF ClassicInv, Before
  <2>2. CASE early
    BY <1>7, <2>2, Zenon
  <2>3. CASE list = <<>> /\ \A name \in Names : idx[name] = 0
    BY <1>18, <2>3
  <2> QED
    BY <2>1, <2>2, <2>3
<1>20. Forgotten'
  <2>1. ASSUME NEW name \in told' \ late' PROVE idx'[name] = 0
    <3>1. name \in told \ late /\ name \in removed /\ name \in Names /\ name \notin names
      BY <1>7, <2>1 DEF ClassicInv, PageInv
    <3> QED
      BY <1>11, <3>1 DEF ClassicInv, Forgotten
  <2> QED
    BY <2>1 DEF Forgotten
<1>21. PageInv'
  BY <1>7, <1>15 DEF ClassicInv, PageInv
<1>22. Answered'
  BY <1>7 DEF ClassicInv, Answered
<1>23. Before'
  BY <1>7 DEF Before
<1> QED
  BY <1>17, <1>19, <1>20, <1>21, <1>22, <1>23 DEF ClassicInv

-----------------------------------------------------------------------------
(* The other answers.                                                      *)
LEMMA DeletionParts ==
  ASSUME Answered
  PROVE  /\ deletion[1] = "asked" => deletion[2] \in Names
         /\ deletion[1] = "done" => deletion[2] \in removed /\ DOMAIN deletion \ {1} = {2}
         /\ deletion[1] = "failed" => DOMAIN deletion \ {1} = {}
         /\ post[1] = "made" => post[2] \in Names
<1>1. CASE deletion \in {<<"none">>, <<"failed">>, <<"over">>}
  BY <1>1 DEF Answered
<1>2. CASE \E name \in Names : deletion = <<"asked", name>>
  BY <1>2 DEF Answered
<1>3. CASE \E name \in removed : deletion = <<"done", name>>
  BY <1>3 DEF Answered
<1> QED
  BY <1>1, <1>2, <1>3 DEF Answered

LEMMA ClassicServer ==
  ASSUME ClassicInv, Server \/ AnswerSession \/ AnswerPost \/ AnswerDelete
  PROVE  ClassicInv'
<1>1. /\ Sending \/ UNCHANGED <<live, removed, outputs, wire>>
      /\ UNCHANGED <<told, objects, list, idx, early, late>>
  <2>1. CASE Server
    BY <2>1 DEF Server, Created, Deleted, Printed, Expired, Sent, Sending, MadeOne, GoneOne, PrintedOne, GoneAll, Sends,
                listVars, requestVars
  <2>2. CASE AnswerSession
    BY <2>2 DEF AnswerSession, pageVars, server, listVars
  <2>3. CASE AnswerPost
    BY <2>3 DEF AnswerPost, Created, Sent, Sending, MadeOne, Sends, server, listVars
  <2>4. CASE AnswerDelete
    <3>1. deletion[1] = "asked" => deletion[2] \in Names
      BY DeletionParts DEF ClassicInv
    <3> QED
      BY <2>4, <3>1 DEF AnswerDelete, Deleted, Sent, Sending, GoneOne, Sends, server, listVars
  <2> QED
    BY <2>1, <2>2, <2>3, <2>4
<1>2. removed \subseteq removed'
  BY <1>1 DEF Sending, MadeOne, GoneOne, PrintedOne, GoneAll, AskedResize, LostAll
<1>3. PageInv'
  <2>1. CASE Sending
    <3>1. objects' \in Seq(Objects) /\ told' \subseteq removed'
      BY <1>1, <1>2 DEF ClassicInv, PageInv
    <3> QED
      BY <2>1, <3>1, SendingHolds DEF ClassicInv
  <2>2. CASE UNCHANGED <<live, removed, outputs, wire>>
    BY <1>1, <2>2 DEF ClassicInv, PageInv
  <2> QED
    BY <1>1, <2>1, <2>2
<1>4. Answered'
  <2>1. CASE Server
    BY <1>2, <2>1 DEF Server, requestVars, ClassicInv, Answered
  <2>2. CASE AnswerSession
    BY <1>2, <2>2 DEF AnswerSession, ClassicInv, PageInv, Answered
  <2>3. CASE AnswerPost
    BY <1>2, <2>3 DEF AnswerPost, ClassicInv, Answered
  <2>4. CASE AnswerDelete
    <3>1. deletion' = <<"failed">> \/ (deletion' = <<"done", deletion[2]>> /\ deletion[2] \in removed')
      BY <2>4 DEF AnswerDelete, Deleted
    <3>2. UNCHANGED <<session, post>>
      BY <2>4 DEF AnswerDelete
    <3> QED
      BY <1>2, <3>1, <3>2 DEF ClassicInv, Answered
  <2> QED
    BY <2>1, <2>2, <2>3, <2>4
<1>5. session' # <<"handled">> => session # <<"handled">> /\ socket' = socket
  BY DEF Server, AnswerSession, AnswerPost, AnswerDelete, requestVars, pageVars, link
<1>6. Renames
  BY <1>1, SameObjects DEF ClassicInv, PageInv
<1> QED
  BY <1>1, <1>3, <1>4, <1>5, <1>6, ListsStay

LEMMA GotPostHolds == ClassicInv /\ GotPost => ClassicInv'
<1> SUFFICES ASSUME ClassicInv, GotPost PROVE ClassicInv'
  OBVIOUS
<1>1. /\ post[1] \in {"made", "refused"} /\ post' = <<"over">> /\ UNCHANGED <<live, removed, outputs, wire, told, session, deletion, socket>>
      /\ IF post[1] = "made" THEN Upserted(post[2]) ELSE UNCHANGED <<objects, list, idx, late>>
      /\ early' = (early \/ (post[1] = "made" /\ session # <<"handled">>))
  BY DEF GotPost, server, link
<1>2. Answered'
  BY <1>1 DEF ClassicInv, Answered
<1>3. CASE post[1] = "made"
  <2>1. post[2] \in Names
    BY <1>3, DeletionParts DEF ClassicInv
  <2>2. objects' \in Seq(Objects) /\ Lists' /\ (Indexed => Indexed') /\ Forgotten'
    BY <1>1, <1>3, <2>1, UpsertHolds
  <2>3. PageInv'
    BY <1>1, <2>2 DEF ClassicInv, PageInv
  <2> DEFINE first == post[1] = "made" /\ session # <<"handled">>
  <2>4. first <=> session' # <<"handled">>
    BY <1>1, <1>3
  <2>5. early' = (early \/ first)
    BY <1>1
  <2> HIDE DEF first
  <2>6. (early \/ Indexed)'
    BY <2>2, <2>5, Zenon DEF ClassicInv
  <2>7. session' # <<"handled">> => early'
    BY <2>4, <2>5, Zenon
  <2>8. Before'
    BY <1>1, <2>7 DEF ClassicInv, Before
  <2> QED
    BY <1>2, <2>2, <2>3, <2>6, <2>8 DEF ClassicInv
<1>4. CASE post[1] # "made"
  <2>1. UNCHANGED <<objects, list, idx, late>>
    BY <1>1, <1>4
  <2>2. early => early'
    BY <1>1, Zenon
  <2>3. PageInv' /\ Lists' /\ Forgotten' /\ (Indexed => Indexed')
    BY <1>1, <2>1 DEF ClassicInv, PageInv, Lists, Forgotten, Indexed
  <2>4. (early \/ Indexed)'
    BY <2>2, <2>3 DEF ClassicInv
  <2>5. Before'
    BY <1>1, <2>1, <2>2 DEF ClassicInv, Before
  <2> QED
    BY <1>2, <2>3, <2>4, <2>5 DEF ClassicInv
<1> QED
  BY <1>3, <1>4

LEMMA GotDeleteHolds == ClassicInv /\ GotDelete => ClassicInv'
<1> SUFFICES ASSUME ClassicInv, GotDelete PROVE ClassicInv'
  OBVIOUS
<1>1. /\ deletion[1] \in {"done", "failed"} /\ deletion' = <<"over">>
      /\ UNCHANGED <<live, removed, outputs, wire, objects, session, post, early, late, socket>>
      /\ IF deletion[1] = "done" THEN Removed(deletion[2]) ELSE UNCHANGED <<list, idx>>
      /\ told' = told \cup {deletion[k] : k \in (DOMAIN deletion) \ {1}}
  BY DEF GotDelete, server, link, listVars
<1>2. Answered'
  BY <1>1 DEF ClassicInv, Answered
<1>3. CASE deletion[1] = "done"
  <2>1. deletion[2] \in removed /\ DOMAIN deletion \ {1} = {2}
    BY <1>3, DeletionParts DEF ClassicInv
  <2>2. told' = told \cup {deletion[2]} /\ deletion[2] \in Names
    BY <1>1, <2>1 DEF ClassicInv, PageInv
  <2>3. /\ Lists' /\ (Indexed => Indexed') /\ Forgotten'
        /\ list = <<>> /\ (\A n \in Names : idx[n] = 0) => list' = <<>> /\ \A n \in Names : idx'[n] = 0
    BY <1>1, <1>3, <2>2, RemoveHolds
  <2>4. PageInv'
    BY <1>1, <2>1, <2>2 DEF ClassicInv, PageInv
  <2>5. Before'
    BY <1>1, <2>3 DEF ClassicInv, Before
  <2> QED
    BY <1>1, <1>2, <2>3, <2>4, <2>5 DEF ClassicInv
<1>4. CASE deletion[1] # "done"
  <2>1. DOMAIN deletion \ {1} = {}
    BY <1>1, <1>4, DeletionParts DEF ClassicInv
  <2>2. UNCHANGED <<list, idx, told>>
    BY <1>1, <1>4, <2>1
  <2>3. PageInv'
    BY <1>1, <2>2 DEF ClassicInv, PageInv
  <2>4. Renames
    BY <1>1, SameObjects DEF ClassicInv, PageInv
  <2> QED
    BY <1>1, <1>2, <2>2, <2>3, <2>4, ListsStay
<1> QED
  BY <1>3, <1>4

(* The page's requests, its end of the socket, its timers.                 *)
LEMMA ClassicOwn ==
  ASSUME ClassicInv,
         \/ NewInstance \/ DeleteInstance \/ Open \/ Join \/ Lost \/ SendGeometry \/ Select
         \/ \E o \in DOMAIN objects : MakeTerminal(o) \/ Type(o) \/ Tick(o)
  PROVE  ClassicInv'
<1>1. PageInv /\ objects \in Seq(Objects) /\ DOMAIN objects = 1..Len(objects) /\ \A o \in 1..Len(objects) : objects[o] \in Objects
  BY ClassicParts DEF ClassicInv
<1>2. CASE SendGeometry \/ Lost
  <2>1. /\ Sending /\ UNCHANGED <<told, objects, list, idx, early, late, session, post, deletion, removed>>
    BY <1>2 DEF SendGeometry, AskResize, Lost, Broken, Sending, AskedResize, LostAll, Sends, server, listVars, requestVars
  <2>2. PageInv'
    <3>1. objects' \in Seq(Objects) /\ told' \subseteq removed'
      BY <1>1, <2>1 DEF PageInv
    <3> QED
      BY <1>1, <2>1, <3>1, SendingHolds
  <2>3. session' # <<"handled">> => session # <<"handled">> /\ socket' = socket
    BY <1>2, <2>1 DEF SendGeometry, Lost, Broken, Connected, link, ClassicInv, Before
  <2>4. Answered' /\ Renames
    BY <1>1, <2>1, SameObjects DEF ClassicInv, Answered
  <2> QED
    BY <2>1, <2>2, <2>3, <2>4, ListsStay
<1>3. CASE NewInstance \/ DeleteInstance \/ Open \/ Join \/ Select
  <2>1. UNCHANGED <<live, removed, outputs, wire, told, objects, list, idx, early, late, session>>
    BY <1>3 DEF NewInstance, DeleteInstance, Open, Join, Joined, Select, pageVars, server, listVars, requestVars
  <2>2. PageInv' /\ Renames
    BY <1>1, <2>1, SameObjects DEF PageInv
  <2>3. Answered'
    <3>1. CASE NewInstance \/ Open \/ Join \/ Select
      BY <2>1, <3>1 DEF NewInstance, Open, Join, Select, requestVars, ClassicInv, Answered
    <3>2. CASE DeleteInstance
      <4>1. PICK k \in DOMAIN list : list[k] = selected /\ deletion' = <<"asked", objects[selected].name>>
        BY <3>2 DEF DeleteInstance
      <4>2. objects[selected].name \in Names
        BY <4>1, ClassicParts
      <4> QED
        BY <2>1, <3>2, <4>1, <4>2 DEF DeleteInstance, ClassicInv, Answered
    <3> QED
      BY <1>3, <3>1, <3>2
  <2>4. session' # <<"handled">> => session # <<"handled">> /\ socket' = socket
    BY <1>3, <2>1 DEF NewInstance, DeleteInstance, Open, Join, Joined, Select, pageVars, link, ClassicInv, Before
  <2> QED
    BY <2>1, <2>2, <2>3, <2>4, ListsStay
<1>4. ASSUME NEW o \in DOMAIN objects, MakeTerminal(o) \/ Type(o) \/ Tick(o) PROVE ClassicInv'
  <2>1. /\ UNCHANGED <<live, removed, outputs, wire, told, list, idx, early, late, session, post, deletion, socket>>
        /\ UNCHANGED objects \/ objects' = [objects EXCEPT ![o] = [objects[o] EXCEPT !.term = TRUE]]
    BY <1>4 DEF MakeTerminal, Type, Tick, pageVars, server, link, listVars, requestVars
  <2>2. Renames
    <3>1. CASE UNCHANGED objects
      BY <1>1, <3>1, SameObjects
    <3>2. CASE objects' = [objects EXCEPT ![o] = [objects[o] EXCEPT !.term = TRUE]]
      <4>1. PICK x \in Objects : x.name = objects[o].name /\ objects' = [objects EXCEPT ![o] = x]
        BY <1>1, <1>4, <3>2, FlushedObject
      <4> QED
        BY <1>1, <1>4, <4>1, OneObject
    <3> QED
      BY <2>1, <3>1, <3>2
  <2>3. PageInv' /\ Answered'
    BY <1>1, <2>1, <2>2 DEF ClassicInv, PageInv, Answered, Renames
  <2> QED
    BY <2>1, <2>2, <2>3, ListsStay
<1> QED
  BY <1>2, <1>3, <1>4

(* The handlers of events.                                                 *)
LEMMA ClassicHandlers == ClassicInv /\ Handlers => ClassicInv'
<1> SUFFICES ASSUME ClassicInv, Handlers PROVE ClassicInv'
  OBVIOUS
<1>1. PageInv /\ objects \in Seq(Objects) /\ DOMAIN objects = 1..Len(objects) /\ (\A o \in 1..Len(objects) : objects[o] \in Objects)
      /\ Answered
  BY ClassicParts DEF ClassicInv
<1>2. session = <<"handled">> /\ UNCHANGED <<session, post, deletion, early>> /\ UNCHANGED removed
  BY DEF Handlers, OnNew, OnDelete, OnOutput, OnResize, OnEnd, Arrives, Ended, server, requestVars, ClassicInv, Before
<1>3. Answered' /\ Before'
  BY <1>1, <1>2 DEF Answered, Before
<1>4. CASE OnNew
  <2>1. Takes /\ UNCHANGED told /\ Head(wire)[1] = "new" /\ Upserted(Head(wire)[2])
    BY <1>4 DEF OnNew, Arrives, server, Takes
  <2>2. Head(wire)[2] \in Names
    <3>1. wire # <<>> /\ Truthful(wire, removed)
      BY <1>1, <2>1 DEF PageInv, Takes
    <3>2. Head(wire) \in Messages
      BY <3>1, WireTaken
    <3> QED
      BY <2>1, <3>2, MessageParts
  <2>3. objects' \in Seq(Objects) /\ Lists' /\ (Indexed => Indexed') /\ Forgotten'
    BY <1>2, <2>1, <2>2, UpsertHolds
  <2>4. PageInv'
    BY <1>1, <2>1, <2>3, TakesHolds
  <2> QED
    BY <1>2, <1>3, <2>3, <2>4 DEF ClassicInv
<1>5. CASE OnDelete
  <2>1. /\ Takes /\ told' = told \cup {Head(wire)[2]} /\ Head(wire)[1] = "delete" /\ Removed(Head(wire)[2])
        /\ UNCHANGED <<objects, late>>
    BY <1>5 DEF OnDelete, Arrives, server, requestVars, Takes
  <2>2. PageInv' /\ Head(wire)[2] \in Names
    BY <1>1, <2>1, TakesHolds
  <2>3. Lists' /\ (Indexed => Indexed') /\ Forgotten'
    BY <2>1, <2>2, RemoveHolds
  <2> QED
    BY <1>2, <1>3, <2>2, <2>3 DEF ClassicInv
<1>6. CASE OnOutput
  <2>1. Takes /\ UNCHANGED <<told, list, idx, late>> /\ Head(wire)[1] = "out"
    BY <1>6 DEF OnOutput, Arrives, server, requestVars, listVars, Takes
  <2>2. Head(wire)[2] \in Names /\ Head(wire)[3] \in Nat
    <3>1. wire # <<>> /\ Truthful(wire, removed)
      BY <1>1, <2>1 DEF PageInv, Takes
    <3>2. Head(wire) \in Messages
      BY <3>1, WireTaken
    <3> QED
      BY <2>1, <3>2, MessageParts
  <2> DEFINE o == idx[Head(wire)[2]]
  <2>3. o \in 0..Len(objects)
    BY <2>2, ClassicParts
  <2>4. objects' = IF o = 0 THEN objects ELSE [objects EXCEPT ![o] = Heard(objects[o], Head(wire)[3])]
    BY <1>6 DEF OnOutput
  <2> HIDE DEF o
  <2>5. Renames
    <3>1. CASE o = 0
      BY <1>1, <2>4, <3>1, SameObjects
    <3>2. CASE o # 0
      <4>1. o \in 1..Len(objects)
        BY <1>1, <2>3, <3>2
      <4>2. PICK x \in Objects : x.name = objects[o].name /\ objects' = [objects EXCEPT ![o] = x]
        BY <1>1, <2>2, <2>4, <3>2, <4>1, HeardObject
      <4> QED
        BY <1>1, <4>1, <4>2, OneObject
    <3> QED
      BY <3>1, <3>2
  <2>6. PageInv'
    BY <1>1, <2>1, <2>5, TakesHolds DEF Renames
  <2> QED
    BY <1>2, <1>3, <2>1, <2>5, <2>6, ListsStay
<1>7. CASE OnResize
  <2>1. Takes /\ UNCHANGED <<told, list, idx, late>>
    BY <1>7 DEF OnResize, Arrives, server, requestVars, listVars, Takes
  <2>2. objects' = [o \in 1..Len(objects) |-> IF o \in WithTerm THEN Flushed(objects[o]) ELSE objects[o]]
    BY <1>1, <1>7 DEF OnResize
  <2>3. Renames
    <3>1. \A o \in 1..Len(objects) : objects'[o] \in Objects /\ objects'[o].name = objects[o].name
      BY <1>1, <2>2, FlushedObject
    <3>2. objects' \in [1..Len(objects) -> Objects] /\ Len(objects) \in Nat
      BY <1>1, <2>2, <3>1, LenProperties
    <3>3. objects' \in Seq(Objects) /\ Len(objects') = Len(objects)
      BY <3>2, AsSequence
    <3> QED
      BY <3>1, <3>3 DEF Renames
  <2>4. PageInv'
    BY <1>1, <2>1, <2>3, TakesHolds DEF Renames
  <2> QED
    BY <1>2, <1>3, <2>1, <2>3, <2>4, ListsStay
<1>8. CASE OnEnd
  <2>1. UNCHANGED <<live, removed, outputs, told, objects, list, idx, late>> /\ wire' = <<>>
    BY <1>8 DEF OnEnd, Ended, server, requestVars, listVars
  <2>2. PageInv' /\ Renames
    BY <1>1, <2>1, WireLost, SameObjects DEF PageInv
  <2> QED
    BY <1>2, <1>3, <2>1, <2>2, ListsStay
<1> QED
  BY <1>4, <1>5, <1>6, <1>7, <1>8 DEF Handlers

LEMMA ClassicNext == ClassicInv /\ Next => ClassicInv'
BY ClassicServer, GotSessionHolds, GotPostHolds, GotDeleteHolds, ClassicOwn, ClassicHandlers DEF Next, Answers, Got

-----------------------------------------------------------------------------
(* Of the pages, one is explored: the others have nothing to show.         *)
PagesInv ==
    /\ page \in {"classic", "simple", "editor"}
    /\ FilesInv
    /\ page = "classic" => ClassicInv
    /\ page = "simple" => SimpleInv
    /\ page = "editor" => told = {}
    /\ page # "classic" => list = <<>> /\ (\A name \in Names : idx[name] = 0)
    /\ page # "simple" => instance = 0

LEMMA InitPages == MCInit => PagesInv
<1> SUFFICES ASSUME MCInit PROVE PagesInv
  OBVIOUS
<1>1. FilesInv
  BY InitFiles DEF MCInit
<1>2. page \in {"classic", "simple", "editor"}
  BY DEF MCInit
<1>3. page # "classic" => list = <<>> /\ (\A name \in Names : idx[name] = 0)
  BY DEF MCInit, ClassicIdle
<1>4. page # "simple" => instance = 0
  BY DEF MCInit, SimpleIdle
<1>5. page = "editor" => told = {}
  BY DEF MCInit, PageInit
<1> QED
  BY <1>1, <1>2, <1>3, <1>4, <1>5, ClassicInit, SimpleInit DEF PagesInv

LEMMA StepPages == PagesInv /\ [MCNext]_allVars => PagesInv'
<1> SUFFICES ASSUME PagesInv, [MCNext]_allVars PROVE PagesInv'
  OBVIOUS
<1>1. CASE page = "classic" /\ OnlyClassic /\ Next
  <2>1. ClassicInv'
    BY <1>1, ClassicNext DEF PagesInv
  <2>2. FilesInv'
    BY <1>1, NextFiles DEF PagesInv, OnlyClassic
  <2>3. page' = page /\ instance' = instance
    BY <1>1 DEF OnlyClassic, simpleVars
  <2> QED
    BY <1>1, <2>1, <2>2, <2>3 DEF PagesInv
<1>2. CASE page = "simple" /\ OnlySimple /\ Simple!Next
  <2>1. SimpleInv'
    BY <1>2, SimpleNext DEF PagesInv
  <2>2. FilesInv'
    BY <1>2, NextFiles DEF PagesInv, OnlySimple
  <2>3. page' = page /\ list' = list /\ idx' = idx
    BY <1>2 DEF OnlySimple, classicVars, listVars
  <2> QED
    BY <1>2, <2>1, <2>2, <2>3 DEF PagesInv
<1>3. CASE page = "editor" /\ OnlyEditor /\ Files!Next
  <2>1. FilesInv'
    BY <1>3, NextFiles DEF PagesInv
  <2>2. page' = page /\ list' = list /\ idx' = idx /\ instance' = instance /\ told' = told
    BY <1>3 DEF OnlyEditor, pageVars, classicVars, listVars, simpleVars
  <2> QED
    BY <1>3, <2>1, <2>2 DEF PagesInv
<1>4. CASE UNCHANGED allVars
  <2>1. /\ UNCHANGED <<page, live, removed, outputs, wire, told, objects, socket, session, post, deletion, list, idx, early, late>>
        /\ UNCHANGED <<instance, stale, requests>> /\ UNCHANGED editorVars
    BY <1>4 DEF allVars, pageVars, server, link, classicVars, requestVars, listVars, simpleVars
  <2>2. FilesInv'
    BY <2>1, NextFiles DEF PagesInv
  <2>3. PageInv => PageInv' /\ Renames
    BY <2>1, SameObjects DEF PageInv
  <2>4. ASSUME page = "classic" PROVE ClassicInv'
    <3>1. ClassicInv
      BY <2>4 DEF PagesInv
    <3>2. Answered'
      BY <2>1, <3>1 DEF ClassicInv, Answered
    <3> QED
      BY <2>1, <2>3, <3>1, <3>2, ListsStay DEF ClassicInv
  <2>5. ASSUME page = "simple" PROVE SimpleInv'
    BY <2>1, <2>3, <2>5 DEF PagesInv, SimpleInv, News, ShowsOne, Simple!GhostsAreStale
  <2> QED
    BY <2>1, <2>2, <2>4, <2>5 DEF PagesInv
<1> QED
  BY <1>1, <1>2, <1>3, <1>4 DEF MCNext

(* The inductive invariant of the pages.                                   *)
THEOREM PagesInvariant == MCSpec => []PagesInv
BY InitPages, StepPages, PTL DEF MCSpec

(* app.js and app-simplified.js: the list of instances and the index agree *)
(* and what is shown was not deleted as far as the page was told, but for  *)
(* a request answered before the session was known and for answers older   *)
(* than the deletion.                                                      *)
THEOREM InstancesAlwaysCurrent == MCSpec => []InstancesAreCurrent
<1>1. PagesInv => InstancesAreCurrent
  <2> SUFFICES ASSUME PagesInv PROVE ListMatchesIndex /\ Simple!GhostsAreStale
    BY DEF InstancesAreCurrent
  <2>1. ListMatchesIndex
    <3>1. CASE page = "classic"
      BY <3>1, ClassicImplies DEF PagesInv
    <3>2. CASE page # "classic"
      <4>1. DOMAIN list = {} /\ \A name \in Names : idx[name] = 0
        BY <3>2 DEF PagesInv
      <4>2. told \subseteq Names
        <5>1. CASE page = "simple"
          BY <5>1 DEF PagesInv, SimpleInv, PageInv
        <5>2. CASE page = "editor"
          BY <5>2 DEF PagesInv
        <5> QED
          BY <3>2, <5>1, <5>2 DEF PagesInv
      <4> QED
        BY <4>1, <4>2 DEF ListMatchesIndex
    <3> QED
      BY <3>1, <3>2
  <2>2. Simple!GhostsAreStale
    BY DEF PagesInv, SimpleInv, Simple!GhostsAreStale
  <2> QED
    BY <2>1, <2>2
<1> QED
  BY <1>1, PagesInvariant, PTL

(* The editor of app-simplified.js: the current file is an open one, there *)
(* is one as long as any is open, and no two have one name.                *)
THEOREM FilesAlwaysApart == MCSpec => []FilesAreApart
<1>1. PagesInv => FilesAreApart
  BY DEF PagesInv, FilesInv, Apart, FilesAreApart, Files!FilesAreApart
<1> QED
  BY <1>1, PagesInvariant, PTL
=============================================================================
