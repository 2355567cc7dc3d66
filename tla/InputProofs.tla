------------------------------ MODULE InputProofs ------------------------------
(***************************************************************************)
(* What the stages of the input promise (module MCInput), for any number   *)
(* of writes, keys, connections, sockets and messages, thresholds and      *)
(* channels of any size, and any bytes and codes: StreamsHold,             *)
(* TerminalsHold, CutsChangeNothing and SequencesAreWhole.                 *)
(*                                                                         *)
(* The queue of writes.  One flag guards two arrays, so at most one timer  *)
(* is set.  A timer's offset divides its array: what is before it has been *)
(* parsed.  An array without a timer is not parsed at all, unless an item  *)
(* has thrown; then no timer is ever set again.                            *)
(*                                                                         *)
(* The terminals.  Keys are written in order because the manager takes     *)
(* them one by one from one channel, what a terminal's channel holds is    *)
(* older than what the manager holds (InOrder), and only the terminal the  *)
(* manager knows is open (OneOpen).  A channel is closed only by           *)
(* disconnect (ClosedLast).                                                *)
(*                                                                         *)
(* The add-ons.  What a detach takes away is the last call's, of listeners *)
(* and key listeners alike (LastCall), unless it was for another socket.   *)
(*                                                                         *)
(* The decoders.  What is kept between two chunks is the head of the uncut *)
(* text's character, or after a harmful cut never less (NoLater).          *)
(*                                                                         *)
(* The parser.  What is kept of a sequence is what the text since it began *)
(* says (SequenceKept), and of a run what was not passed on (RunsKept).    *)
(***************************************************************************)
EXTENDS MCInput, SequenceTheorems, FiniteSetTheorems, TLAPS

Elements(s) == {s[i] : i \in DOMAIN s}
Increasing(s) == \A i, j \in DOMAIN s : i < j => s[i] < s[j]
Order(A, B) == \A a \in A, b \in B : a < b

(* What is appended to a sequence of numbers, and what is taken from it.   *)
LEMMA Appended ==
  ASSUME NEW s \in Seq(Nat), NEW k \in Nat
  PROVE  /\ Append(s, k) \in Seq(Nat)
         /\ Elements(Append(s, k)) = Elements(s) \cup {k}
         /\ Increasing(s) /\ Order(Elements(s), {k}) => Increasing(Append(s, k))
<1>1. Append(s, k) \in Seq(Nat) /\ Len(Append(s, k)) = Len(s) + 1
  OBVIOUS
<1>2. DOMAIN s = 1..Len(s) /\ DOMAIN Append(s, k) = 1..(Len(s) + 1)
  BY <1>1
<1>3. /\ \A i \in DOMAIN s : Append(s, k)[i] = s[i]
      /\ Append(s, k)[Len(s) + 1] = k
  BY <1>2
<1>4. DOMAIN Append(s, k) = DOMAIN s \cup {Len(s) + 1}
  BY <1>2
<1>5. Elements(Append(s, k)) = Elements(s) \cup {k}
  BY <1>3, <1>4 DEF Elements
<1>6. ASSUME Increasing(s), Order(Elements(s), {k}) PROVE Increasing(Append(s, k))
  <2>1. ASSUME NEW i \in DOMAIN s PROVE s[i] < k
    BY <1>6, <2>1 DEF Order, Elements
  <2> QED
    BY <1>2, <1>3, <1>6, <2>1 DEF Increasing
<1> QED
  BY <1>1, <1>5, <1>6

LEMMA Taken ==
  ASSUME NEW s \in Seq(Nat), s # <<>>
  PROVE  /\ Tail(s) \in Seq(Nat) /\ Head(s) \in Nat
         /\ Elements(s) = Elements(Tail(s)) \cup {Head(s)}
         /\ Increasing(s) => Increasing(Tail(s)) /\ Order({Head(s)}, Elements(Tail(s)))
<1>1. Tail(s) \in Seq(Nat) /\ Head(s) \in Nat /\ Len(Tail(s)) = Len(s) - 1 /\ Len(s) \in Nat \ {0}
  OBVIOUS
<1>2. DOMAIN s = 1..Len(s) /\ DOMAIN Tail(s) = 1..(Len(s) - 1)
  BY <1>1
<1>3. (\A i \in DOMAIN Tail(s) : Tail(s)[i] = s[i + 1]) /\ Head(s) = s[1]
  BY <1>1, <1>2
<1>4. Elements(s) = Elements(Tail(s)) \cup {Head(s)}
  <2>1. ASSUME NEW i \in DOMAIN s PROVE s[i] \in Elements(Tail(s)) \cup {Head(s)}
    <3>1. CASE i = 1
      BY <3>1, <1>3
    <3>2. CASE i # 1
      <4>1. i - 1 \in DOMAIN Tail(s) /\ Tail(s)[i - 1] = s[i]
        BY <3>2, <1>1, <1>2, <1>3
      <4> QED
        BY <4>1 DEF Elements
    <3> QED
      BY <3>1, <3>2
  <2>2. ASSUME NEW i \in DOMAIN Tail(s) PROVE Tail(s)[i] \in Elements(s)
    <3>1. i + 1 \in DOMAIN s /\ Tail(s)[i] = s[i + 1]
      BY <1>1, <1>2, <1>3
    <3> QED
      BY <3>1 DEF Elements
  <2>3. Head(s) \in Elements(s)
    BY <1>1, <1>2, <1>3 DEF Elements
  <2> QED
    BY <2>1, <2>2, <2>3 DEF Elements
<1>5. ASSUME Increasing(s) PROVE Increasing(Tail(s)) /\ Order({Head(s)}, Elements(Tail(s)))
  <2>1. ASSUME NEW i \in DOMAIN Tail(s), NEW j \in DOMAIN Tail(s), i < j PROVE Tail(s)[i] < Tail(s)[j]
    <3>1. i + 1 \in DOMAIN s /\ j + 1 \in DOMAIN s /\ i + 1 < j + 1
      BY <1>1, <1>2, <2>1
    <3>2. s[i + 1] < s[j + 1]
      BY <3>1, <1>5 DEF Increasing
    <3> QED
      BY <3>2, <1>3
  <2>2. ASSUME NEW i \in DOMAIN Tail(s) PROVE Head(s) < Tail(s)[i]
    BY <1>1, <1>2, <1>3, <1>5 DEF Increasing
  <2> QED
    BY <2>1, <2>2 DEF Order, Elements, Increasing
<1> QED
  BY <1>1, <1>4, <1>5


-----------------------------------------------------------------------------
(* What is at or after position o of b is newer than all of p.             *)
Ahead(p, b, o) == \A i \in DOMAIN p, j \in DOMAIN b : o < j => p[i] < b[j]

(* The timer of kind k, if it is set, goes on at position o.               *)
GoesOnAt(k, o) == \A t \in timers : t[1] = k => t[2] = o

QueueTypes ==
    /\ written \in Nat
    /\ buffer \in [Queue!Kinds -> Seq(Nat)] /\ parsed \in [Queue!Kinds -> Seq(Nat)]
    /\ inProgress \in BOOLEAN /\ failed \in BOOLEAN
    /\ \A t \in timers : /\ t = <<t[1], t[2]>> /\ t[1] \in Queue!Kinds /\ t[2] \in Nat
                         /\ t[2] <= Len(buffer[t[1]])

OneTimer ==
    /\ \A t, u \in timers : t = u
    /\ timers # {} => inProgress
    /\ failed => timers = {} /\ inProgress

Numbered == \A k \in Queue!Kinds :
    /\ \A j \in DOMAIN buffer[k] : buffer[k][j] <= written
    /\ \A i \in DOMAIN parsed[k] : parsed[k][i] <= written

InTurn == \A k \in Queue!Kinds :
    /\ Increasing(buffer[k]) /\ Increasing(parsed[k])
    /\ ~failed => \A o \in Nat : GoesOnAt(k, o) /\ (o = 0 \/ <<k, o>> \in timers) =>
                     Ahead(parsed[k], buffer[k], o)

QueueInv == QueueTypes /\ OneTimer /\ Numbered /\ InTurn
-----------------------------------------------------------------------------
(* A slice that is parsed makes what was parsed longer and keeps order.    *)
LEMMA Slice ==
    ASSUME NEW p \in Seq(Nat), NEW b \in Seq(Nat), NEW o \in Nat, NEW n \in 1..(Len(b) - o),
           NEW m \in Nat,
           Increasing(p), Increasing(b), Ahead(p, b, o),
           \A j \in DOMAIN b : b[j] <= m, \A i \in DOMAIN p : p[i] <= m
    PROVE  LET q == p \o SubSeq(b, o + 1, o + n)
           IN  /\ q \in Seq(Nat) /\ Increasing(q) /\ Ahead(q, b, o + n)
               /\ \A i \in DOMAIN q : q[i] <= m
<1> DEFINE s == SubSeq(b, o + 1, o + n)
           q == p \o s
<1>0. /\ DOMAIN p = 1..Len(p) /\ Len(p) \in Nat /\ \A i \in 1..Len(p) : p[i] \in Nat
      /\ DOMAIN b = 1..Len(b) /\ Len(b) \in Nat /\ \A i \in 1..Len(b) : b[i] \in Nat
  BY LenProperties
<1>1. s \in Seq(Nat) /\ Len(s) = n /\ \A i \in 1..n : s[i] = b[o + i] /\ o + i \in DOMAIN b
  <2>1. \A i \in (o + 1)..(o + n) : b[i] \in Nat
    BY <1>0
  <2>2. /\ s \in Seq(Nat)
        /\ Len(s) = IF o + 1 <= o + n THEN (o + n) - (o + 1) + 1 ELSE 0
        /\ \A i \in 1..((o + n) - (o + 1) + 1) : s[i] = b[(o + 1) + i - 1]
    BY <1>0, <2>1, SubSeqProperties
  <2> QED
    BY <1>0, <2>2
<1> HIDE DEF s
<1>2. q \in Seq(Nat) /\ Len(q) = Len(p) + n /\ DOMAIN q = 1..(Len(p) + n)
  BY <1>0, <1>1, ConcatProperties, LenProperties
<1>3. \A i \in DOMAIN q : \/ i \in DOMAIN p /\ q[i] = p[i]
                          \/ i - Len(p) \in 1..n /\ q[i] = b[o + (i - Len(p))]
  <2>1. \A i \in 1..(Len(p) + n) : q[i] = IF i <= Len(p) THEN p[i] ELSE s[i - Len(p)]
    BY <1>1, ConcatProperties
  <2> TAKE i \in DOMAIN q
  <2>2. i \in 1..(Len(p) + n) /\ Len(p) \in Nat /\ n \in Nat
    BY <1>0, <1>2
  <2>3. CASE i <= Len(p)
    BY <1>0, <2>1, <2>2, <2>3
  <2>4. CASE ~(i <= Len(p))
    <3>1. i - Len(p) \in 1..n /\ q[i] = s[i - Len(p)]
      BY <2>1, <2>2, <2>4
    <3> QED
      BY <1>1, <3>1
  <2> QED
    BY <2>3, <2>4
<1>4. DOMAIN p = 1..Len(p) /\ DOMAIN b = 1..Len(b) /\ DOMAIN q = 1..(Len(p) + n)
  BY <1>0, <1>2
<1> HIDE DEF q
<1>5. n \in Nat /\ o \in Nat /\ o + n <= Len(b)
  BY <1>0
<1>6. Increasing(q)
  <2> SUFFICES ASSUME NEW i \in DOMAIN q, NEW j \in DOMAIN q, i < j PROVE q[i] < q[j]
    BY DEF Increasing
  <2>1. CASE j \in DOMAIN p /\ q[j] = p[j]
    <3>1. i \in DOMAIN p /\ q[i] = p[i]
      BY <1>3, <1>4, <2>1
    <3> QED
      BY <2>1, <3>1 DEF Increasing
  <2>2. CASE j - Len(p) \in 1..n /\ q[j] = b[o + (j - Len(p))]
    <3>1. o + (j - Len(p)) \in DOMAIN b /\ o < o + (j - Len(p))
      BY <1>1, <2>2
    <3>2. CASE i \in DOMAIN p /\ q[i] = p[i]
      BY <2>2, <3>1, <3>2 DEF Ahead
    <3>3. CASE i - Len(p) \in 1..n /\ q[i] = b[o + (i - Len(p))]
      <4>1. o + (i - Len(p)) \in DOMAIN b /\ o + (i - Len(p)) < o + (j - Len(p))
        <5>1. i \in Int /\ j \in Int /\ Len(p) \in Int /\ Len(b) \in Nat
          BY <1>0, <1>4
        <5>2. i - Len(p) \in 1..n /\ i < j
          BY <3>3
        <5>3. o + (i - Len(p)) \in 1..Len(b) /\ o + (i - Len(p)) < o + (j - Len(p))
          BY <1>5, <5>1, <5>2
        <5> QED
          BY <1>4, <5>3
      <4> QED
        BY <2>2, <3>1, <3>3, <4>1 DEF Increasing
    <3> QED
      BY <1>3, <3>2, <3>3
  <2> QED
    BY <1>3, <2>1, <2>2
<1>7. Ahead(q, b, o + n)
  <2> SUFFICES ASSUME NEW i \in DOMAIN q, NEW j \in DOMAIN b, o + n < j PROVE q[i] < b[j]
    BY DEF Ahead
  <2>1. CASE i \in DOMAIN p /\ q[i] = p[i]
    BY <1>4, <2>1 DEF Ahead
  <2>2. CASE i - Len(p) \in 1..n /\ q[i] = b[o + (i - Len(p))]
    <3>1. o + (i - Len(p)) \in DOMAIN b /\ o + (i - Len(p)) < j
      <4>1. i \in Int /\ j \in Int /\ Len(p) \in Int /\ Len(b) \in Nat
        BY <1>0, <1>4
      <4>2. i - Len(p) \in 1..n
        BY <2>2
      <4>3. o + (i - Len(p)) \in 1..Len(b) /\ o + (i - Len(p)) < j
        BY <1>5, <4>1, <4>2
      <4> QED
        BY <1>4, <4>3
    <3> QED
      BY <2>2, <3>1 DEF Increasing
  <2> QED
    BY <1>3, <2>1, <2>2
<1>8. \A i \in DOMAIN q : q[i] <= m
  BY <1>1, <1>3
<1> QED
  BY <1>2, <1>6, <1>7, <1>8 DEF q, s

(* What is cut off behind what was parsed.                                 *)
LEMMA CutOff ==
    ASSUME NEW q \in Seq(Nat), NEW b \in Seq(Nat), NEW u \in 0..Len(b), NEW m \in Nat,
           Increasing(b), Ahead(q, b, u), \A j \in DOMAIN b : b[j] <= m
    PROVE  LET r == SubSeq(b, u + 1, Len(b))
           IN  /\ r \in Seq(Nat) /\ Increasing(r) /\ Ahead(q, r, 0)
               /\ \A j \in DOMAIN r : r[j] <= m
<1> DEFINE r == SubSeq(b, u + 1, Len(b))
<1>1. /\ r \in Seq(Nat) /\ DOMAIN r = 1..(Len(b) - u)
      /\ \A i \in 1..(Len(b) - u) : r[i] = b[u + i] /\ u + i \in DOMAIN b
  <2>1. DOMAIN b = 1..Len(b) /\ Len(b) \in Nat /\ \A i \in (u + 1)..Len(b) : b[i] \in Nat
    BY LenProperties
  <2>2. /\ r \in Seq(Nat)
        /\ Len(r) = IF u + 1 <= Len(b) THEN Len(b) - (u + 1) + 1 ELSE 0
        /\ \A i \in 1..(Len(b) - (u + 1) + 1) : r[i] = b[(u + 1) + i - 1]
    BY <2>1, SubSeqProperties
  <2> HIDE DEF r
  <2>3. Len(r) = Len(b) - u
    <3>1. u \in Nat /\ Len(b) \in Nat /\ u <= Len(b)
      BY <2>1
    <3>2. Len(r) = IF u + 1 <= Len(b) THEN Len(b) - (u + 1) + 1 ELSE 0
      BY <2>2
    <3> QED
      BY <3>1, <3>2
  <2>4. Len(r) = Len(b) - u /\ DOMAIN r = 1..(Len(b) - u)
    BY <2>2, <2>3, LenProperties
  <2>5. ASSUME NEW i \in 1..(Len(b) - u) PROVE r[i] = b[u + i] /\ u + i \in DOMAIN b
    <3>1. i \in 1..(Len(b) - (u + 1) + 1) /\ (u + 1) + i - 1 = u + i
      BY <2>1
    <3>2. r[i] = b[(u + 1) + i - 1]
      BY <2>2, <3>1
    <3>3. u + i \in 1..Len(b)
      BY <2>1
    <3>4. (u + 1) + i - 1 = u + i
      OBVIOUS
    <3> QED
      BY <2>1, <3>2, <3>3, <3>4
  <2> QED
    BY <2>2, <2>4, <2>5
<1> HIDE DEF r
<1>2. DOMAIN b = 1..Len(b) /\ Len(b) \in Nat
  BY LenProperties
<1>3. Increasing(r)
  <2> SUFFICES ASSUME NEW i \in DOMAIN r, NEW j \in DOMAIN r, i < j PROVE r[i] < r[j]
    BY DEF Increasing
  <2>1. u + i \in DOMAIN b /\ u + j \in DOMAIN b /\ u + i < u + j
    <3>1. i \in 1..(Len(b) - u) /\ j \in 1..(Len(b) - u) /\ u \in Nat
      BY <1>1, <1>2
    <3> QED
      BY <1>2, <3>1
  <2> QED
    BY <1>1, <2>1 DEF Increasing
<1>4. Ahead(q, r, 0)
  <2> SUFFICES ASSUME NEW i \in DOMAIN q, NEW j \in DOMAIN r PROVE q[i] < r[j]
    BY DEF Ahead
  <2>1. u + j \in DOMAIN b /\ u < u + j
    <3>1. j \in 1..(Len(b) - u) /\ u \in Nat
      BY <1>1, <1>2
    <3> QED
      BY <1>2, <3>1
  <2> QED
    BY <1>1, <2>1 DEF Ahead
<1>5. \A j \in DOMAIN r : r[j] <= m
  BY <1>1
<1> QED
  BY <1>1, <1>3, <1>4, <1>5 DEF r

-----------------------------------------------------------------------------
(* The initial state: everything is empty.                                 *)
LEMMA InitQueue == Queue!Init => QueueInv
<1> SUFFICES ASSUME Queue!Init PROVE QueueInv
  OBVIOUS
<1>1. \A k \in Queue!Kinds : buffer[k] = <<>> /\ parsed[k] = <<>>
  BY DEF Queue!Init
<1>2. QueueTypes /\ OneTimer
  <2>1. <<>> \in Seq(Nat)
    BY EmptySeq
  <2> QED
    BY <2>1 DEF Queue!Init, QueueTypes, OneTimer
<1>3. Numbered /\ InTurn
  BY <1>1 DEF Numbered, InTurn, Increasing, Ahead
<1> QED
  BY <1>2, <1>3 DEF QueueInv

(* What is written is newer than everything before it.                     *)
LEMMA WriteQueued ==
    ASSUME QueueInv, NEW k \in Queue!Kinds, NEW empty \in BOOLEAN, Queue!Write(k, empty)
    PROVE  QueueInv'
<1>1. CASE UNCHANGED Queue!vars
  BY <1>1 DEF Queue!vars, QueueInv, QueueTypes, OneTimer, Numbered, InTurn, GoesOnAt
<1>2. CASE ~UNCHANGED Queue!vars
  <2> DEFINE w == written + 1
  <2>1. /\ written' = w /\ w \in Nat
        /\ buffer' = [buffer EXCEPT ![k] = Append(@, w)]
        /\ timers' = (IF inProgress THEN timers ELSE timers \cup {<<k, 0>>})
        /\ inProgress' = TRUE /\ UNCHANGED <<parsed, failed>>
    BY <1>2 DEF Queue!Write, QueueInv, QueueTypes
  <2>2. /\ buffer[k] \in Seq(Nat) /\ parsed \in [Queue!Kinds -> Seq(Nat)] /\ buffer \in [Queue!Kinds -> Seq(Nat)]
        /\ Len(buffer[k]) \in Nat /\ DOMAIN buffer[k] = 1..Len(buffer[k])
    BY LenProperties DEF QueueInv, QueueTypes
  <2> DEFINE b == Append(buffer[k], w)
  <2>3. /\ b \in Seq(Nat) /\ Len(b) = Len(buffer[k]) + 1 /\ DOMAIN b = 1..(Len(buffer[k]) + 1)
        /\ \A i \in 1..Len(buffer[k]) : b[i] = buffer[k][i]
        /\ b[Len(buffer[k]) + 1] = w
    BY <2>1, <2>2, AppendProperties, LenProperties
  <2>4. /\ buffer'[k] = b /\ buffer' \in [Queue!Kinds -> Seq(Nat)]
        /\ \A l \in Queue!Kinds : l # k => buffer'[l] = buffer[l]
    BY <2>1, <2>2, <2>3
  <2> HIDE DEF b
  <2>5. \/ timers' = timers
        \/ timers = {} /\ ~failed /\ timers' = {<<k, 0>>}
    BY <2>1 DEF QueueInv, OneTimer
  <2>6. QueueTypes'
    <3> SUFFICES ASSUME NEW t \in timers'
                 PROVE  /\ t = <<t[1], t[2]>> /\ t[1] \in Queue!Kinds /\ t[2] \in Nat
                        /\ t[2] <= Len(buffer'[t[1]])
      BY <2>1, <2>2, <2>4 DEF QueueInv, QueueTypes
    <3>1. CASE t \in timers
      <4>1. t = <<t[1], t[2]>> /\ t[1] \in Queue!Kinds /\ t[2] \in Nat /\ t[2] <= Len(buffer[t[1]])
        BY <3>1 DEF QueueInv, QueueTypes
      <4>2. Len(buffer[t[1]]) \in Nat /\ Len(buffer'[t[1]]) \in Nat
        BY <2>2, <2>4, <4>1, LenProperties
      <4>3. Len(buffer[t[1]]) <= Len(buffer'[t[1]])
        <5>1. CASE t[1] = k
          <6>1. Len(buffer'[t[1]]) = Len(buffer[t[1]]) + 1
            BY <2>3, <2>4, <5>1
          <6> QED
            BY <4>2, <6>1
        <5>2. CASE t[1] # k
          BY <2>4, <4>1, <4>2, <5>2
        <5> QED
          BY <5>1, <5>2
      <4> QED
        BY <4>1, <4>3, <4>2
    <3>2. CASE t = <<k, 0>>
      BY <2>2, <2>3, <2>4, <3>2
    <3> QED
      BY <2>5, <3>1, <3>2
  <2>7. OneTimer'
    BY <2>1, <2>5 DEF QueueInv, OneTimer
  <2>8. Numbered'
    <3> SUFFICES ASSUME NEW l \in Queue!Kinds
                 PROVE  /\ \A j \in DOMAIN buffer'[l] : buffer'[l][j] <= w
                        /\ \A i \in DOMAIN parsed[l] : parsed[l][i] <= w
      BY <2>1 DEF Numbered
    <3>1. /\ \A j \in DOMAIN buffer[l] : buffer[l][j] <= written
          /\ \A i \in DOMAIN parsed[l] : parsed[l][i] <= written
          /\ written \in Nat
      BY DEF QueueInv, QueueTypes, Numbered
    <3>2. /\ \A j \in DOMAIN buffer[l] : buffer[l][j] \in Nat
          /\ \A i \in DOMAIN parsed[l] : parsed[l][i] \in Nat
      BY <2>2, LenProperties
    <3>3. /\ \A j \in DOMAIN buffer[l] : buffer[l][j] <= w
          /\ \A i \in DOMAIN parsed[l] : parsed[l][i] <= w
      BY <3>1, <3>2
    <3>4. CASE l = k
      <4> SUFFICES ASSUME NEW j \in DOMAIN b PROVE b[j] <= w
        BY <2>4, <3>3, <3>4
      <4>1. CASE j \in 1..Len(buffer[k])
        BY <2>2, <2>3, <3>3, <3>4, <4>1
      <4>2. CASE j = Len(buffer[k]) + 1
        BY <2>1, <2>3, <4>2
      <4> QED
        BY <2>2, <2>3, <4>1, <4>2
    <3> QED
      BY <2>4, <3>3, <3>4
  <2>9. InTurn'
    <3> SUFFICES ASSUME NEW l \in Queue!Kinds
                 PROVE  /\ Increasing(buffer'[l]) /\ Increasing(parsed[l])
                        /\ ~failed => \A o \in Nat :
                              (\A t \in timers' : t[1] = l => t[2] = o)
                                /\ (o = 0 \/ <<l, o>> \in timers') =>
                              Ahead(parsed[l], buffer'[l], o)
      BY <2>1 DEF InTurn, GoesOnAt
    <3>1. /\ Increasing(buffer[l]) /\ Increasing(parsed[l])
          /\ ~failed => \A o \in Nat : GoesOnAt(l, o) /\ (o = 0 \/ <<l, o>> \in timers) =>
                           Ahead(parsed[l], buffer[l], o)
      BY DEF QueueInv, InTurn
    <3>2. /\ \A j \in DOMAIN buffer[l] : buffer[l][j] < w
          /\ \A i \in DOMAIN parsed[l] : parsed[l][i] < w
      <4>1. /\ \A j \in DOMAIN buffer[l] : buffer[l][j] \in Nat /\ buffer[l][j] <= written
            /\ \A i \in DOMAIN parsed[l] : parsed[l][i] \in Nat /\ parsed[l][i] <= written
            /\ written \in Nat
        BY <2>2, LenProperties DEF QueueInv, QueueTypes, Numbered
      <4> QED
        BY <4>1
    <3>3. Increasing(buffer'[l])
      <4>1. CASE l # k
        BY <2>4, <3>1, <4>1
      <4>2. CASE l = k
        <5> SUFFICES ASSUME NEW i \in DOMAIN b, NEW j \in DOMAIN b, i < j PROVE b[i] < b[j]
          BY <2>4, <4>2 DEF Increasing
        <5>1. i \in 1..Len(buffer[k]) /\ b[i] = buffer[k][i]
          BY <2>2, <2>3
        <5>2. CASE j \in 1..Len(buffer[k])
          BY <2>2, <2>3, <3>1, <4>2, <5>1, <5>2 DEF Increasing
        <5>3. CASE j = Len(buffer[k]) + 1
          BY <2>2, <2>3, <3>2, <4>2, <5>1, <5>3
        <5> QED
          BY <2>2, <2>3, <5>2, <5>3
      <4> QED
        BY <4>1, <4>2
    <3>4. ASSUME ~failed, NEW o \in Nat,
                 \A t \in timers' : t[1] = l => t[2] = o, o = 0 \/ <<l, o>> \in timers'
          PROVE  Ahead(parsed[l], buffer'[l], o)
      <4>1. GoesOnAt(l, o) /\ (o = 0 \/ <<l, o>> \in timers)
        BY <2>5, <3>4 DEF GoesOnAt
      <4>2. Ahead(parsed[l], buffer[l], o)
        BY <3>1, <3>4, <4>1
      <4>3. CASE l # k
        BY <2>4, <4>2, <4>3
      <4>4. CASE l = k
        <5> SUFFICES ASSUME NEW i \in DOMAIN parsed[k], NEW j \in DOMAIN b, o < j
                     PROVE  parsed[k][i] < b[j]
          BY <2>4, <4>4 DEF Ahead
        <5>1. CASE j \in 1..Len(buffer[k])
          BY <2>2, <2>3, <4>2, <4>4, <5>1 DEF Ahead
        <5>2. CASE j = Len(buffer[k]) + 1
          BY <2>3, <3>2, <4>4, <5>2
        <5> QED
          BY <2>2, <2>3, <5>1, <5>2
      <4> QED
        BY <4>3, <4>4
    <3> QED
      BY <3>1, <3>3, <3>4
  <2> QED
    BY <2>6, <2>7, <2>8, <2>9 DEF QueueInv
<1> QED
  BY <1>1, <1>2

(* A callback replaces what is parsed of its kind and what waits, and sets *)
(* the next timer, or none.                                                *)
Fitting(s) == s \in Seq(Nat) /\ Increasing(s) /\ \A i \in DOMAIN s : s[i] <= written
Replacing(k, q, c, o) ==
    /\ parsed' = [parsed EXCEPT ![k] = q] /\ buffer' = [buffer EXCEPT ![k] = c]
    /\ written' = written /\ Fitting(q) /\ Fitting(c) /\ o \in Nat /\ o <= Len(c)
    /\ \/ timers' = {<<k, o>>} /\ inProgress' = TRUE /\ failed' = failed /\ Ahead(q, c, o)
       \/ timers' = {} /\ inProgress' = FALSE /\ failed' = failed /\ c = <<>>
       \/ timers' = {} /\ inProgress' = TRUE /\ failed' = TRUE

LEMMA Replaced ==
    ASSUME QueueInv, NEW k \in Queue!Kinds, NEW q, NEW c, NEW o, Replacing(k, q, c, o),
           timers # {}, \A t \in timers : t[1] = k
    PROVE  QueueInv'
<1> USE DEF Replacing, Fitting
<1>1. /\ written \in Nat /\ buffer \in [Queue!Kinds -> Seq(Nat)] /\ parsed \in [Queue!Kinds -> Seq(Nat)]
      /\ inProgress /\ failed = FALSE
  BY DEF QueueInv, QueueTypes, OneTimer
<1>2. /\ parsed'[k] = q /\ parsed' \in [Queue!Kinds -> Seq(Nat)]
      /\ buffer'[k] = c /\ buffer' \in [Queue!Kinds -> Seq(Nat)]
      /\ \A l \in Queue!Kinds : l # k => parsed'[l] = parsed[l] /\ buffer'[l] = buffer[l]
  BY <1>1
<1>3. QueueTypes'
  <2>1. inProgress' \in BOOLEAN /\ failed' \in BOOLEAN /\ written' \in Nat
    BY <1>1
  <2>2. \A t \in timers' : /\ t = <<t[1], t[2]>> /\ t[1] \in Queue!Kinds /\ t[2] \in Nat
                           /\ t[2] <= Len(buffer'[t[1]])
    BY <1>2
  <2> QED
    BY <1>2, <2>1, <2>2 DEF QueueTypes
<1>4. OneTimer'
  <2>1. timers' \in {{}, {<<k, o>>}} /\ (timers' # {} => inProgress')
    OBVIOUS
  <2>2. failed' => timers' = {} /\ inProgress'
    BY <1>1
  <2>3. \A t, u \in timers' : t = u
    BY <2>1
  <2> QED
    BY <2>1, <2>2, <2>3 DEF OneTimer
<1>5. Numbered'
  <2> SUFFICES ASSUME NEW l \in Queue!Kinds
               PROVE  /\ \A j \in DOMAIN buffer'[l] : buffer'[l][j] <= written
                      /\ \A i \in DOMAIN parsed'[l] : parsed'[l][i] <= written
    BY DEF Numbered
  <2>1. CASE l = k
    BY <1>2, <2>1
  <2>2. CASE l # k
    BY <1>2, <2>2 DEF QueueInv, Numbered
  <2> QED
    BY <2>1, <2>2
<1>6. InTurn'
  <2> SUFFICES ASSUME NEW l \in Queue!Kinds
               PROVE  /\ Increasing(buffer'[l]) /\ Increasing(parsed'[l])
                      /\ ~failed' => \A p \in Nat :
                            (\A t \in timers' : t[1] = l => t[2] = p)
                              /\ (p = 0 \/ <<l, p>> \in timers') =>
                            Ahead(parsed'[l], buffer'[l], p)
    BY DEF InTurn, GoesOnAt
  <2>1. CASE l = k
    <3>1. Increasing(buffer'[l]) /\ Increasing(parsed'[l])
      BY <1>2, <2>1
    <3>2. ASSUME ~failed', NEW p \in Nat, \A t \in timers' : t[1] = k => t[2] = p
          PROVE  Ahead(q, c, p)
      <4>1. CASE timers' = {<<k, o>>} /\ Ahead(q, c, o)
        <5>1. o = p
          BY <3>2, <4>1
        <5> QED
          BY <4>1, <5>1
      <4>2. CASE c = <<>>
        BY <4>2 DEF Ahead
      <4> QED
        BY <3>2, <4>1, <4>2
    <3> QED
      BY <1>2, <2>1, <3>1, <3>2
  <2>2. CASE l # k
    <3>1. GoesOnAt(l, 0)
      BY <2>2 DEF GoesOnAt
    <3>2. Increasing(buffer[l]) /\ Increasing(parsed[l]) /\ Ahead(parsed[l], buffer[l], 0)
      BY <1>1, <3>1 DEF QueueInv, InTurn
    <3>3. \A p \in Nat : Ahead(parsed[l], buffer[l], p)
      BY <1>1, <3>2, LenProperties DEF Ahead
    <3> QED
      BY <1>2, <2>2, <3>2, <3>3
  <2> QED
    BY <2>1, <2>2
<1> QED
  BY <1>3, <1>4, <1>5, <1>6 DEF QueueInv

(* A timer's callback parses a slice and goes on, ends, or gives up.       *)
LEMMA SliceParsed ==
    ASSUME QueueInv, NEW k \in Queue!Kinds, NEW o \in Nat, <<k, o>> \in timers,
           NEW n \in 1..(Len(buffer[k]) - o),
           Queue!InnerWrite(k, o, n) \/ Queue!InnerWriteThrows(k, o, n)
    PROVE  QueueInv'
<1> DEFINE b == buffer[k]
           q == parsed[k] \o SubSeq(b, o + 1, o + n)
           u == o + n
           r == SubSeq(b, u + 1, Len(b))
<1>1. /\ b \in Seq(Nat) /\ parsed[k] \in Seq(Nat) /\ written \in Nat
      /\ buffer \in [Queue!Kinds -> Seq(Nat)] /\ parsed \in [Queue!Kinds -> Seq(Nat)]
  BY DEF QueueInv, QueueTypes
<1>2. /\ Increasing(parsed[k]) /\ Increasing(b)
      /\ \A j \in DOMAIN b : b[j] <= written
      /\ \A i \in DOMAIN parsed[k] : parsed[k][i] <= written
  BY DEF QueueInv, InTurn, Numbered
<1>3. timers = {<<k, o>>} /\ inProgress /\ ~failed
  BY DEF QueueInv, OneTimer
<1>4. Ahead(parsed[k], b, o)
  <2>1. GoesOnAt(k, o)
    BY <1>3 DEF GoesOnAt
  <2> QED
    BY <1>3, <2>1 DEF QueueInv, InTurn
<1>5. /\ q \in Seq(Nat) /\ Increasing(q) /\ Ahead(q, b, u)
      /\ \A i \in DOMAIN q : q[i] <= written
  <2>1. n \in 1..(Len(b) - o)
    OBVIOUS
  <2> HIDE DEF b
  <2> QED
    BY <1>1, <1>2, <1>4, <2>1, Slice
<1>6. u \in 0..Len(b) /\ Len(b) \in Nat /\ n \in Nat /\ u \in Nat
  <2>1. Len(b) \in Nat
    BY <1>1, LenProperties
  <2> QED
    BY <2>1
<1>7. /\ r \in Seq(Nat) /\ Increasing(r) /\ Ahead(q, r, 0)
      /\ \A j \in DOMAIN r : r[j] <= written
  <2> HIDE DEF b, q, u
  <2>1. \A j \in DOMAIN b : b[j] <= written
    BY <1>2
  <2> QED
    BY <1>1, <1>2, <1>5, <1>6, <2>1, CutOff
<1>8. /\ parsed' = [parsed EXCEPT ![k] = q] /\ written' = written
      /\ \/ buffer' = buffer /\ timers' = {} /\ inProgress' = TRUE /\ failed' = TRUE
         \/ /\ buffer' = [buffer EXCEPT ![k] = <<>>] /\ timers' = {} /\ inProgress' = FALSE
            /\ failed' = failed
         \/ /\ buffer' = [buffer EXCEPT ![k] = r] /\ timers' = {<<k, 0>>} /\ inProgress' = TRUE
            /\ failed' = failed
         \/ /\ buffer' = buffer /\ timers' = {<<k, u>>} /\ inProgress' = TRUE
            /\ failed' = failed
  BY <1>3 DEF Queue!InnerWrite, Queue!InnerWriteThrows, QueueInv, QueueTypes
<1>9. timers # {} /\ \A t \in timers : t[1] = k
  BY <1>3
<1>10. buffer = [buffer EXCEPT ![k] = b]
  BY <1>1
<1>11. Fitting(<<>>) /\ Len(<<>>) = 0 /\ 0 \in Nat
  BY EmptySeq DEF Fitting, Increasing
<1>12. Fitting(q) /\ Fitting(b) /\ Fitting(r) /\ Len(r) \in Nat
  BY <1>1, <1>2, <1>5, <1>7, LenProperties DEF Fitting
<1> HIDE DEF b, q, u, r
<1>13. u <= Len(b) /\ 0 <= Len(r)
  BY <1>6, <1>12
<1>14. \/ Replacing(k, q, b, u) \/ Replacing(k, q, <<>>, 0) \/ Replacing(k, q, r, 0)
  BY <1>5, <1>6, <1>7, <1>8, <1>10, <1>11, <1>12, <1>13 DEF Replacing
<1> QED
  BY <1>9, <1>14, Replaced

(* The callback of a terminal that was disposed of empties its array.      *)
LEMMA SliceDropped ==
    ASSUME QueueInv, NEW k \in Queue!Kinds, NEW o \in Nat, <<k, o>> \in timers,
           Queue!InnerWriteDisposed(k, o)
    PROVE  QueueInv'
<1>1. timers = {<<k, o>>}
  BY DEF QueueInv, OneTimer
<1>2. /\ buffer' = [buffer EXCEPT ![k] = <<>>] /\ timers' = {} /\ inProgress' = FALSE
      /\ UNCHANGED <<parsed, failed, written>>
  BY <1>1 DEF Queue!InnerWriteDisposed
<1>3. Fitting(parsed[k]) /\ parsed = [parsed EXCEPT ![k] = parsed[k]]
  BY DEF Fitting, QueueInv, QueueTypes, InTurn, Numbered
<1>4. Fitting(<<>>) /\ Len(<<>>) = 0
  BY EmptySeq DEF Fitting, Increasing
<1>5. timers # {} /\ \A t \in timers : t[1] = k
  BY <1>1
<1>6. Replacing(k, parsed[k], <<>>, 0)
  BY <1>2, <1>3, <1>4 DEF Replacing
<1> QED
  BY <1>5, <1>6, Replaced

(* Every step of the queue.                                                *)
LEMMA NextQueue == QueueInv /\ [Queue!Next]_Queue!vars => QueueInv'
<1> SUFFICES ASSUME QueueInv, [Queue!Next]_Queue!vars PROVE QueueInv'
  OBVIOUS
<1>1. CASE UNCHANGED Queue!vars \/ Queue!Dispose
  BY <1>1 DEF Queue!vars, Queue!Dispose, QueueInv, QueueTypes, OneTimer, Numbered, InTurn, GoesOnAt
<1>2. CASE \E k \in Queue!Kinds, empty \in BOOLEAN : Queue!Write(k, empty)
  BY <1>2, WriteQueued
<1>3. CASE Queue!Timer
  <2>1. PICK t \in timers :
          IF disposed THEN Queue!InnerWriteDisposed(t[1], t[2])
          ELSE \E n \in 1..(Len(buffer[t[1]]) - t[2]) :
                   Queue!InnerWrite(t[1], t[2], n) \/ Queue!InnerWriteThrows(t[1], t[2], n)
    BY <1>3 DEF Queue!Timer
  <2>2. t[1] \in Queue!Kinds /\ t[2] \in Nat /\ <<t[1], t[2]>> \in timers
    BY DEF QueueInv, QueueTypes
  <2> QED
    BY <2>1, <2>2, SliceParsed, SliceDropped
<1> QED
  BY <1>1, <1>2, <1>3 DEF Queue!Next

-----------------------------------------------------------------------------
(* The terminals of an instance.                                           *)
(* The keys that have not reached a terminal's channel.                    *)
Held == IF holding = Manager!Nothing THEN {} ELSE {holding[2]}
Coming == Held \cup Elements(sendCh)
In(t) == Elements(write[t].keys)

Channels == [keys : Seq(Nat), closed : BOOLEAN]
TerminalsTypes ==
    /\ conn \in Seq({"open", "lost", "closed"})
    /\ write \in Seq(Channels) /\ Len(write) = Len(conn)
    /\ current \in Manager!Known \cup {Manager!None}
    /\ sendCh \in Seq(Nat) /\ delivered \in Seq(Nat) /\ keys \in Nat
    /\ holding = Manager!Nothing \/ holding \in Manager!Known \X Nat
    /\ doubled \in BOOLEAN

InOrder ==
    /\ Increasing(sendCh) /\ Order(Held, Elements(sendCh))
    /\ \A k \in Coming : k <= keys
    /\ \A t \in Manager!Known : Increasing(write[t].keys) /\ Order(In(t), Coming) /\ \A k \in In(t) : k <= keys
    /\ Order(Elements(delivered), Coming) /\ \A k \in Elements(delivered) : k <= keys

OneOpen == ~doubled => \A t \in Manager!Known : conn[t] = "open" => t = current
WrittenFirst ==
    ~doubled => /\ Increasing(delivered)
                /\ \A t \in Manager!Known : conn[t] = "open" => Order(Elements(delivered), In(t))
ClosedLast ==
    /\ \A t \in Manager!Known : write[t].closed => goes # "no"
    /\ panicked => goes # "no"

TerminalsInv == TerminalsTypes /\ InOrder /\ OneOpen /\ WrittenFirst /\ ClosedLast

LEMMA InitTerminals == Manager!TerminalsInit => TerminalsInv
<1> SUFFICES ASSUME Manager!TerminalsInit PROVE TerminalsInv
  OBVIOUS
<1>1. /\ sendCh = <<>> /\ holding = Manager!Nothing /\ delivered = <<>> /\ keys = 0 /\ doubled = FALSE /\ panicked = FALSE
      /\ write = [t \in Manager!Known |-> [keys |-> <<>>, closed |-> FALSE]]
  BY DEF Manager!TerminalsInit
<1>2. (conn = <<"open">> /\ current = 1) \/ (conn = <<>> /\ current = Manager!None)
  BY DEF Manager!TerminalsInit
<1>3. Manager!Known = 1..Len(conn) /\ conn \in Seq({"open", "lost", "closed"}) /\ Len(conn) \in {0, 1}
  <2>1. CASE conn = <<"open">>
    BY <2>1 DEF Manager!Known
  <2>2. CASE conn = <<>>
    BY <2>2 DEF Manager!Known
  <2> QED
    BY <1>2, <2>1, <2>2
<1>4. write \in Seq(Channels) /\ Len(write) = Len(conn)
  <2>1. [keys |-> <<>>, closed |-> FALSE] \in Channels
    BY DEF Channels
  <2>2. write \in [1..Len(conn) -> Channels]
    BY <1>1, <1>3, <2>1
  <2> QED
    BY <2>2, <1>3
<1>5. TerminalsTypes
  <2>1. current \in Manager!Known \cup {Manager!None}
    BY <1>2, <1>3 DEF Manager!None, Manager!Known
  <2>2. sendCh \in Seq(Nat) /\ delivered \in Seq(Nat)
    BY <1>1
  <2> QED
    BY <1>1, <1>3, <1>4, <2>1, <2>2 DEF TerminalsTypes
<1>6. \A t \in Manager!Known : write[t].keys = <<>> /\ write[t].closed = FALSE
  BY <1>1
<1>7. Elements(<<>>) = {} /\ Increasing(<<>>)
  BY DEF Elements, Increasing
<1>8. InOrder
  BY <1>1, <1>6, <1>7 DEF InOrder, In, Coming, Held, Order
<1>9. OneOpen /\ WrittenFirst /\ ClosedLast
  BY <1>1, <1>2, <1>3, <1>6, <1>7 DEF OneOpen, WrittenFirst, ClosedLast, Order, In
<1> QED
  BY <1>5, <1>8, <1>9 DEF TerminalsInv

(* Steps that touch neither keys nor connections.                          *)
LEMMA IdleTerminals ==
  ASSUME TerminalsInv, goes' = goes \/ goes' # "no",
         UNCHANGED <<conn, write, current, sendCh, holding, delivered, keys, doubled, panicked>>
  PROVE  TerminalsInv'
<1>1. TerminalsTypes'
  BY DEF TerminalsInv, TerminalsTypes, Manager!Known
<1>2. InOrder'
  BY DEF TerminalsInv, InOrder, Coming, Held, In, Manager!Known
<1>3. OneOpen' /\ WrittenFirst' /\ ClosedLast'
  BY DEF TerminalsInv, OneOpen, WrittenFirst, ClosedLast, In, Manager!Known
<1> QED
  BY <1>1, <1>2, <1>3 DEF TerminalsInv

(* A terminal with an empty channel is added, and is the current one.      *)
LEMMA ConnectHolds == TerminalsInv /\ Manager!ConnectTerminal => TerminalsInv'
<1> SUFFICES ASSUME TerminalsInv, Manager!ConnectTerminal PROVE TerminalsInv'
  OBVIOUS
<1> DEFINE new == Len(conn) + 1
           empty == [keys |-> <<>>, closed |-> FALSE]
<1>1. /\ conn \in Seq({"open", "lost", "closed"}) /\ write \in Seq(Channels) /\ Len(write) = Len(conn)
      /\ current' = new /\ conn' = Append(conn, "open") /\ write' = Append(write, empty)
      /\ doubled' = (doubled \/ (current # Manager!None /\ conn[current] = "open"))
      /\ UNCHANGED <<sendCh, holding, keys, delivered, goes, panicked>>
  BY DEF TerminalsInv, TerminalsTypes, Manager!ConnectTerminal, Manager!processVars
<1>2. Len(conn) \in Nat /\ Manager!Known = 1..Len(conn)
  BY <1>1 DEF Manager!Known
<1>3. empty \in Channels
  BY DEF Channels
<1>4. /\ conn' \in Seq({"open", "lost", "closed"}) /\ Len(conn') = new
      /\ \A t \in Manager!Known : conn'[t] = conn[t]
      /\ conn'[new] = "open"
  BY <1>1, <1>2
<1>5. write' \in Seq(Channels) /\ Len(write') = new
  BY <1>1, <1>3
<1>6. (\A t \in Manager!Known : write'[t] = write[t]) /\ write'[new] = empty
  BY <1>1, <1>2, <1>3
<1>7. Manager!Known' = Manager!Known \cup {new} /\ new \notin Manager!Known /\ Manager!None \notin Manager!Known
  <2>1. Manager!Known' = 1..new
    BY <1>4 DEF Manager!Known
  <2> QED
    BY <2>1, <1>2 DEF Manager!None
<1>8. TerminalsTypes'
  <2>1. current' \in Manager!Known' \cup {Manager!None}
    BY <1>1, <1>7
  <2>2. sendCh' \in Seq(Nat) /\ delivered' \in Seq(Nat) /\ keys' \in Nat
    BY <1>1 DEF TerminalsInv, TerminalsTypes
  <2>3. holding' = Manager!Nothing \/ holding' \in Manager!Known' \X Nat
    BY <1>1, <1>7 DEF TerminalsInv, TerminalsTypes
  <2>4. doubled' \in BOOLEAN
    BY <1>1 DEF TerminalsInv, TerminalsTypes
  <2> QED
    BY <1>4, <1>5, <2>1, <2>2, <2>3, <2>4 DEF TerminalsTypes
<1>9. /\ Elements(write'[new].keys) = {} /\ Increasing(write'[new].keys) /\ write'[new].closed = FALSE
      /\ \A t \in Manager!Known : In(t) = Elements(write'[t].keys)
  <2>1. write'[new].keys = <<>> /\ write'[new].closed = FALSE
    BY <1>6
  <2> QED
    BY <2>1, <1>6 DEF In, Elements, Increasing
<1>10. Coming' = Coming /\ Held' = Held
  BY <1>1 DEF Coming, Held
<1>11. InOrder'
  BY <1>1, <1>6, <1>7, <1>9, <1>10 DEF TerminalsInv, InOrder, Order, In
<1>12. ASSUME ~doubled' PROVE ~doubled /\ \A t \in Manager!Known : conn[t] # "open"
  BY <1>1, <1>12, <1>7 DEF TerminalsInv, OneOpen
<1>13. OneOpen'
  BY <1>1, <1>4, <1>7, <1>12 DEF OneOpen
<1>14. WrittenFirst'
  BY <1>1, <1>4, <1>6, <1>7, <1>9, <1>12 DEF TerminalsInv, WrittenFirst, Order, In
<1>15. ClosedLast'
  BY <1>1, <1>6, <1>7, <1>9 DEF TerminalsInv, ClosedLast
<1> QED
  BY <1>8, <1>11, <1>13, <1>14, <1>15 DEF TerminalsInv

(* A channel is replaced: its keys are of what it had and perhaps one of   *)
(* the coming ones.  The connections are the same.                         *)
LEMMA ChannelTypes ==
  ASSUME TerminalsTypes, NEW t \in Manager!Known, NEW s \in Seq(Nat), UNCHANGED conn,
         write' = [write EXCEPT ![t].keys = s]
  PROVE  /\ Manager!Known' = Manager!Known /\ write' \in Seq(Channels) /\ Len(write') = Len(conn')
         /\ write'[t].keys = s /\ write'[t].closed = write[t].closed
         /\ \A u \in Manager!Known : u # t => write'[u] = write[u]
<1>1. write \in Seq(Channels) /\ Len(write) = Len(conn) /\ Manager!Known = 1..Len(write)
  BY DEF TerminalsTypes, Manager!Known
<1>2. write[t] \in Channels
  BY <1>1
<1>3. [write[t] EXCEPT !.keys = s] \in Channels
  BY <1>2 DEF Channels
<1>4. write' = [write EXCEPT ![t] = [write[t] EXCEPT !.keys = s]]
  OBVIOUS
<1>5. write' \in Seq(Channels) /\ Len(write') = Len(write) /\ write'[t] = [write[t] EXCEPT !.keys = s]
      /\ \A u \in Manager!Known : u # t => write'[u] = write[u]
  BY <1>1, <1>3, <1>4
<1>6. [write[t] EXCEPT !.keys = s].keys = s /\ [write[t] EXCEPT !.keys = s].closed = write[t].closed
  BY <1>2 DEF Channels
<1> QED
  BY <1>1, <1>5, <1>6 DEF Manager!Known

(* A terminal's goroutine takes a key and writes it, if it can.            *)
LEMMA WriteHolds == ASSUME TerminalsInv, NEW t \in Manager!Known, Manager!Write(t) PROVE TerminalsInv'
<1> DEFINE ch == write[t].keys
<1>1. /\ ch # <<>> /\ UNCHANGED <<conn, current, sendCh, holding, goes, keys, doubled, panicked>>
      /\ write' = [write EXCEPT ![t].keys = Tail(ch)]
      /\ IF conn[t] = "open" THEN delivered' = Append(delivered, Head(ch)) ELSE delivered' = delivered
  BY DEF Manager!Write, Manager!goVars
<1>2. ch \in Seq(Nat)
  <2>1. write[t] \in Channels
    BY DEF TerminalsInv, TerminalsTypes, Manager!Known
  <2> QED
    BY <2>1 DEF Channels
<1>3. /\ Tail(ch) \in Seq(Nat) /\ Head(ch) \in Nat
      /\ Elements(ch) = Elements(Tail(ch)) \cup {Head(ch)}
      /\ Increasing(Tail(ch)) /\ Order({Head(ch)}, Elements(Tail(ch)))
  BY <1>1, <1>2, Taken DEF TerminalsInv, InOrder
<1>4. /\ Manager!Known' = Manager!Known /\ write' \in Seq(Channels) /\ Len(write') = Len(conn')
      /\ write'[t].keys = Tail(ch) /\ write'[t].closed = write[t].closed
      /\ \A u \in Manager!Known : u # t => write'[u] = write[u]
  BY <1>1, <1>3, ChannelTypes DEF TerminalsInv
<1>5. delivered \in Seq(Nat)
  BY DEF TerminalsInv, TerminalsTypes
<1>6. conn[t] = "open" => /\ delivered' \in Seq(Nat) /\ Elements(delivered') = Elements(delivered) \cup {Head(ch)}
                          /\ Increasing(delivered) /\ Order(Elements(delivered), {Head(ch)}) => Increasing(delivered')
  BY <1>1, <1>3, <1>5, Appended
<1>7. TerminalsTypes'
  <2>1. delivered' \in Seq(Nat)
    BY <1>1, <1>5, <1>6
  <2> QED
    BY <1>1, <1>4, <2>1 DEF TerminalsInv, TerminalsTypes
<1>8. Coming' = Coming /\ Held' = Held
  BY <1>1 DEF Coming, Held
<1>9. In(t) = Elements(ch) /\ In(t)' = Elements(Tail(ch)) /\ \A u \in Manager!Known : u # t => In(u)' = In(u)
  BY <1>4 DEF In
<1>10. Elements(delivered') \subseteq Elements(delivered) \cup In(t)
  BY <1>1, <1>3, <1>6, <1>9
<1>11. InOrder'
  <2>1. \A u \in Manager!Known : Increasing(write'[u].keys) /\ In(u)' \subseteq In(u)
    BY <1>3, <1>4, <1>9 DEF TerminalsInv, InOrder
  <2> QED
    BY <1>1, <1>4, <1>8, <1>10, <2>1 DEF TerminalsInv, InOrder, Order
<1>12. OneOpen'
  BY <1>1, <1>4 DEF TerminalsInv, OneOpen
<1>13. WrittenFirst'
  <2> SUFFICES ASSUME ~doubled
               PROVE  /\ Increasing(delivered')
                      /\ \A u \in Manager!Known : conn[u] = "open" => Order(Elements(delivered'), In(u)')
    BY <1>1, <1>4 DEF WrittenFirst
  <2>1. Increasing(delivered) /\ \A u \in Manager!Known : conn[u] = "open" => u = current /\ Order(Elements(delivered), In(u))
    BY DEF TerminalsInv, OneOpen, WrittenFirst
  <2>2. CASE conn[t] = "open"
    <3>1. Order(Elements(delivered), {Head(ch)}) /\ Order(Elements(delivered), In(t)')
      BY <2>1, <2>2, <1>3, <1>9 DEF Order
    <3>2. Order(Elements(delivered'), In(t)')
      BY <3>1, <2>2, <1>3, <1>6, <1>9 DEF Order
    <3>3. \A u \in Manager!Known : conn[u] = "open" => u = t
      BY <2>1, <2>2
    <3> QED
      BY <2>1, <2>2, <3>1, <3>2, <3>3, <1>6
  <2>3. CASE conn[t] # "open"
    BY <2>1, <2>3, <1>1, <1>9
  <2> QED
    BY <2>2, <2>3
<1>14. ClosedLast'
  BY <1>1, <1>4 DEF TerminalsInv, ClosedLast
<1> QED
  BY <1>7, <1>11, <1>12, <1>13, <1>14 DEF TerminalsInv

(* A connection is lost.                                                   *)
LEMMA LoseHolds == ASSUME TerminalsInv, NEW t \in Manager!Known, Manager!Lose(t) PROVE TerminalsInv'
<1>1. /\ conn' = [conn EXCEPT ![t] = "lost"]
      /\ UNCHANGED <<write, current, sendCh, holding, delivered, goes, keys, doubled, panicked>>
  BY DEF Manager!Lose, Manager!processVars, Manager!goVars, Manager!historyVars
<1>2. conn \in Seq({"open", "lost", "closed"})
  BY DEF TerminalsInv, TerminalsTypes
<1>3. /\ conn' \in Seq({"open", "lost", "closed"}) /\ Len(conn') = Len(conn) /\ Manager!Known' = Manager!Known
      /\ \A u \in Manager!Known : conn'[u] = "open" => conn[u] = "open"
  BY <1>1, <1>2 DEF Manager!Known
<1>4. TerminalsTypes'
  BY <1>1, <1>3 DEF TerminalsInv, TerminalsTypes
<1>5. InOrder'
  BY <1>1, <1>3 DEF TerminalsInv, InOrder, Coming, Held, In
<1>6. OneOpen' /\ WrittenFirst' /\ ClosedLast'
  BY <1>1, <1>3 DEF TerminalsInv, OneOpen, WrittenFirst, ClosedLast, In
<1> QED
  BY <1>4, <1>5, <1>6 DEF TerminalsInv

(* A key is typed: it is the last of all.                                  *)
LEMMA TypeHolds == TerminalsInv /\ Manager!Type => TerminalsInv'
<1> SUFFICES ASSUME TerminalsInv, Manager!Type PROVE TerminalsInv'
  OBVIOUS
<1>1. /\ keys' = keys + 1 /\ sendCh' = Append(sendCh, keys + 1)
      /\ UNCHANGED <<conn, write, current, holding, delivered, goes, doubled, panicked>>
  BY DEF Manager!Type, Manager!terminalVars, Manager!goVars, Manager!historyVars
<1>2. sendCh \in Seq(Nat) /\ keys \in Nat
  BY DEF TerminalsInv, TerminalsTypes
<1>3. Order(Elements(sendCh), {keys + 1})
  <2>1. \A k \in Elements(sendCh) : k <= keys /\ k \in Nat
    BY <1>2 DEF TerminalsInv, InOrder, Coming, Elements
  <2> QED
    BY <1>2, <2>1 DEF Order
<1>4. /\ sendCh' \in Seq(Nat) /\ Elements(sendCh') = Elements(sendCh) \cup {keys + 1}
      /\ Increasing(sendCh')
  <2>1. Increasing(sendCh) /\ keys + 1 \in Nat
    BY <1>2 DEF TerminalsInv, InOrder
  <2> QED
    BY <1>1, <1>2, <1>3, <2>1, Appended
<1>5. TerminalsTypes'
  BY <1>1, <1>2, <1>4 DEF TerminalsInv, TerminalsTypes, Manager!Known
<1>6. Held' = Held /\ Coming' = Coming \cup {keys + 1} /\ Manager!Known' = Manager!Known /\ \A t \in Manager!Known : In(t)' = In(t)
  BY <1>1, <1>4 DEF Coming, Held, Manager!Known, In
<1>7. InOrder'
  <2>1. Coming \subseteq Nat /\ Elements(delivered) \subseteq Nat /\ \A t \in Manager!Known : In(t) \subseteq Nat
    <3>1. ASSUME NEW t \in Manager!Known PROVE In(t) \subseteq Nat
      <4>1. write[t] \in Channels
        BY DEF TerminalsInv, TerminalsTypes, Manager!Known
      <4> QED
        BY <4>1 DEF Channels, In, Elements
    <3>2. Coming \subseteq Nat /\ Elements(delivered) \subseteq Nat
      BY DEF TerminalsInv, TerminalsTypes, Coming, Held, Elements
    <3> QED
      BY <3>1, <3>2
  <2>2. Order(Held, Elements(sendCh)) /\ \A k \in Coming : k <= keys
    BY DEF TerminalsInv, InOrder
  <2>3. Order(Held, Elements(sendCh)')
    BY <1>2, <1>4, <2>1, <2>2 DEF Order, Coming
  <2>4. \A k \in Coming' : k <= keys'
    BY <1>1, <1>2, <1>6, <2>1, <2>2
  <2>5. \A t \in Manager!Known : Increasing(write[t].keys) /\ Order(In(t), Coming') /\ \A k \in In(t) : k <= keys'
    BY <1>1, <1>2, <1>6, <2>1 DEF TerminalsInv, InOrder, Order
  <2>6. Order(Elements(delivered), Coming') /\ \A k \in Elements(delivered) : k <= keys'
    BY <1>1, <1>2, <1>6, <2>1 DEF TerminalsInv, InOrder, Order
  <2> QED
    BY <1>1, <1>4, <1>6, <2>3, <2>4, <2>5, <2>6 DEF InOrder
<1>8. OneOpen' /\ WrittenFirst' /\ ClosedLast'
  BY <1>1, <1>6 DEF TerminalsInv, OneOpen, WrittenFirst, ClosedLast
<1> QED
  BY <1>5, <1>7, <1>8 DEF TerminalsInv

(* The manager takes the oldest key, and drops it without a terminal.      *)
LEMMA TakeKeyHolds == TerminalsInv /\ Manager!TakeKey => TerminalsInv'
<1> SUFFICES ASSUME TerminalsInv, Manager!TakeKey PROVE TerminalsInv'
  OBVIOUS
<1>1. /\ holding = Manager!Nothing /\ sendCh # <<>> /\ sendCh' = Tail(sendCh)
      /\ holding' = (IF current = Manager!None THEN Manager!Nothing ELSE <<current, Head(sendCh)>>)
      /\ UNCHANGED <<conn, write, current, delivered, goes, keys, doubled, panicked>>
  BY DEF Manager!TakeKey, Manager!terminalVars, Manager!goVars, Manager!historyVars
<1>2. sendCh \in Seq(Nat) /\ Increasing(sendCh) /\ current \in Manager!Known \cup {Manager!None}
  BY DEF TerminalsInv, TerminalsTypes, InOrder
<1>3. /\ sendCh' \in Seq(Nat) /\ Head(sendCh) \in Nat
      /\ Elements(sendCh) = Elements(sendCh') \cup {Head(sendCh)}
      /\ Increasing(sendCh') /\ Order({Head(sendCh)}, Elements(sendCh'))
  BY <1>1, <1>2, Taken
<1>4. TerminalsTypes'
  <2>1. holding' = Manager!Nothing \/ holding' \in Manager!Known' \X Nat
    BY <1>1, <1>2, <1>3 DEF Manager!Known
  <2> QED
    BY <1>1, <1>3, <2>1 DEF TerminalsInv, TerminalsTypes, Manager!Known
<1>5. Held' \subseteq {Head(sendCh)}
  BY <1>1 DEF Held, Manager!Nothing
<1>6. Coming' \subseteq Coming /\ Manager!Known' = Manager!Known /\ \A t \in Manager!Known : In(t)' = In(t)
  BY <1>1, <1>3, <1>5 DEF Coming, Manager!Known, In
<1>7. InOrder'
  BY <1>1, <1>3, <1>5, <1>6 DEF TerminalsInv, InOrder, Order
<1>8. OneOpen' /\ WrittenFirst' /\ ClosedLast'
  BY <1>1, <1>6 DEF TerminalsInv, OneOpen, WrittenFirst, ClosedLast
<1> QED
  BY <1>4, <1>7, <1>8 DEF TerminalsInv

(* The manager puts the key it holds into the terminal's channel, or finds *)
(* the channel closed.                                                     *)
LEMMA SendKeyHolds == TerminalsInv /\ Manager!SendKey => TerminalsInv'
<1> SUFFICES ASSUME TerminalsInv, Manager!SendKey PROVE TerminalsInv'
  OBVIOUS
<1> DEFINE t == holding[1]
           k == holding[2]
           ch == write[t].keys
<1>1. /\ holding # Manager!Nothing
      /\ UNCHANGED <<conn, current, sendCh, delivered, goes, keys, doubled>>
  BY DEF Manager!SendKey, Manager!goVars
<1>2. t \in Manager!Known /\ k \in Nat
  BY <1>1 DEF TerminalsInv, TerminalsTypes
<1>3. CASE write[t].closed
  <2>1. panicked' = TRUE /\ UNCHANGED <<write, holding>>
    BY <1>3 DEF Manager!SendKey
  <2>2. goes # "no"
    BY <1>2, <1>3 DEF TerminalsInv, ClosedLast
  <2>3. TerminalsTypes'
    BY <1>1, <2>1 DEF TerminalsInv, TerminalsTypes, Manager!Known
  <2>4. InOrder'
    BY <1>1, <2>1 DEF TerminalsInv, InOrder, Coming, Held, In, Manager!Known
  <2>5. OneOpen' /\ WrittenFirst' /\ ClosedLast'
    BY <1>1, <2>1, <2>2 DEF TerminalsInv, OneOpen, WrittenFirst, ClosedLast, In, Manager!Known
  <2> QED
    BY <2>3, <2>4, <2>5 DEF TerminalsInv
<1>4. CASE ~write[t].closed
  <2>1. /\ write' = [write EXCEPT ![t].keys = Append(ch, k)]
        /\ holding' = Manager!Nothing /\ UNCHANGED panicked
    BY <1>4 DEF Manager!SendKey, Manager!Channel
  <2>2. ch \in Seq(Nat)
    <3>1. write[t] \in Channels
      BY <1>2 DEF TerminalsInv, TerminalsTypes, Manager!Known
    <3> QED
      BY <3>1 DEF Channels
  <2>3. Held = {k} /\ In(t) = Elements(ch)
    BY <1>1 DEF Held, In
  <2>4. /\ Append(ch, k) \in Seq(Nat) /\ Elements(Append(ch, k)) = Elements(ch) \cup {k}
        /\ Increasing(Append(ch, k))
    <3>1. Increasing(ch) /\ Order(Elements(ch), {k})
      BY <1>2, <2>3 DEF TerminalsInv, InOrder, Coming, Order
    <3> QED
      BY <1>2, <2>2, <3>1, Appended
  <2>5. /\ Manager!Known' = Manager!Known /\ write' \in Seq(Channels) /\ Len(write') = Len(conn')
        /\ write'[t].keys = Append(ch, k) /\ write'[t].closed = write[t].closed
        /\ \A u \in Manager!Known : u # t => write'[u] = write[u]
    BY <1>1, <1>2, <2>1, <2>4, ChannelTypes DEF TerminalsInv
  <2>6. TerminalsTypes'
    BY <1>1, <2>1, <2>5 DEF TerminalsInv, TerminalsTypes
  <2>7. Held' = {} /\ Coming' = Elements(sendCh)
    BY <1>1, <2>1 DEF Held, Coming
  <2>8. \A u \in Manager!Known : /\ In(u)' \subseteq In(u) \cup {k} /\ Increasing(write'[u].keys)
                         /\ write'[u].closed = write[u].closed
    <3>1. ASSUME NEW u \in Manager!Known, u = t PROVE In(u)' \subseteq In(u) \cup {k} /\ Increasing(write'[u].keys)
      BY <3>1, <2>3, <2>4, <2>5 DEF In
    <3>2. ASSUME NEW u \in Manager!Known, u # t PROVE In(u)' \subseteq In(u) \cup {k} /\ Increasing(write'[u].keys)
      BY <3>2, <2>5 DEF In, TerminalsInv, InOrder
    <3> QED
      BY <3>1, <3>2, <2>5
  <2>9. Order({k}, Elements(sendCh)) /\ k <= keys
    BY <2>3 DEF TerminalsInv, InOrder, Coming
  <2>10. InOrder'
    BY <1>1, <2>5, <2>7, <2>8, <2>9 DEF TerminalsInv, InOrder, Coming, Order
  <2>11. OneOpen' /\ ClosedLast'
    BY <1>1, <2>1, <2>5, <2>8 DEF TerminalsInv, OneOpen, ClosedLast
  <2>12. WrittenFirst'
    <3>1. Order(Elements(delivered), {k})
      BY <2>3 DEF TerminalsInv, InOrder, Coming, Order
    <3> QED
      BY <1>1, <2>5, <2>8, <3>1 DEF TerminalsInv, WrittenFirst, Order
  <2> QED
    BY <2>6, <2>10, <2>11, <2>12 DEF TerminalsInv
<1> QED
  BY <1>3, <1>4

(* The current terminal's connection and channel are closed.               *)
LEMMA DisconnectHolds == TerminalsInv /\ Manager!DisconnectTerminal => TerminalsInv'
<1> SUFFICES ASSUME TerminalsInv, Manager!DisconnectTerminal PROVE TerminalsInv'
  OBVIOUS
<1>1. /\ goes' = "cut" /\ current' = Manager!None
      /\ UNCHANGED <<sendCh, holding, delivered, keys, doubled, panicked>>
  BY DEF Manager!DisconnectTerminal, Manager!processVars, Manager!historyVars
<1>2. CASE current = Manager!None
  <2>1. UNCHANGED <<conn, write>> /\ UNCHANGED current
    BY <1>1, <1>2 DEF Manager!DisconnectTerminal
  <2> QED
    BY <1>1, <2>1, IdleTerminals
<1>3. CASE current # Manager!None
  <2> DEFINE c == current
  <2>1. c \in Manager!Known /\ conn \in Seq({"open", "lost", "closed"}) /\ write \in Seq(Channels) /\ Len(write) = Len(conn)
    BY <1>3 DEF TerminalsInv, TerminalsTypes
  <2>2. conn' = [conn EXCEPT ![c] = "closed"] /\ write' = [write EXCEPT ![c].closed = TRUE]
    BY <1>3 DEF Manager!DisconnectTerminal
  <2>3. /\ conn' \in Seq({"open", "lost", "closed"}) /\ Len(conn') = Len(conn) /\ Manager!Known' = Manager!Known
        /\ conn'[c] = "closed" /\ \A u \in Manager!Known : u # c => conn'[u] = conn[u]
    BY <2>1, <2>2 DEF Manager!Known
  <2>4. write[c] \in Channels /\ [write[c] EXCEPT !.closed = TRUE] \in Channels
    <3>1. write[c] \in Channels
      BY <2>1 DEF Manager!Known
    <3> QED
      BY <3>1 DEF Channels
  <2>5. write' \in Seq(Channels) /\ Len(write') = Len(write)
    <3>1. write' = [write EXCEPT ![c] = [write[c] EXCEPT !.closed = TRUE]]
      BY <2>2
    <3>2. c \in 1..Len(write)
      BY <2>1 DEF Manager!Known
    <3> QED
      BY <2>1, <2>4, <3>1, <3>2
  <2>6. \A u \in Manager!Known : write'[u].keys = write[u].keys
    BY <2>1, <2>2, <2>4 DEF Manager!Known, Channels
  <2>7. TerminalsTypes'
    BY <1>1, <2>1, <2>3, <2>5 DEF TerminalsInv, TerminalsTypes
  <2>8. Coming' = Coming /\ Held' = Held /\ \A u \in Manager!Known : In(u)' = In(u)
    BY <1>1, <2>6 DEF Coming, Held, In
  <2>9. InOrder'
    BY <1>1, <2>3, <2>6, <2>8 DEF TerminalsInv, InOrder
  <2>10. ASSUME ~doubled, NEW u \in Manager!Known PROVE conn'[u] # "open"
    BY <2>3, <2>10 DEF TerminalsInv, OneOpen
  <2>11. OneOpen' /\ WrittenFirst' /\ ClosedLast'
    BY <1>1, <2>3, <2>10 DEF TerminalsInv, OneOpen, WrittenFirst, ClosedLast
  <2> QED
    BY <2>7, <2>9, <2>11 DEF TerminalsInv
<1> QED
  BY <1>2, <1>3

LEMMA NextHolds == TerminalsInv /\ [Manager!TerminalsNext]_Manager!terminalsVars => TerminalsInv'
<1> SUFFICES ASSUME TerminalsInv, [Manager!TerminalsNext]_Manager!terminalsVars PROVE TerminalsInv'
  OBVIOUS
<1>1. CASE UNCHANGED Manager!terminalsVars
  BY <1>1, IdleTerminals DEF Manager!terminalsVars, Manager!terminalVars, Manager!processVars, Manager!goVars, Manager!historyVars
<1>2. CASE Manager!ConnectTerminal \/ Manager!Type \/ Manager!TakeKey \/ Manager!SendKey \/ Manager!DisconnectTerminal
  BY <1>2, ConnectHolds, TypeHolds, TakeKeyHolds, SendKeyHolds, DisconnectHolds
<1>3. ASSUME NEW t \in Manager!Known, Manager!Write(t) \/ Manager!Lose(t) PROVE TerminalsInv'
  BY <1>3, WriteHolds, LoseHolds
<1>4. ASSUME NEW t \in Manager!Known, Manager!WriteEnds(t) \/ Manager!Read(t) PROVE TerminalsInv'
  BY <1>4, IdleTerminals DEF Manager!WriteEnds, Manager!Read, Manager!processVars, Manager!goVars, Manager!historyVars
<1>5. CASE Manager!ConnectFails \/ Manager!TakeError \/ Manager!Reconnect \/ Manager!InstanceNew \/ Manager!Untrack
  BY <1>5, IdleTerminals
     DEF Manager!ConnectFails, Manager!TakeError, Manager!Reconnect, Manager!InstanceNew, Manager!Untrack, Manager!terminalVars, Manager!processVars, Manager!goVars, Manager!historyVars
<1>6. ASSUME NEW deleted \in BOOLEAN, Manager!Leave(deleted) PROVE TerminalsInv'
  BY <1>6, IdleTerminals DEF Manager!Leave, Manager!terminalVars, Manager!processVars, Manager!historyVars
<1> QED
  BY <1>1, <1>2, <1>3, <1>4, <1>5, <1>6 DEF Manager!TerminalsNext, Manager!TerminalsSteps

-----------------------------------------------------------------------------
(* The add-ons: __dataListener is the last call's or undefined.            *)
LastCall == Joined!latest
AttachInv ==
    /\ calls \in Seq(Sockets) /\ listeners \subseteq 1..LastCall /\ keyListeners \subseteq 1..LastCall
    /\ addon = "attach" /\ bidirectional => dataListener \in {0, LastCall}
    /\ Joined!BothWays

LEMMA InitAttach == Joined!Init => AttachInv
<1>1. Joined!Init => calls = <<>> /\ LastCall = 0 /\ calls \in Seq(Sockets)
  BY DEF Joined!Init, LastCall, Joined!latest
<1> QED
  BY <1>1 DEF Joined!Init, AttachInv, Joined!BothWays, LastCall

(* A second call for a new socket, with listeners of its own.              *)
LEMMA AttachHolds == ASSUME AttachInv, NEW s \in Sockets, Joined!AttachTo(s) PROVE AttachInv'
<1>1. /\ calls' = Append(calls, s) /\ listeners' = listeners \cup {LastCall + 1}
      /\ keyListeners' = (IF bidirectional THEN keyListeners \cup {LastCall + 1} ELSE keyListeners)
      /\ dataListener' = (IF bidirectional /\ addon = "attach" THEN LastCall + 1 ELSE dataListener)
      /\ UNCHANGED <<addon, bidirectional, crossed>>
  BY DEF Joined!AttachTo, Joined!KeysListenedTo, Joined!DataListenerKept, Joined!modes, LastCall
<1>2. calls' \in Seq(Sockets) /\ LastCall \in Nat /\ LastCall' = LastCall + 1
  BY <1>1 DEF AttachInv, LastCall, Joined!latest
<1>3. listeners' \subseteq 1..LastCall' /\ keyListeners' \subseteq 1..LastCall'
  BY <1>1, <1>2 DEF AttachInv
<1>4. addon' = "attach" /\ bidirectional' => dataListener' \in {0, LastCall'}
  BY <1>1, <1>2
<1>5. Joined!BothWays'
  BY <1>1, <1>2 DEF Joined!BothWays, LastCall
<1> QED
  BY <1>2, <1>3, <1>4, <1>5 DEF AttachInv

(* detach, of the program or of a socket's event.                          *)
LEMMA DetachHolds ==
  ASSUME AttachInv, NEW s \in Sockets, \E i \in 1..LastCall : calls[i] = s, Joined!Detached(s),
         UNCHANGED <<addon, bidirectional>>
  PROVE  AttachInv'
<1>1. CASE Joined!Throws
  <2>1. UNCHANGED <<calls, listeners, keyListeners, dataListener, crossed>>
    BY <1>1 DEF Joined!Detached, Joined!wires
  <2> QED
    BY <2>1 DEF AttachInv, LastCall, Joined!latest, Joined!BothWays
<1>2. CASE ~Joined!Throws
  <2>1. /\ keyListeners' = keyListeners \ {IF addon = "attach" THEN dataListener ELSE LastCall}
        /\ listeners' = {i \in listeners : i # LastCall \/ calls[i] # s}
        /\ dataListener' = 0
        /\ crossed' = (crossed \/ calls[LastCall] # s)
        /\ calls' = calls /\ LastCall' = LastCall
    BY <1>2 DEF Joined!Detached, LastCall, Joined!latest
  <2>2. LastCall \in Nat /\ LastCall \in 1..LastCall
    BY DEF AttachInv, LastCall, Joined!latest
  <2>3. Joined!BothWays'
    <3> SUFFICES ASSUME bidirectional, addon # "terminado", ~crossed'
                 PROVE  LastCall \in listeners' <=> LastCall \in keyListeners'
      BY <2>1, <2>2 DEF Joined!BothWays, LastCall
    <3>1. LastCall \notin listeners'
      BY <2>1
    <3>2. addon = "attach" => dataListener = LastCall
      BY <1>2 DEF Joined!Throws, AttachInv
    <3>3. LastCall \notin keyListeners'
      BY <2>1, <3>2
    <3> QED
      BY <3>1, <3>3
  <2> QED
    BY <2>1, <2>3 DEF AttachInv
<1> QED
  BY <1>1, <1>2

LEMMA NextAttach == AttachInv /\ (Joined!Next \/ UNCHANGED Joined!vars) => AttachInv'
<1> SUFFICES ASSUME AttachInv, Joined!Next \/ UNCHANGED Joined!vars PROVE AttachInv'
  OBVIOUS
<1>1. CASE UNCHANGED <<Joined!modes, Joined!wires>>
  BY <1>1 DEF Joined!modes, Joined!wires, AttachInv, LastCall, Joined!latest, Joined!BothWays
<1>2. ASSUME NEW s \in Sockets, Joined!AttachTo(s) PROVE AttachInv'
  BY <1>2, AttachHolds
<1>3. ASSUME NEW s \in Sockets, Joined!Detach(s) PROVE AttachInv'
  BY <1>3, DetachHolds DEF Joined!Detach, Joined!modes, LastCall
<1>4. ASSUME NEW s \in Sockets, NEW event \in {"close", "error"}, Joined!Fires(s, event) PROVE AttachInv'
  BY <1>1, <1>4, DetachHolds DEF Joined!Fires, Joined!modes, LastCall
<1>5. ASSUME NEW s \in Sockets, Joined!Goes(s) PROVE AttachInv'
  BY <1>1, <1>5 DEF Joined!Goes
<1>6. ASSUME NEW s \in Sockets, NEW blob \in BOOLEAN, Joined!Message(s, blob) PROVE AttachInv'
  BY <1>1, <1>6 DEF Joined!Message
<1>7. ASSUME NEW id \in reading, Joined!BlobRead(id) PROVE AttachInv'
  BY <1>1, <1>7 DEF Joined!BlobRead
<1>8. CASE Joined!Flush
  BY <1>1, <1>8 DEF Joined!Flush
<1>9. CASE UNCHANGED Joined!vars
  BY <1>1, <1>9 DEF Joined!vars
<1> QED
  BY <1>2, <1>3, <1>4, <1>5, <1>6, <1>7, <1>8, <1>9 DEF Joined!Next

-----------------------------------------------------------------------------
(* The decoders.  The head of an uncut character is its lead and fewer     *)
(* continuations than the lead announces.  In the main loop head is that   *)
(* of the uncut text; otherwise it is what interim holds (AsKept), and the *)
(* slots counted are the bytes read.  After a harmful cut the slots and    *)
(* the bytes missing still bound what the uncut character lacks (NoLater): *)
(* the resumption never ends before it.                                    *)
CharacterHead(h) ==
    \/ h = <<>>
    \/ \E x \in 192..247 : h = <<x>>
    \/ \E x \in 224..247, y \in 128..191 : h = <<x, y>>
    \/ \E x \in 240..247, y \in 128..191, z \in 128..191 : h = <<x, y, z>>
WholeTypes ==
    /\ kind \in {"utf8", "string"} /\ phase \in {"idle", "resume", "main"} /\ hurt \in BOOLEAN
    /\ kind = "utf8" => CharacterHead(whole)
    /\ kind = "string" => whole = <<>> \/ \E u \in 55296..56319 : whole = <<u>>
InterimTypes ==
    /\ interim = <<interim[1], interim[2], interim[3]>>
    /\ phase # "main" /\ kind = "utf8" => interim[1] \in {0} \cup 192..247
    /\ phase = "resume" \/ (phase = "idle" /\ hurt) =>
         /\ kind = "utf8" /\ interim[1] \in 192..247
         /\ interim[1] < 224 => interim[2] = 0
         /\ interim[1] < 240 => interim[3] = 0
AsKept ==
    /\ phase = "main" => head = whole /\ ~hurt
    /\ phase # "main" /\ ~hurt => interim = Chunks!Kept(whole)
    /\ phase = "resume" /\ ~hurt =>
         whole # <<>> /\ pos = Len(whole) /\ cp = Chunks!Value(whole) /\ whole[1] < 240
NoLater ==
    /\ phase = "resume" => pos \in 1..3 /\ left \in 1..3 /\ pos + left = Chunks!Length(interim[1])
    /\ (phase = "resume" \/ (phase = "idle" /\ hurt)) /\ whole # <<>> =>
         /\ whole[1] = interim[1]
         /\ \A i \in (Len(whole) + 1)..3 : interim[i] = 0
         /\ phase = "resume" => pos <= Len(whole)
DecoderInv == WholeTypes /\ InterimTypes /\ AsKept /\ NoLater

LEMMA LeadsOf ==
  ASSUME NEW x \in 192..247
  PROVE  /\ Chunks!Leads(x) /\ ~Chunks!Continues(x) /\ x # 0
         /\ Chunks!Length(x) = IF x < 224 THEN 2 ELSE IF x < 240 THEN 3 ELSE 4
BY DEF Chunks!Leads, Chunks!Continues, Chunks!Length

LEMMA KeptOf ==
  /\ Chunks!Kept(<<>>) = <<0, 0, 0>>
  /\ \A x : Chunks!Kept(<<x>>) = <<x, 0, 0>>
  /\ \A x, y : Chunks!Kept(<<x, y>>) = <<x, y, 0>>
  /\ \A x, y, z : Chunks!Kept(<<x, y, z>>) = <<x, y, z>>
<1>1. Chunks!Kept(<<>>) = <<0, 0, 0>>
  BY DEF Chunks!Kept
<1>2. \A x : Chunks!Kept(<<x>>) = <<x, 0, 0>>
  BY DEF Chunks!Kept
<1>3. \A x, y : Chunks!Kept(<<x, y>>) = <<x, y, 0>>
  BY DEF Chunks!Kept
<1>4. \A x, y, z : Chunks!Kept(<<x, y, z>>) = <<x, y, z>>
  BY DEF Chunks!Kept
<1> QED
  BY <1>1, <1>2, <1>3, <1>4

LEMMA LongerOne ==
  ASSUME NEW x \in Nat, NEW z \in Nat
  PROVE  Append(<<x>>, z) = <<x, z>>
<1>1. <<x>> \in Seq(Nat) /\ Len(<<x>>) = 1 /\ <<x>>[1] = x
  OBVIOUS
<1>2. PICK u : u = <<x>>
  OBVIOUS
<1>3. PICK s : s = Append(u, z)
  OBVIOUS
<1>4. PICK t : t = <<x, z>>
  OBVIOUS
<1>5. t \in Seq(Nat) /\ Len(t) = 2 /\ t[1] = x /\ t[2] = z
  BY <1>4
<1>6. u \in Seq(Nat) /\ Len(u) = 1 /\ u[1] = x
  BY <1>1, <1>2
<1>7. u \in Seq(Nat)
  BY <1>6
<1>8. s \in Seq(Nat) /\ Len(s) = 2 /\ s[1] = x /\ s[2] = z
  <2>1. s \in Seq(Nat) /\ Len(s) = Len(u) + 1
    BY <1>3, <1>7, AppendProperties
  <2>2. s[Len(u) + 1] = z /\ \A i \in 1..Len(u) : s[i] = u[i]
    BY <1>3, <1>7, AppendProperties
  <2> QED
    BY <1>6, <2>1, <2>2
<1>9. \A i \in 1..Len(s) : s[i] = t[i]
  BY <1>5, <1>8
<1>10. s = t
  BY <1>5, <1>8, <1>9, SeqEqual
<1> QED
  BY <1>2, <1>3, <1>4, <1>10

LEMMA LongerTwo ==
  ASSUME NEW x \in Nat, NEW y \in Nat, NEW z \in Nat
  PROVE  Append(<<x, y>>, z) = <<x, y, z>>
<1>1. <<x, y>> \in Seq(Nat) /\ Len(<<x, y>>) = 2 /\ <<x, y>>[1] = x /\ <<x, y>>[2] = y
  OBVIOUS
<1>2. PICK u : u = <<x, y>>
  OBVIOUS
<1>3. PICK s : s = Append(u, z)
  OBVIOUS
<1>4. PICK t : t = <<x, y, z>>
  OBVIOUS
<1>5. t \in Seq(Nat) /\ Len(t) = 3 /\ t[1] = x /\ t[2] = y /\ t[3] = z
  BY <1>4
<1>6. u \in Seq(Nat) /\ Len(u) = 2 /\ u[1] = x /\ u[2] = y
  BY <1>1, <1>2
<1>7. u \in Seq(Nat)
  BY <1>6
<1>8. s \in Seq(Nat) /\ Len(s) = 3 /\ s[1] = x /\ s[2] = y /\ s[3] = z
  <2>1. s \in Seq(Nat) /\ Len(s) = Len(u) + 1
    BY <1>3, <1>7, AppendProperties
  <2>2. s[Len(u) + 1] = z /\ \A i \in 1..Len(u) : s[i] = u[i]
    BY <1>3, <1>7, AppendProperties
  <2> QED
    BY <1>6, <2>1, <2>2
<1>9. \A i \in 1..Len(s) : s[i] = t[i]
  BY <1>5, <1>8
<1>10. s = t
  BY <1>5, <1>8, <1>9, SeqEqual
<1> QED
  BY <1>2, <1>3, <1>4, <1>10

(* The value of a character grows byte by byte.                            *)
LEMMA ValueOf ==
  ASSUME NEW x, NEW y
  PROVE  Chunks!Value(<<x, y>>) = (Chunks!Value(<<x>>) * 64) + (y % 64)
         /\ Chunks!Value(<<x>>) = Chunks!Payload(x)
<1> DEFINE N(f, s, i) == IF i = 1 THEN Chunks!Payload(s[1]) ELSE (f[i - 1] * 64) + (s[i] % 64)
           V(s) == CHOOSE f : f = [i \in 1..Len(s) |-> N(f, s, i)]
           p == Chunks!Payload(x)
           q == (p * 64) + (y % 64)
<1>1. ASSUME NEW s PROVE Chunks!Value(s) = V(s)[Len(s)]
  BY DEF Chunks!Value
<1>2. Chunks!Value(<<x>>) = p
  <2> DEFINE s == <<x>>  f == [i \in 1..1 |-> p]
  <2>1. f = [i \in 1..Len(s) |-> N(f, s, i)]
    <3>1. Len(s) = 1 /\ s[1] = x
      OBVIOUS
    <3>2. \A i \in 1..1 : N(f, s, i) = p
      BY <3>1
    <3> QED
      BY <3>1, <3>2
  <2>2. V(s) = [i \in 1..Len(s) |-> N(V(s), s, i)]
    BY <2>1
  <2>3. Len(s) = 1 /\ s[1] = x
    OBVIOUS
  <2>4. V(s)[1] = p
    BY <2>2, <2>3
  <2> QED
    BY <2>3, <2>4, <1>1
<1>3. Chunks!Value(<<x, y>>) = q
  <2> DEFINE s == <<x, y>>  f == [i \in 1..2 |-> IF i = 1 THEN p ELSE q]
  <2>1. Len(s) = 2 /\ s[1] = x /\ s[2] = y
    OBVIOUS
  <2>2. f[1] = p /\ f[2] = q /\ 1..2 = {1, 2} /\ 2 - 1 = 1
    OBVIOUS
  <2>3. N(f, s, 1) = p /\ N(f, s, 2) = q
    <3> HIDE DEF f
    <3> QED
      BY <2>1, <2>2
  <2>4. f = [i \in 1..Len(s) |-> N(f, s, i)]
    <3>1. \A i \in 1..2 : N(f, s, i) = IF i = 1 THEN p ELSE q
      <4> HIDE DEF f, N
      <4> QED
        BY <2>2, <2>3
    <3> HIDE DEF N
    <3> QED
      BY <3>1, <2>1
  <2>5. V(s) = [i \in 1..Len(s) |-> N(V(s), s, i)]
    <3> HIDE DEF f, N
    <3> QED
      BY <2>4
  <2>6. V(s)[1] = N(V(s), s, 1) /\ V(s)[2] = N(V(s), s, 2)
    <3> HIDE DEF V, N, s
    <3> QED
      BY <2>5, <2>1
  <2>7. V(s)[1] = p /\ V(s)[2] = q
    <3> HIDE DEF V
    <3> QED
      BY <2>6, <2>1, <2>2
  <2> QED
    <3> HIDE DEF V
    <3> QED
      BY <2>1, <2>7, <1>1
<1> QED
  BY <1>2, <1>3

LEMMA ValueOfThree ==
  ASSUME NEW x, NEW y, NEW z
  PROVE  Chunks!Value(<<x, y, z>>) = (Chunks!Value(<<x, y>>) * 64) + (z % 64)
<1> DEFINE N(f, s, i) == IF i = 1 THEN Chunks!Payload(s[1]) ELSE (f[i - 1] * 64) + (s[i] % 64)
           V(s) == CHOOSE f : f = [i \in 1..Len(s) |-> N(f, s, i)]
           p == Chunks!Payload(x)
           q == (p * 64) + (y % 64)
           r == (q * 64) + (z % 64)
<1>1. ASSUME NEW s PROVE Chunks!Value(s) = V(s)[Len(s)]
  BY DEF Chunks!Value
<1>2. Chunks!Value(<<x, y, z>>) = r
  <2> DEFINE s == <<x, y, z>>  f == [i \in 1..3 |-> IF i = 1 THEN p ELSE IF i = 2 THEN q ELSE r]
  <2>1. Len(s) = 3 /\ s[1] = x /\ s[2] = y /\ s[3] = z
    OBVIOUS
  <2>2. f[1] = p /\ f[2] = q /\ f[3] = r /\ 1..3 = {1, 2, 3} /\ 2 - 1 = 1 /\ 3 - 1 = 2
    OBVIOUS
  <2>3. N(f, s, 1) = p /\ N(f, s, 2) = q /\ N(f, s, 3) = r
    <3> HIDE DEF f
    <3> QED
      BY <2>1, <2>2
  <2>4. f = [i \in 1..Len(s) |-> N(f, s, i)]
    <3>1. \A i \in 1..3 : N(f, s, i) = IF i = 1 THEN p ELSE IF i = 2 THEN q ELSE r
      <4> HIDE DEF f, N
      <4> QED
        BY <2>2, <2>3
    <3> HIDE DEF N
    <3> QED
      BY <3>1, <2>1
  <2>5. V(s) = [i \in 1..Len(s) |-> N(V(s), s, i)]
    <3> HIDE DEF f, N
    <3> QED
      BY <2>4
  <2>6. V(s)[1] = N(V(s), s, 1) /\ V(s)[2] = N(V(s), s, 2) /\ V(s)[3] = N(V(s), s, 3)
    <3> HIDE DEF V, N, s
    <3> QED
      BY <2>5, <2>1
  <2>7. V(s)[1] = p /\ V(s)[2] = q /\ V(s)[3] = r
    <3> HIDE DEF V
    <3> QED
      BY <2>6, <2>1, <2>2
  <2> QED
    <3> HIDE DEF V
    <3> QED
      BY <2>1, <2>7, <1>1
<1>3. Chunks!Value(<<x, y>>) = q
  BY ValueOf
<1> QED
  BY <1>2, <1>3

(* What one byte makes of the head of a character, and delivers.           *)
LEMMA ExtendedBy ==
  ASSUME NEW b, Chunks!Continues(b), NEW h, h # <<>>
  PROVE  /\ Chunks!Extended(h, b) = IF Len(h) + 1 = Chunks!Length(h[1]) THEN <<>> ELSE Append(h, b)
         /\ Chunks!Delivered(h, b) =
              IF Len(h) + 1 = Chunks!Length(h[1])
                 /\ Chunks!Valid(Chunks!Length(h[1]), Chunks!Value(Append(h, b)))
              THEN <<Chunks!Value(Append(h, b))>> ELSE <<>>
BY DEF Chunks!Extended, Chunks!Delivered

LEMMA ExtendedOne ==
  ASSUME NEW b, Chunks!Continues(b), NEW x \in 192..247
  PROVE  /\ Chunks!Extended(<<x>>, b) = IF x < 224 THEN <<>> ELSE <<x, b>>
         /\ Chunks!Delivered(<<x>>, b) =
              IF x < 224 THEN Chunks!ResumedValue(Chunks!Length(x), (Chunks!Value(<<x>>) * 64) + (b % 64))
              ELSE <<>>
<1>1. b \in 128..191
  BY DEF Chunks!Continues
<1>2. PICK h : h = <<x>>
  OBVIOUS
<1>3. h # <<>> /\ Len(h) = 1 /\ h[1] = x
  BY <1>2
<1>4. Append(h, b) = <<x, b>>
  <2>1. x \in Nat /\ b \in Nat
    BY <1>1
  <2> QED
    BY <2>1, <1>2, LongerOne
<1>5. PICK L : L = Chunks!Length(x)
  OBVIOUS
<1>6. PICK c : c = Chunks!Value(<<x, b>>)
  OBVIOUS
<1>7. c = (Chunks!Value(<<x>>) * 64) + (b % 64)
  BY <1>6, ValueOf
<1>8. h # <<>>
  BY <1>3
<1>9. /\ Chunks!Extended(h, b) = IF Len(h) + 1 = Chunks!Length(h[1]) THEN <<>> ELSE Append(h, b)
      /\ Chunks!Delivered(h, b) =
           IF Len(h) + 1 = Chunks!Length(h[1])
              /\ Chunks!Valid(Chunks!Length(h[1]), Chunks!Value(Append(h, b)))
           THEN <<Chunks!Value(Append(h, b))>> ELSE <<>>
  BY <1>8, ExtendedBy
<1>10. Chunks!Extended(h, b) = IF 2 = L THEN <<>> ELSE <<x, b>>
  BY <1>3, <1>4, <1>5, <1>9
<1>11. Chunks!Delivered(h, b) = IF 2 = L /\ Chunks!Valid(L, c) THEN <<c>> ELSE <<>>
  BY <1>3, <1>4, <1>5, <1>6, <1>9
<1>12. L = 2 <=> x < 224
  BY <1>5, LeadsOf
<1>13. L = 2 => Chunks!ResumedValue(L, c) = IF Chunks!Valid(L, c) THEN <<c>> ELSE <<>>
  BY DEF Chunks!ResumedValue
<1> QED
  BY <1>2, <1>5, <1>7, <1>10, <1>11, <1>12, <1>13

LEMMA ExtendedTwo ==
  ASSUME NEW b, Chunks!Continues(b), NEW x \in 224..247, NEW y \in 128..191
  PROVE  /\ Chunks!Extended(<<x, y>>, b) = IF x < 240 THEN <<>> ELSE <<x, y, b>>
         /\ Chunks!Delivered(<<x, y>>, b) =
              IF x < 240 THEN Chunks!ResumedValue(Chunks!Length(x), (Chunks!Value(<<x, y>>) * 64) + (b % 64))
              ELSE <<>>
<1>1. b \in 128..191 /\ x \in 192..247
  BY DEF Chunks!Continues
<1>2. PICK h : h = <<x, y>>
  OBVIOUS
<1>3. Len(h) = 2 /\ h[1] = x
  BY <1>2
<1>4. Append(h, b) = <<x, y, b>>
  <2>1. x \in Nat /\ y \in Nat /\ b \in Nat
    BY <1>1
  <2> QED
    BY <2>1, <1>2, LongerTwo
<1>5. PICK L : L = Chunks!Length(x)
  OBVIOUS
<1>6. PICK c : c = Chunks!Value(<<x, y, b>>)
  OBVIOUS
<1>7. c = (Chunks!Value(<<x, y>>) * 64) + (b % 64)
  BY <1>6, ValueOfThree
<1>8. h # <<>>
  BY <1>3
<1>9. /\ Chunks!Extended(h, b) = IF Len(h) + 1 = Chunks!Length(h[1]) THEN <<>> ELSE Append(h, b)
      /\ Chunks!Delivered(h, b) =
           IF Len(h) + 1 = Chunks!Length(h[1])
              /\ Chunks!Valid(Chunks!Length(h[1]), Chunks!Value(Append(h, b)))
           THEN <<Chunks!Value(Append(h, b))>> ELSE <<>>
  BY <1>8, ExtendedBy
<1>10. Chunks!Extended(h, b) = IF 3 = L THEN <<>> ELSE <<x, y, b>>
  BY <1>3, <1>4, <1>5, <1>9
<1>11. Chunks!Delivered(h, b) = IF 3 = L /\ Chunks!Valid(L, c) THEN <<c>> ELSE <<>>
  BY <1>3, <1>4, <1>5, <1>6, <1>9
<1>12. L = 3 <=> x < 240
  BY <1>1, <1>5, LeadsOf
<1>13. L = 3 => Chunks!ResumedValue(L, c) = IF Chunks!Valid(L, c) THEN <<c>> ELSE <<>>
  BY DEF Chunks!ResumedValue
<1> QED
  BY <1>2, <1>5, <1>7, <1>10, <1>11, <1>12, <1>13

LEMMA ExtendedThree ==
  ASSUME NEW b, Chunks!Continues(b), NEW x \in 240..247, NEW y, NEW z
  PROVE  Chunks!Extended(<<x, y, z>>, b) = <<>>
<1>1. PICK h : h = <<x, y, z>>
  OBVIOUS
<1>2. Len(h) = 3 /\ h[1] = x
  BY <1>1
<1>3. h # <<>>
  BY <1>2
<1>4. Chunks!Length(x) = 4
  <2>1. x \in 192..247 /\ ~(x < 224) /\ ~(x < 240)
    OBVIOUS
  <2> QED
    BY <2>1, LeadsOf
<1>5. Chunks!Extended(h, b) = IF Len(h) + 1 = Chunks!Length(h[1]) THEN <<>> ELSE Append(h, b)
  BY <1>3, ExtendedBy
<1> QED
  BY <1>1, <1>2, <1>4, <1>5

(* A byte that continues nothing is read as at the beginning.              *)
LEMMA OpenedOf ==
  ASSUME NEW b, ~Chunks!Continues(b), NEW h
  PROVE  /\ Chunks!Extended(h, b) = Chunks!Opened(b)
         /\ Chunks!Delivered(h, b) = Chunks!Delivered(<<>>, b)
         /\ Chunks!Opened(b) = <<>> \/ (b \in 192..247 /\ Chunks!Opened(b) = <<b>>)
BY DEF Chunks!Extended, Chunks!Delivered, Chunks!Opened, Chunks!Leads

LEMMA StrayOf ==
  ASSUME NEW b, Chunks!Continues(b)
  PROVE  b \in 128..191 /\ Chunks!Extended(<<>>, b) = <<>>
BY DEF Chunks!Extended, Chunks!Opened, Chunks!Leads, Chunks!Continues

(* The head of the uncut text, byte by byte.                               *)
LEMMA UncutByte ==
  ASSUME WholeTypes, kind = "utf8", NEW b, NEW h, h = Chunks!Extended(whole, b)
  PROVE  CharacterHead(h)
<1>1. CharacterHead(whole)
  BY DEF WholeTypes
<1> USE DEF CharacterHead
<1>2. CASE ~Chunks!Continues(b)
  BY <1>2, OpenedOf
<1>3. CASE Chunks!Continues(b)
  <2>1. b \in 128..191
    BY <1>3, StrayOf
  <2>2. CASE whole = <<>>
    BY <2>2, <1>3, StrayOf
  <2>3. CASE \E x \in 192..247 : whole = <<x>>
    <3>1. PICK x \in 192..247 : whole = <<x>>
      BY <2>3
    <3>2. h = IF x < 224 THEN <<>> ELSE <<x, b>>
      BY <3>1, <1>3, ExtendedOne
    <3>3. x < 224 \/ x \in 224..247
      OBVIOUS
    <3> QED
      BY <3>2, <3>3, <2>1
  <2>4. CASE \E x \in 224..247, y \in 128..191 : whole = <<x, y>>
    <3>1. PICK x \in 224..247, y \in 128..191 : whole = <<x, y>>
      BY <2>4
    <3>2. h = IF x < 240 THEN <<>> ELSE <<x, y, b>>
      BY <3>1, <1>3, ExtendedTwo
    <3>3. x < 240 \/ x \in 240..247
      OBVIOUS
    <3> QED
      BY <3>2, <3>3, <2>1
  <2>5. CASE \E x \in 240..247, y \in 128..191, z \in 128..191 : whole = <<x, y, z>>
    <3>1. PICK x \in 240..247, y \in 128..191, z \in 128..191 : whole = <<x, y, z>>
      BY <2>5
    <3> QED
      BY <3>1, <1>3, ExtendedThree
  <2> QED
    BY <2>2, <2>3, <2>4, <2>5, <1>1
<1> QED
  BY <1>2, <1>3

(* What CutsChangeNothing says of one step.                                *)
CutsStep ==
    /\ hurt \/ out' = wholeOut'
    /\ phase' = "main" => head' = whole'
    /\ phase' # "main" /\ ~hurt' => interim' = Chunks!Kept(whole')

LEMMA InitDecoder == Chunks!Init => DecoderInv
<1>1. Chunks!Kept(<<>>) = <<0, 0, 0>>
  BY KeptOf
<1>2. <<0, 0, 0>>[1] = 0 /\ <<0, 0, 0>>[2] = 0 /\ <<0, 0, 0>>[3] = 0
  OBVIOUS
<1> SUFFICES ASSUME Chunks!Init PROVE DecoderInv
  OBVIOUS
<1> USE DEF Chunks!Init
<1>3. WholeTypes
  <2>1. CharacterHead(<<>>)
    BY DEF CharacterHead
  <2>2. hurt \in BOOLEAN /\ kind \in {"utf8", "string"} /\ phase \in {"idle", "resume", "main"}
    OBVIOUS
  <2>3. CharacterHead(whole) /\ whole = <<>>
    BY <2>1
  <2> HIDE DEF Chunks!Init
  <2> QED
    BY <2>2, <2>3 DEF WholeTypes
<1>4. interim = <<0, 0, 0>> /\ phase = "idle" /\ ~hurt /\ whole = <<>>
  BY DEF Chunks!Nothing
<1>5. InterimTypes /\ AsKept /\ NoLater
  BY <1>1, <1>2, <1>4 DEF InterimTypes, AsKept, NoLater
<1> QED
  BY <1>3, <1>5 DEF DecoderInv

(* What is kept of a character that is not over.                           *)
LEMMA KeptHead ==
  ASSUME NEW h, CharacterHead(h), NEW k, k = Chunks!Kept(h)
  PROVE  /\ k = <<k[1], k[2], k[3]>> /\ k[1] \in {0} \cup 192..247
         /\ h = <<>> <=> k[1] = 0
         /\ k[1] < 224 => k[2] = 0
         /\ k[1] < 240 => k[3] = 0
         /\ h # <<>> => h[1] = k[1] /\ Len(h) \in 1..3 /\ (\A i \in (Len(h) + 1)..3 : k[i] = 0)
<1>1. CASE h = <<>>
  <2>1. k = <<0, 0, 0>>
    BY <1>1, KeptOf
  <2> QED
    BY <1>1, <2>1
<1>2. CASE \E x \in 192..247 : h = <<x>>
  <2>1. PICK x \in 192..247 : h = <<x>>
    BY <1>2
  <2>2. k = <<x, 0, 0>>
    BY <2>1, KeptOf
  <2>3. k[1] = x /\ k[2] = 0 /\ k[3] = 0
    BY <2>2
  <2>4. Len(h) = 1 /\ h[1] = x /\ h # <<>>
    BY <2>1
  <2>5. \A i \in 2..3 : i = 2 \/ i = 3
    OBVIOUS
  <2> QED
    BY <2>2, <2>3, <2>4, <2>5
<1>3. CASE \E x \in 224..247, y \in 128..191 : h = <<x, y>>
  <2>1. PICK x \in 224..247, y \in 128..191 : h = <<x, y>>
    BY <1>3
  <2>2. k = <<x, y, 0>>
    BY <2>1, KeptOf
  <2>3. k[1] = x /\ k[2] = y /\ k[3] = 0
    BY <2>2
  <2>4. Len(h) = 2 /\ h[1] = x
    BY <2>1
  <2>5. h # <<>>
    BY <2>4
  <2>6. \A i \in 3..3 : i = 3
    OBVIOUS
  <2> QED
    BY <2>2, <2>3, <2>4, <2>5, <2>6
<1>4. CASE \E x \in 240..247, y \in 128..191, z \in 128..191 : h = <<x, y, z>>
  <2>1. PICK x \in 240..247, y \in 128..191, z \in 128..191 : h = <<x, y, z>>
    BY <1>4
  <2>2. k = <<x, y, z>>
    BY <2>1, KeptOf
  <2>3. k[1] = x /\ k[2] = y /\ k[3] = z
    BY <2>2
  <2>4. Len(h) = 3 /\ h[1] = x
    BY <2>1
  <2>5. h # <<>>
    BY <2>4
  <2> QED
    BY <2>2, <2>3, <2>4, <2>5
<1> QED
  BY <1>1, <1>2, <1>3, <1>4 DEF CharacterHead

(* A second half of zero bits is not counted; nothing else is missed.      *)
LEMMA SlotsOf ==
  ASSUME NEW k
  PROVE  /\ Chunks!SlotsSeen(k) \in 1..3
         /\ k[2] = 0 => Chunks!SlotsSeen(k) = 1
         /\ k[3] = 0 => Chunks!SlotsSeen(k) \in 1..2
         /\ k[2] \in 129..191 /\ k[3] = 0 => Chunks!SlotsSeen(k) = 2
<1>1. 0 % 64 = 0
  OBVIOUS
<1>2. ASSUME NEW y \in 129..191 PROVE y % 64 # 0
  OBVIOUS
<1> QED
  BY <1>1, <1>2 DEF Chunks!SlotsSeen

(* Between two chunks interim tells how far the uncut character is, even   *)
(* when it was cut harmfully.                                              *)
LEMMA IdleKeeps ==
  ASSUME DecoderInv, phase = "idle", kind = "utf8"
  PROVE  /\ interim[1] \in {0} \cup 192..247
         /\ interim[1] < 224 => interim[2] = 0
         /\ interim[1] < 240 => interim[3] = 0
         /\ hurt => interim[1] # 0
         /\ interim[1] = 0 => whole = <<>>
         /\ whole # <<>> => /\ whole[1] = interim[1] /\ Len(whole) \in 1..3
                            /\ \A i \in (Len(whole) + 1)..3 : interim[i] = 0
<1>1. CharacterHead(whole) /\ hurt \in BOOLEAN
  BY DEF DecoderInv, WholeTypes
<1>2. PICK k : k = Chunks!Kept(whole)
  OBVIOUS
<1>3. /\ k = <<k[1], k[2], k[3]>> /\ k[1] \in {0} \cup 192..247
      /\ whole = <<>> <=> k[1] = 0
      /\ k[1] < 224 => k[2] = 0
      /\ k[1] < 240 => k[3] = 0
      /\ whole # <<>> =>
           whole[1] = k[1] /\ Len(whole) \in 1..3 /\ (\A i \in (Len(whole) + 1)..3 : k[i] = 0)
  BY <1>1, <1>2, KeptHead
<1>4. CASE hurt
  <2>1. /\ interim[1] \in 192..247
        /\ interim[1] < 224 => interim[2] = 0
        /\ interim[1] < 240 => interim[3] = 0
    BY <1>4 DEF DecoderInv, InterimTypes
  <2>2. whole # <<>> => whole[1] = interim[1] /\ (\A i \in (Len(whole) + 1)..3 : interim[i] = 0)
    BY <1>4 DEF DecoderInv, NoLater
  <2>3. interim[1] # 0
    BY <2>1
  <2>4. whole # <<>> => Len(whole) \in 1..3
    BY <1>3
  <2> QED
    BY <2>1, <2>2, <2>3, <2>4
<1>5. CASE ~hurt
  <2>1. interim = k
    BY <1>5, <1>2 DEF DecoderInv, AsKept
  <2> QED
    BY <2>1, <1>3, <1>5
<1> QED
  BY <1>1, <1>4, <1>5

(* A chunk begins where nothing is kept.                                   *)
LEMMA StartsAfresh ==
  ASSUME DecoderInv, Chunks!StartChunk, interim[1] = 0
  PROVE  DecoderInv' /\ CutsStep
<1>1. /\ phase = "idle" /\ phase' = "main" /\ head' = <<>> /\ UNCHANGED <<kind, whole>>
      /\ interim' = (IF kind = "string" THEN <<0, 0, 0>> ELSE interim)
      /\ hurt' = (hurt \/ (kind = "utf8" /\ Chunks!Harmful(interim)))
      /\ out' = <<>> /\ wholeOut' = <<>>
  BY DEF Chunks!StartChunk, Chunks!Nothing
<1>2. ~Chunks!Harmful(interim)
  BY DEF Chunks!Harmful
<1>3. kind \in {"utf8", "string"} /\ hurt \in BOOLEAN
  BY DEF DecoderInv, WholeTypes
<1>4. whole = <<>> /\ ~hurt
  <2>1. CASE kind = "utf8"
    BY <2>1, <1>1, <1>3, IdleKeeps
  <2>2. CASE kind = "string"
    <3>1. ~hurt
      BY <2>2, <1>1, <1>3 DEF DecoderInv, InterimTypes
    <3>2. ASSUME NEW u \in 55296..56319, whole = <<u>> PROVE FALSE
      <4>1. interim = <<u, 0, 0>>
        BY <3>1, <3>2, <1>1, KeptOf DEF DecoderInv, AsKept
      <4>2. <<u, 0, 0>>[1] = u /\ u # 0
        OBVIOUS
      <4> QED
        BY <4>1, <4>2
    <3> QED
      BY <3>1, <3>2, <2>2 DEF DecoderInv, WholeTypes
  <2> QED
    BY <2>1, <2>2, <1>3
<1>5. hurt' = FALSE
  BY <1>1, <1>2, <1>4
<1>6. WholeTypes'
  <2>1. CharacterHead(<<>>)
    BY DEF CharacterHead
  <2>2. phase' = "main" /\ kind' = kind /\ whole' = <<>> /\ hurt' = FALSE
    BY <1>1, <1>4, <1>5
  <2>3. CharacterHead(whole')
    BY <2>1, <2>2
  <2>4. hurt' \in BOOLEAN /\ kind' \in {"utf8", "string"} /\ phase' \in {"idle", "resume", "main"}
    BY <2>2, <1>3
  <2>5. whole' = <<>>
    BY <2>2
  <2> QED
    BY <2>3, <2>4, <2>5 DEF WholeTypes
<1>7. interim' = <<interim'[1], interim'[2], interim'[3]>>
  <2>1. interim = <<interim[1], interim[2], interim[3]>>
    BY DEF DecoderInv, InterimTypes
  <2>2. <<0, 0, 0>>[1] = 0 /\ <<0, 0, 0>>[2] = 0 /\ <<0, 0, 0>>[3] = 0
    OBVIOUS
  <2>3. interim' = interim \/ interim' = <<0, 0, 0>>
    BY <1>1
  <2> QED
    BY <2>1, <2>2, <2>3
<1>8. InterimTypes'
  BY <1>1, <1>7 DEF InterimTypes
<1>9. AsKept' /\ NoLater'
  BY <1>1, <1>4, <1>5 DEF AsKept, NoLater
<1> QED
  BY <1>1, <1>4, <1>6, <1>8, <1>9 DEF DecoderInv, CutsStep

(* The string decoder takes up the first half it kept.                     *)
LEMMA StartsWithHalf ==
  ASSUME DecoderInv, Chunks!StartChunk, interim[1] # 0, kind = "string"
  PROVE  DecoderInv' /\ CutsStep
<1>1. /\ phase = "idle" /\ phase' = "main" /\ head' = <<interim[1]>> /\ UNCHANGED <<kind, whole>>
      /\ interim' = <<0, 0, 0>> /\ hurt' = hurt
      /\ out' = <<>> /\ wholeOut' = <<>>
  BY DEF Chunks!StartChunk, Chunks!Nothing, DecoderInv, WholeTypes
<1>2. ~hurt
  BY <1>1 DEF DecoderInv, InterimTypes, WholeTypes
<1>3. interim = Chunks!Kept(whole)
  BY <1>1, <1>2 DEF DecoderInv, AsKept
<1>4. whole = <<interim[1]>>
  <2>1. CASE whole = <<>>
    <3>1. interim = <<0, 0, 0>> /\ <<0, 0, 0>>[1] = 0
      BY <2>1, <1>3, KeptOf
    <3> QED
      BY <3>1
  <2>2. CASE \E u \in 55296..56319 : whole = <<u>>
    <3>1. PICK u \in 55296..56319 : whole = <<u>>
      BY <2>2
    <3>2. interim = <<u, 0, 0>> /\ <<u, 0, 0>>[1] = u
      BY <3>1, <1>3, KeptOf
    <3> QED
      BY <3>1, <3>2
  <2> QED
    BY <2>1, <2>2 DEF DecoderInv, WholeTypes
<1>5. WholeTypes'
  <2>1. phase' = "main" /\ kind' = kind /\ whole' = whole /\ hurt' = hurt
    BY <1>1
  <2> QED
    BY <2>1 DEF DecoderInv, WholeTypes
<1>6. <<0, 0, 0>>[1] = 0 /\ <<0, 0, 0>>[2] = 0 /\ <<0, 0, 0>>[3] = 0
  OBVIOUS
<1>7. InterimTypes'
  BY <1>1, <1>6 DEF InterimTypes
<1>8. AsKept' /\ NoLater'
  BY <1>1, <1>2, <1>4 DEF AsKept, NoLater
<1> QED
  BY <1>1, <1>4, <1>5, <1>7, <1>8 DEF DecoderInv, CutsStep

LEMMA Begins ==
  ASSUME NEW s, NEW t \in Seq(Nat), \A i \in 1..Len(t) : s[i] = t[i]
  PROVE  SubSeq(s, 1, Len(t)) = t
<1>1. PICK n \in Nat : n = Len(t)
  OBVIOUS
<1>2. \A i \in 1..n : t[i] \in Nat
  BY <1>1
<1>3. \A i \in 1..n : s[i] = t[i]
  BY <1>1
<1>4. \A i \in 1..n : s[i] \in Nat
  BY <1>2, <1>3
<1>5. PICK u : u = SubSeq(s, 1, n)
  OBVIOUS
<1>6. /\ u \in Seq(Nat)
      /\ Len(u) = IF 1 <= n THEN n - 1 + 1 ELSE 0
      /\ \A i \in 1..(n - 1 + 1) : u[i] = s[1 + i - 1]
  BY <1>4, <1>5, SubSeqProperties
<1>7. Len(u) = n /\ \A i \in 1..n : u[i] = s[i]
  BY <1>6
<1>8. Len(u) = Len(t) /\ \A i \in 1..Len(u) : u[i] = t[i]
  BY <1>1, <1>3, <1>7
<1>9. u = t
  BY <1>6, <1>8, SeqEqual
<1> QED
  BY <1>1, <1>5, <1>9

(* The bytes kept are taken up again: as many slots are counted as were    *)
(* filled, unless the cut was harmful, and then no more than that.         *)
LEMMA StartsResuming ==
  ASSUME DecoderInv, Chunks!StartChunk, interim[1] # 0, kind = "utf8"
  PROVE  DecoderInv' /\ CutsStep
<1>1. /\ phase = "idle" /\ phase' = "resume" /\ UNCHANGED <<kind, whole, interim>>
      /\ pos' = Chunks!SlotsSeen(interim)
      /\ cp' = Chunks!Value(SubSeq(interim, 1, pos'))
      /\ left' = Chunks!Length(interim[1]) - pos'
      /\ hurt' = (hurt \/ Chunks!Harmful(interim))
      /\ out' = <<>> /\ wholeOut' = <<>>
  BY DEF Chunks!StartChunk
<1>2. /\ interim[1] \in 192..247
      /\ interim[1] < 224 => interim[2] = 0
      /\ interim[1] < 240 => interim[3] = 0
  BY <1>1, IdleKeeps
<1>3. whole # <<>> => /\ whole[1] = interim[1] /\ Len(whole) \in 1..3
                      /\ \A i \in (Len(whole) + 1)..3 : interim[i] = 0
  BY <1>1, IdleKeeps
<1>4. PICK L : L = Chunks!Length(interim[1])
  OBVIOUS
<1>5. L = IF interim[1] < 224 THEN 2 ELSE IF interim[1] < 240 THEN 3 ELSE 4
  BY <1>2, <1>4, LeadsOf
<1>6. PICK n : n = Chunks!SlotsSeen(interim)
  OBVIOUS
<1>7. n \in 1..3 /\ (interim[2] = 0 => n = 1) /\ (interim[3] = 0 => n \in 1..2)
      /\ (interim[2] \in 129..191 /\ interim[3] = 0 => n = 2)
  BY <1>6, SlotsOf
<1>8. pos' = n /\ left' = L - n
  BY <1>1, <1>4, <1>6
<1>9. n < L
  BY <1>2, <1>5, <1>7
<1>10. pos' \in 1..3 /\ left' \in 1..3 /\ pos' + left' = L
  BY <1>5, <1>7, <1>8, <1>9
<1>11. hurt \in BOOLEAN /\ hurt' \in BOOLEAN
  BY <1>1 DEF DecoderInv, WholeTypes, Chunks!Harmful
<1>12. WholeTypes'
  <2>1. phase' = "resume" /\ kind' = kind /\ whole' = whole
    BY <1>1
  <2> QED
    BY <2>1, <1>11 DEF DecoderInv, WholeTypes
<1>13. InterimTypes'
  <2>1. interim' = interim /\ interim = <<interim[1], interim[2], interim[3]>> /\ kind' = "utf8"
    BY <1>1 DEF DecoderInv, InterimTypes
  <2> QED
    BY <2>1, <1>2 DEF InterimTypes
<1>14. whole # <<>> => pos' <= Len(whole)
  <2>1. ASSUME Len(whole) = 1, whole # <<>> PROVE n = 1
    <3>1. 2 \in (Len(whole) + 1)..3
      BY <2>1
    <3> QED
      BY <3>1, <2>1, <1>3, <1>7
  <2>2. ASSUME Len(whole) = 2, whole # <<>> PROVE n \in 1..2
    <3>1. 3 \in (Len(whole) + 1)..3
      BY <2>2
    <3> QED
      BY <3>1, <2>2, <1>3, <1>7
  <2>3. ASSUME whole # <<>> PROVE n <= Len(whole)
    <3>1. CASE Len(whole) = 1
      BY <3>1, <2>1, <2>3
    <3>2. CASE Len(whole) = 2
      BY <3>2, <2>2, <2>3
    <3>3. CASE Len(whole) = 3
      BY <3>3, <1>7
    <3> QED
      BY <2>3, <3>1, <3>2, <3>3, <1>3
  <2> QED
    BY <2>3, <1>8
<1>15. NoLater'
  <2>1. interim' = interim /\ whole' = whole /\ phase' = "resume"
    BY <1>1
  <2> QED
    BY <2>1, <1>3, <1>4, <1>10, <1>14 DEF NoLater
<1>16. ASSUME ~hurt'
       PROVE  /\ interim = Chunks!Kept(whole) /\ whole # <<>> /\ whole[1] < 240
              /\ pos' = Len(whole) /\ cp' = Chunks!Value(whole)
  <2>1. ~hurt /\ ~Chunks!Harmful(interim)
    BY <1>1, <1>16
  <2>2. interim = Chunks!Kept(whole)
    BY <1>1, <2>1 DEF DecoderInv, AsKept
  <2>3. CharacterHead(whole)
    BY DEF DecoderInv, WholeTypes
  <2>4. whole # <<>>
    <3>1. ASSUME whole = <<>> PROVE interim[1] = 0
      <4>1. interim = <<0, 0, 0>> /\ <<0, 0, 0>>[1] = 0
        BY <2>2, <3>1, KeptOf
      <4> QED
        BY <4>1
    <3> QED
      BY <3>1
  <2>5. interim[1] < 240 /\ interim[2] # 128
    <3>1. L # 4 /\ interim[2] # 128
      BY <2>1, <1>4 DEF Chunks!Harmful
    <3> QED
      BY <3>1, <1>2, <1>5
  <2>6. whole[1] = interim[1]
    BY <2>4, <1>3
  <2>7. CASE \E x \in 192..247 : whole = <<x>>
    <3>1. PICK x \in 192..247 : whole = <<x>>
      BY <2>7
    <3>2. interim = <<x, 0, 0>>
      BY <3>1, <2>2, KeptOf
    <3>3. interim[2] = 0 /\ Len(whole) = 1
      BY <3>1, <3>2
    <3>4. pos' = 1
      BY <3>3, <1>7, <1>8
    <3>5. SubSeq(<<x, 0, 0>>, 1, 1) = <<x>>
      <4>1. <<x>> \in Seq(Nat) /\ Len(<<x>>) = 1 /\ \A i \in 1..1 : <<x, 0, 0>>[i] = <<x>>[i]
        OBVIOUS
      <4>2. PICK t : t = <<x>>
        OBVIOUS
      <4> QED
        BY <4>1, <4>2, Begins
    <3>6. cp' = Chunks!Value(<<x>>)
      BY <3>2, <3>4, <3>5, <1>1
    <3> QED
      BY <3>1, <3>3, <3>4, <3>6, <2>2, <2>4, <2>5, <2>6
  <2>8. CASE \E x \in 224..247, y \in 128..191 : whole = <<x, y>>
    <3>1. PICK x \in 224..247, y \in 128..191 : whole = <<x, y>>
      BY <2>8
    <3>2. interim = <<x, y, 0>>
      BY <3>1, <2>2, KeptOf
    <3>3. interim[2] = y /\ interim[3] = 0 /\ Len(whole) = 2
      BY <3>1, <3>2
    <3>4. y # 128
      BY <3>3, <2>5
    <3>5. interim[2] \in 129..191
      BY <3>3, <3>4
    <3>6. pos' = 2
      BY <3>3, <3>5, <1>7, <1>8
    <3>7. SubSeq(<<x, y, 0>>, 1, 2) = <<x, y>>
      <4>1. <<x, y>> \in Seq(Nat) /\ Len(<<x, y>>) = 2
        OBVIOUS
      <4>2. <<x, y, 0>>[1] = <<x, y>>[1] /\ <<x, y, 0>>[2] = <<x, y>>[2] /\ \A i \in 1..2 : i = 1 \/ i = 2
        OBVIOUS
      <4>3. PICK t : t = <<x, y>>
        OBVIOUS
      <4> QED
        BY <4>1, <4>2, <4>3, Begins
    <3>8. cp' = Chunks!Value(<<x, y>>)
      BY <3>2, <3>6, <3>7, <1>1
    <3> QED
      BY <3>1, <3>3, <3>6, <3>8, <2>2, <2>4, <2>5, <2>6
  <2>9. CASE \E x \in 240..247, y \in 128..191, z \in 128..191 : whole = <<x, y, z>>
    <3>1. PICK x \in 240..247, y \in 128..191, z \in 128..191 : whole = <<x, y, z>>
      BY <2>9
    <3>2. whole[1] = x
      BY <3>1
    <3> QED
      BY <3>2, <2>5, <2>6
  <2> QED
    BY <2>3, <2>4, <2>7, <2>8, <2>9 DEF CharacterHead
<1>17. AsKept'
  BY <1>1, <1>16 DEF AsKept
<1> QED
  BY <1>1, <1>12, <1>13, <1>15, <1>16, <1>17 DEF DecoderInv, CutsStep

LEMMA StartHolds == ASSUME DecoderInv, Chunks!StartChunk PROVE DecoderInv' /\ CutsStep
<1>1. kind \in {"utf8", "string"}
  BY DEF DecoderInv, WholeTypes
<1> QED
  BY <1>1, StartsAfresh, StartsWithHalf, StartsResuming

(* The chunk ends in the main loop: the head is kept.                      *)
LEMMA EndHolds == ASSUME DecoderInv, Chunks!EndChunk PROVE DecoderInv' /\ CutsStep
<1>1. /\ phase # "idle" /\ phase' = "idle" /\ UNCHANGED <<kind, whole, hurt>>
      /\ interim' = IF phase = "main" THEN Chunks!Kept(head) ELSE interim
      /\ out' = <<>> /\ wholeOut' = <<>>
  BY DEF Chunks!EndChunk
<1>2. WholeTypes'
  <2>1. phase' = "idle" /\ kind' = kind /\ whole' = whole /\ hurt' = hurt
    BY <1>1
  <2> QED
    BY <2>1 DEF DecoderInv, WholeTypes
<1>3. CASE phase = "main"
  <2>1. head = whole /\ ~hurt
    BY <1>3 DEF DecoderInv, AsKept
  <2>2. PICK k : k = Chunks!Kept(whole)
    OBVIOUS
  <2>3. interim' = k /\ k = <<k[1], k[2], k[3]>>
    <3>1. \A h : Chunks!Kept(h) = <<Chunks!Kept(h)[1], Chunks!Kept(h)[2], Chunks!Kept(h)[3]>>
      BY DEF Chunks!Kept
    <3> QED
      BY <1>1, <1>3, <2>1, <2>2, <3>1
  <2>4. kind = "utf8" => k[1] \in {0} \cup 192..247
    <3>1. kind = "utf8" => CharacterHead(whole)
      BY DEF DecoderInv, WholeTypes
    <3> QED
      BY <3>1, <2>2, KeptHead
  <2>5. InterimTypes'
    BY <1>1, <2>1, <2>3, <2>4 DEF InterimTypes
  <2>6. AsKept' /\ NoLater'
    BY <1>1, <2>1, <2>2, <2>3 DEF AsKept, NoLater
  <2> QED
    BY <1>1, <1>2, <2>1, <2>2, <2>3, <2>5, <2>6 DEF DecoderInv, CutsStep
<1>4. CASE phase = "resume"
  <2>1. interim' = interim
    BY <1>1, <1>4
  <2>2. InterimTypes'
    BY <1>1, <1>4, <2>1 DEF DecoderInv, InterimTypes
  <2>3. AsKept' /\ NoLater'
    BY <1>1, <1>4, <2>1 DEF DecoderInv, AsKept, NoLater
  <2>4. ~hurt => interim = Chunks!Kept(whole)
    BY <1>4 DEF DecoderInv, AsKept
  <2> QED
    BY <1>1, <1>2, <2>1, <2>2, <2>3, <2>4 DEF DecoderInv, CutsStep
<1> QED
  BY <1>1, <1>3, <1>4 DEF DecoderInv, WholeTypes

(* A code unit of the string decoder.                                      *)
LEMMA UnitHolds == ASSUME DecoderInv, NEW u, Chunks!ReadUnit(u) PROVE DecoderInv' /\ CutsStep
<1>1. /\ kind = "string" /\ phase = "main" /\ phase' = "main"
      /\ UNCHANGED <<kind, interim, pos, cp, left, hurt>>
      /\ head' = Chunks!Paired(head, u) /\ whole' = Chunks!Paired(whole, u)
      /\ out' = Chunks!Combined(head, u) /\ wholeOut' = Chunks!Combined(whole, u)
  BY DEF Chunks!ReadUnit, Chunks!local
<1>2. head = whole /\ ~hurt
  BY <1>1 DEF DecoderInv, AsKept
<1>3. whole' = <<>> \/ \E w \in 55296..56319 : whole' = <<w>>
  <2>1. \A h : Chunks!Paired(h, u) = <<>> \/ (u \in 55296..56319 /\ Chunks!Paired(h, u) = <<u>>)
    BY DEF Chunks!Paired, Chunks!High
  <2>2. PICK p : p = Chunks!Paired(whole, u)
    OBVIOUS
  <2>3. p = <<>> \/ (u \in 55296..56319 /\ p = <<u>>)
    BY <2>1, <2>2
  <2>4. whole' = p
    BY <1>1, <2>2
  <2> QED
    BY <2>3, <2>4
<1>4. WholeTypes'
  <2>1. phase' = "main" /\ kind' = "string" /\ hurt' = hurt
    BY <1>1
  <2> QED
    BY <2>1, <1>3 DEF DecoderInv, WholeTypes
<1>5. InterimTypes'
  BY <1>1 DEF DecoderInv, InterimTypes
<1>6. AsKept' /\ NoLater'
  BY <1>1, <1>2 DEF AsKept, NoLater
<1> QED
  BY <1>1, <1>2, <1>4, <1>5, <1>6 DEF DecoderInv, CutsStep

(* A character that is continued grows by one byte or is over.             *)
LEMMA Continued ==
  ASSUME NEW h, CharacterHead(h), h # <<>>, NEW b, Chunks!Continues(b), NEW w, w = Chunks!Extended(h, b)
  PROVE  /\ w # <<>> => w[1] = h[1] /\ Len(w) = Len(h) + 1
         /\ Len(h) + 1 >= Chunks!Length(h[1]) => w = <<>>
         /\ Len(h) \in 1..3 /\ h[1] \in 192..247
<1>1. CASE \E x \in 192..247 : h = <<x>>
  <2>1. PICK x \in 192..247 : h = <<x>>
    BY <1>1
  <2>2. w = IF x < 224 THEN <<>> ELSE <<x, b>>
    BY <2>1, ExtendedOne
  <2>3. Chunks!Length(x) = IF x < 224 THEN 2 ELSE IF x < 240 THEN 3 ELSE 4
    BY LeadsOf
  <2>4. h[1] = x /\ Len(h) = 1 /\ <<x, b>>[1] = x /\ Len(<<x, b>>) = 2
    BY <2>1
  <2>5. CASE x < 224
    BY <2>2, <2>4, <2>5
  <2>6. CASE ~(x < 224)
    <3>1. w = <<x, b>>
      BY <2>2, <2>6
    <3>2. Chunks!Length(x) \in 3..4
      BY <2>3, <2>6
    <3> QED
      BY <3>1, <3>2, <2>4
  <2> QED
    BY <2>5, <2>6
<1>2. CASE \E x \in 224..247, y \in 128..191 : h = <<x, y>>
  <2>1. PICK x \in 224..247, y \in 128..191 : h = <<x, y>>
    BY <1>2
  <2>2. w = IF x < 240 THEN <<>> ELSE <<x, y, b>>
    BY <2>1, ExtendedTwo
  <2>3. x \in 192..247
    OBVIOUS
  <2>4. Chunks!Length(x) = IF x < 224 THEN 2 ELSE IF x < 240 THEN 3 ELSE 4
    BY <2>3, LeadsOf
  <2>5. h[1] = x /\ Len(h) = 2 /\ <<x, y, b>>[1] = x /\ Len(<<x, y, b>>) = 3
    BY <2>1
  <2>6. CASE x < 240
    BY <2>2, <2>3, <2>5, <2>6
  <2>7. CASE ~(x < 240)
    <3>1. w = <<x, y, b>>
      BY <2>2, <2>7
    <3>2. Chunks!Length(x) = 4
      BY <2>4, <2>7
    <3> QED
      BY <3>1, <3>2, <2>3, <2>5
  <2> QED
    BY <2>6, <2>7
<1>3. CASE \E x \in 240..247, y \in 128..191, z \in 128..191 : h = <<x, y, z>>
  <2>1. PICK x \in 240..247, y \in 128..191, z \in 128..191 : h = <<x, y, z>>
    BY <1>3
  <2>2. w = <<>>
    BY <2>1, ExtendedThree
  <2>3. h[1] = x /\ Len(h) = 3 /\ x \in 192..247
    BY <2>1
  <2> QED
    BY <2>2, <2>3
<1> QED
  BY <1>1, <1>2, <1>3 DEF CharacterHead

(* What every byte does: the uncut text goes on, the harm of a cut is over *)
(* when the resumption is.                                                 *)
LEMMA ByteReads ==
  ASSUME DecoderInv, NEW b, Chunks!ReadByte(b), phase' \in {"main", "resume"}
  PROVE  /\ kind = "utf8" /\ kind' = "utf8" /\ CharacterHead(whole)
         /\ whole' = Chunks!Extended(whole, b) /\ wholeOut' = Chunks!Delivered(whole, b)
         /\ hurt' = (hurt /\ phase' = "resume")
         /\ WholeTypes'
<1>1. /\ kind = "utf8" /\ kind' = "utf8"
      /\ whole' = Chunks!Extended(whole, b) /\ wholeOut' = Chunks!Delivered(whole, b)
      /\ hurt' = (hurt /\ phase' = "resume")
  BY DEF Chunks!ReadByte
<1>2. CharacterHead(whole) /\ WholeTypes
  BY <1>1 DEF DecoderInv, WholeTypes
<1>3. CharacterHead(whole')
  BY <1>1, <1>2, UncutByte
<1>4. hurt' \in BOOLEAN
  BY <1>1
<1>5. WholeTypes'
  BY <1>1, <1>3, <1>4 DEF WholeTypes
<1> QED
  BY <1>1, <1>2, <1>5

(* A byte in the main loop.                                                *)
LEMMA ByteHolds == ASSUME DecoderInv, NEW b, Chunks!ReadByte(b), Chunks!Byte(b) PROVE DecoderInv' /\ CutsStep
<1>1. /\ phase = "main" /\ phase' = "main" /\ UNCHANGED interim
      /\ head' = Chunks!Extended(head, b) /\ out' = Chunks!Delivered(head, b)
  BY DEF Chunks!Byte
<1>2. /\ kind = "utf8" /\ kind' = "utf8"
      /\ whole' = Chunks!Extended(whole, b) /\ wholeOut' = Chunks!Delivered(whole, b)
      /\ hurt' = (hurt /\ phase' = "resume")
      /\ WholeTypes'
  BY <1>1, ByteReads
<1>3. head = whole /\ ~hurt'
  BY <1>1, <1>2 DEF DecoderInv, AsKept
<1>4. head' = whole' /\ out' = wholeOut'
  BY <1>1, <1>2, <1>3
<1>5. InterimTypes'
  BY <1>1, <1>2 DEF DecoderInv, InterimTypes
<1>6. AsKept' /\ NoLater'
  BY <1>1, <1>3, <1>4 DEF AsKept, NoLater
<1> QED
  BY <1>1, <1>2, <1>4, <1>5, <1>6 DEF DecoderInv, CutsStep

(* A byte that does not continue the kept character: it is given up.       *)
LEMMA GivesUp ==
  ASSUME DecoderInv, NEW b, Chunks!ReadByte(b), Chunks!Resume(b), ~Chunks!Continues(b)
  PROVE  DecoderInv' /\ CutsStep
<1>1. /\ phase = "resume" /\ phase' = "main" /\ interim' = <<0, 0, 0>>
      /\ head' = Chunks!Opened(b) /\ out' = Chunks!Delivered(<<>>, b)
  BY DEF Chunks!Resume, Chunks!Nothing
<1>2. /\ whole' = Chunks!Extended(whole, b) /\ wholeOut' = Chunks!Delivered(whole, b)
      /\ hurt' = (hurt /\ phase' = "resume")
      /\ WholeTypes'
  BY <1>1, ByteReads
<1>3. head' = whole' /\ out' = wholeOut' /\ ~hurt'
  BY <1>1, <1>2, OpenedOf
<1>4. <<0, 0, 0>>[1] = 0 /\ <<0, 0, 0>>[2] = 0 /\ <<0, 0, 0>>[3] = 0
  OBVIOUS
<1>5. InterimTypes'
  BY <1>1, <1>4 DEF InterimTypes
<1>6. AsKept' /\ NoLater'
  BY <1>1, <1>3 DEF AsKept, NoLater
<1> QED
  BY <1>1, <1>2, <1>3, <1>5, <1>6 DEF DecoderInv, CutsStep

(* The last byte of the kept character.                                    *)
LEMMA Completes ==
  ASSUME DecoderInv, NEW b, Chunks!ReadByte(b), Chunks!Resume(b), Chunks!Continues(b), ~(left > 1)
  PROVE  DecoderInv' /\ CutsStep
<1>1. /\ phase = "resume" /\ phase' = "main" /\ interim' = <<0, 0, 0>> /\ head' = <<>>
      /\ out' = Chunks!ResumedValue(Chunks!Length(interim[1]), (cp * 64) + (b % 64))
  BY DEF Chunks!Resume, Chunks!Nothing
<1>2. /\ whole' = Chunks!Extended(whole, b) /\ wholeOut' = Chunks!Delivered(whole, b)
      /\ hurt' = (hurt /\ phase' = "resume")
      /\ WholeTypes' /\ CharacterHead(whole)
  BY <1>1, ByteReads
<1>3. PICK L : L = Chunks!Length(interim[1])
  OBVIOUS
<1>4. pos \in 1..3 /\ left \in 1..3 /\ pos + left = L
  BY <1>1, <1>3 DEF DecoderInv, NoLater
<1>5. L = pos + 1
  BY <1>4
<1>6. whole' = <<>>
  <2>1. CASE whole = <<>>
    BY <2>1, <1>2, StrayOf
  <2>2. CASE whole # <<>>
    <3>1. whole[1] = interim[1] /\ pos <= Len(whole)
      BY <1>1, <2>2 DEF DecoderInv, NoLater
    <3>2. /\ Len(whole) + 1 >= Chunks!Length(whole[1]) => whole' = <<>>
          /\ Len(whole) \in 1..3
      BY <2>2, <1>2, Continued
    <3>3. Len(whole) + 1 >= L
      BY <3>1, <3>2, <1>4, <1>5
    <3> QED
      BY <3>1, <3>2, <3>3, <1>3
  <2> QED
    BY <2>1, <2>2
<1>7. ~hurt => out' = wholeOut'
  <2> SUFFICES ASSUME ~hurt PROVE out' = wholeOut'
    OBVIOUS
  <2>1. interim = Chunks!Kept(whole) /\ whole # <<>> /\ pos = Len(whole) /\ cp = Chunks!Value(whole)
        /\ whole[1] < 240
    BY <1>1 DEF DecoderInv, AsKept
  <2>2. whole[1] = interim[1]
    BY <1>1, <2>1 DEF DecoderInv, NoLater
  <2>3. CASE \E x \in 192..247 : whole = <<x>>
    <3>1. PICK x \in 192..247 : whole = <<x>>
      BY <2>3
    <3>2. whole[1] = x /\ Len(whole) = 1
      BY <3>1
    <3>3. L = 2 /\ L = Chunks!Length(x)
      BY <3>2, <2>1, <2>2, <1>3, <1>5
    <3>4. Chunks!Length(x) = IF x < 224 THEN 2 ELSE IF x < 240 THEN 3 ELSE 4
      BY LeadsOf
    <3>5. x < 224
      BY <3>3, <3>4
    <3>6. Chunks!Delivered(<<x>>, b) =
            Chunks!ResumedValue(Chunks!Length(x), (Chunks!Value(<<x>>) * 64) + (b % 64))
      BY <3>5, ExtendedOne
    <3> QED
      BY <3>1, <3>2, <3>6, <2>1, <2>2, <1>1, <1>2
  <2>4. CASE \E x \in 224..247, y \in 128..191 : whole = <<x, y>>
    <3>1. PICK x \in 224..247, y \in 128..191 : whole = <<x, y>>
      BY <2>4
    <3>2. whole[1] = x
      BY <3>1
    <3>3. x < 240
      BY <3>2, <2>1
    <3>4. Chunks!Delivered(<<x, y>>, b) =
            Chunks!ResumedValue(Chunks!Length(x), (Chunks!Value(<<x, y>>) * 64) + (b % 64))
      BY <3>3, ExtendedTwo
    <3> QED
      BY <3>1, <3>2, <3>4, <2>1, <2>2, <1>1, <1>2
  <2>5. CASE \E x \in 240..247, y \in 128..191, z \in 128..191 : whole = <<x, y, z>>
    <3>1. PICK x \in 240..247, y \in 128..191, z \in 128..191 : whole = <<x, y, z>>
      BY <2>5
    <3>2. whole[1] = x
      BY <3>1
    <3> QED
      BY <3>2, <2>1
  <2> QED
    BY <2>1, <2>3, <2>4, <2>5, <1>2 DEF CharacterHead
<1>8. <<0, 0, 0>>[1] = 0 /\ <<0, 0, 0>>[2] = 0 /\ <<0, 0, 0>>[3] = 0
  OBVIOUS
<1>9. ~hurt'
  BY <1>1, <1>2
<1>10. InterimTypes'
  BY <1>1, <1>8 DEF InterimTypes
<1>11. AsKept' /\ NoLater'
  BY <1>1, <1>6, <1>9 DEF AsKept, NoLater
<1> QED
  BY <1>1, <1>2, <1>6, <1>7, <1>10, <1>11 DEF DecoderInv, CutsStep

(* A byte of the kept character with more to come.                         *)
LEMMA GoesOn ==
  ASSUME DecoderInv, NEW b, Chunks!ReadByte(b), Chunks!Resume(b), Chunks!Continues(b), left > 1
  PROVE  DecoderInv' /\ CutsStep
<1>1. /\ phase = "resume" /\ phase' = "resume" /\ interim' = [interim EXCEPT ![pos + 1] = b]
      /\ pos' = pos + 1 /\ cp' = (cp * 64) + (b % 64) /\ left' = left - 1 /\ out' = <<>>
  BY DEF Chunks!Resume
<1>2. /\ kind' = "utf8"
      /\ whole' = Chunks!Extended(whole, b) /\ wholeOut' = Chunks!Delivered(whole, b)
      /\ hurt' = (hurt /\ phase' = "resume")
      /\ WholeTypes' /\ CharacterHead(whole)
  BY <1>1, ByteReads
<1>3. PICK L : L = Chunks!Length(interim[1])
  OBVIOUS
<1>4. pos \in 1..3 /\ left \in 1..3 /\ pos + left = L
  BY <1>1, <1>3 DEF DecoderInv, NoLater
<1>5. /\ interim = <<interim[1], interim[2], interim[3]>> /\ interim[1] \in 192..247
      /\ interim[1] < 224 => interim[2] = 0
      /\ interim[1] < 240 => interim[3] = 0
  BY <1>1 DEF DecoderInv, InterimTypes
<1>6. L = IF interim[1] < 224 THEN 2 ELSE IF interim[1] < 240 THEN 3 ELSE 4
  BY <1>3, <1>5, LeadsOf
<1>7. /\ ~(interim[1] < 224) /\ pos + 1 \in 2..3
      /\ interim[1] < 240 => pos = 1 /\ left = 2
  BY <1>4, <1>6
<1>8. PICK k : k = interim'
  OBVIOUS
<1>9. k[1] = interim[1] /\ \A i \in 2..3 : k[i] = IF i = pos + 1 THEN b ELSE interim[i]
  BY <1>1, <1>5, <1>7, <1>8
<1>10. k = <<k[1], k[2], k[3]>>
  <2>1. \A t, i : t = <<t[1], t[2], t[3]>> /\ i \in 2..3 =>
          [t EXCEPT ![i] = b] = <<[t EXCEPT ![i] = b][1], [t EXCEPT ![i] = b][2], [t EXCEPT ![i] = b][3]>>
    OBVIOUS
  <2> QED
    BY <2>1, <1>1, <1>5, <1>7, <1>8
<1>11. InterimTypes'
  <2>1. interim'[1] = interim[1] /\ (interim[1] < 240 => interim'[3] = 0)
    BY <1>5, <1>7, <1>8, <1>9
  <2> QED
    BY <2>1, <1>1, <1>2, <1>5, <1>7, <1>8, <1>10 DEF InterimTypes
<1>12. whole' # <<>> =>
         /\ whole'[1] = interim'[1] /\ pos' <= Len(whole')
         /\ \A i \in (Len(whole') + 1)..3 : interim'[i] = 0
  <2> SUFFICES ASSUME whole' # <<>>
               PROVE  /\ whole'[1] = k[1] /\ pos + 1 <= Len(whole')
                      /\ \A i \in (Len(whole') + 1)..3 : k[i] = 0
    BY <1>1, <1>8
  <2>1. whole # <<>>
    BY <1>2, StrayOf
  <2>2. /\ whole[1] = interim[1] /\ pos <= Len(whole)
        /\ \A i \in (Len(whole) + 1)..3 : interim[i] = 0
    BY <1>1, <2>1 DEF DecoderInv, NoLater
  <2>3. whole'[1] = whole[1] /\ Len(whole') = Len(whole) + 1 /\ Len(whole) \in 1..3
    BY <1>2, <2>1, Continued
  <2>4. ASSUME NEW i \in (Len(whole') + 1)..3 PROVE k[i] = 0
    <3>1. i \in (Len(whole) + 1)..3 /\ i \in 2..3 /\ i # pos + 1
      BY <2>2, <2>3, <1>4
    <3> QED
      BY <3>1, <2>2, <1>9
  <2> QED
    BY <2>2, <2>3, <2>4, <1>4, <1>9
<1>13. NoLater'
  <2>1. pos' \in 1..3 /\ left' \in 1..3 /\ pos' + left' = Chunks!Length(interim'[1])
    BY <1>1, <1>3, <1>4, <1>7, <1>8, <1>9
  <2> QED
    BY <2>1, <1>12 DEF NoLater
<1>14. ASSUME ~hurt
       PROVE  /\ wholeOut' = <<>> /\ interim' = Chunks!Kept(whole')
              /\ whole' # <<>> /\ pos' = Len(whole') /\ cp' = Chunks!Value(whole') /\ whole'[1] < 240
  <2>1. /\ whole # <<>> /\ pos = Len(whole) /\ cp = Chunks!Value(whole) /\ whole[1] < 240
        /\ interim = Chunks!Kept(whole)
    BY <1>1, <1>14 DEF DecoderInv, AsKept
  <2>2. whole[1] = interim[1]
    BY <1>1, <2>1 DEF DecoderInv, NoLater
  <2>3. pos = 1 /\ ~(whole[1] < 224)
    BY <2>1, <2>2, <1>7
  <2>4. PICK x \in 192..247 : whole = <<x>>
    <3>1. ASSUME NEW x, NEW y, whole = <<x, y>> PROVE FALSE
      <4>1. Len(whole) = 2
        BY <3>1
      <4> QED
        BY <4>1, <2>1, <2>3
    <3>2. ASSUME NEW x, NEW y, NEW z, whole = <<x, y, z>> PROVE FALSE
      <4>1. Len(whole) = 3
        BY <3>2
      <4> QED
        BY <4>1, <2>1, <2>3
    <3> QED
      BY <3>1, <3>2, <2>1, <1>2 DEF CharacterHead
  <2>5. whole[1] = x /\ x \in 224..239
    <3>1. whole[1] = x
      BY <2>4
    <3> QED
      BY <3>1, <2>1, <2>3
  <2>6. whole' = <<x, b>>
    <3>1. ~(x < 224)
      BY <2>5
    <3>2. Chunks!Extended(<<x>>, b) = <<x, b>>
      BY <3>1, ExtendedOne
    <3> QED
      BY <3>2, <2>4, <1>2
  <2>7. wholeOut' = <<>>
    <3>1. ~(x < 224)
      BY <2>5
    <3>2. Chunks!Delivered(<<x>>, b) = <<>>
      BY <3>1, ExtendedOne
    <3> QED
      BY <3>2, <2>4, <1>2
  <2>8. interim' = <<x, b, 0>>
    <3>1. k[1] = x /\ k[2] = b /\ k[3] = 0
      BY <2>2, <2>3, <2>5, <1>5, <1>9
    <3> QED
      BY <3>1, <1>8, <1>10
  <2>9. Chunks!Value(<<x, b>>) = (Chunks!Value(<<x>>) * 64) + (b % 64)
    BY ValueOf
  <2>10. cp' = Chunks!Value(<<x, b>>)
    BY <2>1, <2>4, <2>9, <1>1
  <2>11. Len(<<x, b>>) = 2 /\ <<x, b>>[1] = x /\ <<x, b>> # <<>>
    OBVIOUS
  <2>12. pos' = 2
    BY <2>3, <1>1
  <2> QED
    BY <2>5, <2>6, <2>7, <2>8, <2>10, <2>11, <2>12, KeptOf
<1>15. AsKept' /\ CutsStep
  BY <1>1, <1>2, <1>14 DEF AsKept, CutsStep
<1> QED
  BY <1>2, <1>11, <1>13, <1>15 DEF DecoderInv

LEMMA NextDecoder ==
  /\ DecoderInv /\ [Chunks!Next]_Chunks!vars => DecoderInv'
  /\ DecoderInv /\ Chunks!Next => CutsStep
<1>1. ASSUME DecoderInv, Chunks!Next PROVE DecoderInv' /\ CutsStep
  <2>1. CASE \E b \in Bytes : Chunks!ReadByte(b)
    <3>1. PICK b \in Bytes : Chunks!ReadByte(b)
      BY <2>1
    <3>2. Chunks!Resume(b) \/ Chunks!Byte(b)
      BY <3>1 DEF Chunks!ReadByte
    <3> QED
      BY <1>1, <3>1, <3>2, ByteHolds, GivesUp, Completes, GoesOn
  <2> QED
    BY <1>1, <2>1, StartHolds, EndHolds, UnitHolds DEF Chunks!Next
<1>2. ASSUME DecoderInv, UNCHANGED Chunks!vars PROVE DecoderInv'
  <2>1. UNCHANGED <<kind, phase, interim, head, pos, cp, left, whole, hurt>>
    BY <1>2 DEF Chunks!vars
  <2>2. WholeTypes'
    BY <1>2, <2>1 DEF DecoderInv, WholeTypes
  <2>3. InterimTypes'
    BY <1>2, <2>1 DEF DecoderInv, InterimTypes
  <2>4. AsKept' /\ NoLater'
    BY <1>2, <2>1 DEF DecoderInv, AsKept, NoLater
  <2> QED
    BY <2>2, <2>3, <2>4 DEF DecoderInv
<1> QED
  BY <1>1, <1>2

-----------------------------------------------------------------------------
(* The parser.  What is remembered of a run is what was read of it and not *)
(* passed on (RunsKept), and what is kept of a sequence is what the text   *)
(* since it began says (SequenceKept): its collected characters, its       *)
(* numbers, the text of a string.                                          *)
Prefixing == {Escape, EscapeIntermediate, CsiEntry, CsiParam, CsiIntermediate, DcsEntry, DcsParam, DcsIntermediate}
Numbering == Prefixing \ {Escape, EscapeIntermediate}
Running == {Ground, SosPmApc, OscString, DcsPassthrough}

ParserTypes ==
    /\ state \in All /\ text \in Seq(Nat) /\ print \in Seq(Nat) /\ dcs \in Seq(Nat)
RunsKept ==
    /\ toPrint = print
    /\ state # Ground => print = <<>>
    /\ toPut = IF state = DcsPassthrough THEN dcs ELSE <<>>
    /\ state = DcsPassthrough => hooked
    /\ state \notin Running => dcs = <<>>
SequenceKept ==
    /\ state \in Prefixing => collect = Only(text, Collected)
    /\ state \in Numbering => params = Meaning(Only(text, Numbers))
    /\ state = OscString => osc = Only(text, OscText)
ParserInv == ParserTypes /\ RunsKept /\ SequenceKept

(* What an entry of the table for state s and code c may be.               *)
Goes(s, c, a, n) ==
    /\ n \in All \cup {-1}
    /\ a = "error" => n = Ground
    /\ a = "print" => s = Ground /\ n = Ground
    /\ a = "execute" => n = Ground \/ (n = -1 /\ s # DcsPassthrough /\ c < 32)
    /\ a = "ignore" =>
         \/ n \in {Ground, SosPmApc} \/ (n \in {CsiIgnore, DcsIgnore} /\ s \in Prefixing)
         \/ n = -1 /\ s \notin Prefixing /\ (s = OscString => c < 32)
         \/ n = -1 /\ s \in Prefixing /\ (c < 32 \/ c = DEL)
    /\ a = "clear" => n \in {Escape, CsiEntry, DcsEntry}
    /\ a = "oscStart" => n = OscString
    /\ a = "oscPut" => s = OscString /\ n = -1 /\ c >= 32 /\ c \notin 128..159
    /\ a = "oscEnd" => s = OscString
    /\ a = "csi" => s \in Numbering /\ n = Ground
    /\ a = "esc" => s \in Prefixing /\ n = Ground
    /\ a = "hook" => s \in Numbering /\ n = DcsPassthrough
    /\ a = "param" => s \in Numbering /\ n \in Numbering /\ c \in Numbers
    /\ a = "collect" => s \in Prefixing /\ n \in Prefixing /\ (n \in Numbering => s \in Numbering) /\ c \in Collected
    /\ a = "put" => s = DcsPassthrough /\ n = -1
    /\ a = "unhook" => s = DcsPassthrough

LEMMA SmallestIn == ASSUME NEW T \in SUBSET Nat, T # {} PROVE \E x \in T : \A y \in T : x <= y
<1> DEFINE R == OpToRel(<, Nat)
<1>1. IsWellFoundedOn(R, Nat)
  BY NatLessThanWellFounded
<1>2. PICK x \in T : \A y \in T : <<y, x>> \notin R
  <2> HIDE DEF R
  <2> QED
    BY <1>1, WFMin
<1>3. \A y \in T : ~(y < x)
  BY <1>2 DEF OpToRel
<1> QED
  BY <1>3

(* The rules of the table one by one.                                      *)
LEMMA FirstRules ==
  /\ Rules[1] = <<0..Beyond, All, "error", Ground>>
  /\ Rules[2] = <<Printables, {Ground}, "print", Ground>>
  /\ Rules[3] = <<{CAN, SUB} \cup 128..143 \cup 145..151 \cup {144, 153, 154}, All, "execute", Ground>>
  /\ Rules[4] = <<{ST}, All, "ignore", Ground>>
  /\ Rules[5] = <<{ESC}, All, "clear", Escape>>
  /\ Rules[6] = <<{157}, All, "oscStart", OscString>>
  /\ Rules[7] = <<{152, 158, 159}, All, "ignore", SosPmApc>>
  /\ Rules[8] = <<{155}, All, "clear", CsiEntry>>
  /\ Rules[9] = <<{144}, All, "clear", DcsEntry>>
  /\ Rules[10] = <<Executables, {Ground, Escape, CsiEntry, CsiParam, CsiIgnore, CsiIntermediate, EscapeIntermediate}, "execute", -1>>
BY DEF Rules

LEMMA MiddleRules ==
  /\ Rules[11] = <<{DEL}, {Escape, CsiEntry, CsiParam, CsiIntermediate, EscapeIntermediate}, "ignore", -1>>
  /\ Rules[12] = <<Executables, {OscString}, "ignore", -1>>
  /\ Rules[13] = <<{93}, {Escape}, "oscStart", OscString>>
  /\ Rules[14] = <<Printables \cup {DEL}, {OscString}, "oscPut", -1>>
  /\ Rules[15] = <<{ST, ESC, CAN, SUB, BEL}, {OscString}, "oscEnd", Ground>>
  /\ Rules[16] = <<{88, 94, 95}, {Escape}, "ignore", SosPmApc>>
  /\ Rules[17] = <<Printables \cup Executables \cup {DEL}, {SosPmApc}, "ignore", -1>>
  /\ Rules[18] = <<{91}, {Escape}, "clear", CsiEntry>>
  /\ Rules[19] = <<Finals, {CsiEntry, CsiParam, CsiIntermediate}, "csi", Ground>>
  /\ Rules[20] = <<Digits \cup {Semicolon}, {CsiEntry, CsiParam}, "param", CsiParam>>
  /\ Rules[21] = <<60..63, {CsiEntry}, "collect", CsiParam>>
  /\ Rules[22] = <<{58} \cup 60..63, {CsiParam}, "ignore", CsiIgnore>>
  /\ Rules[23] = <<32..63 \cup {DEL}, {CsiIgnore}, "ignore", -1>>
  /\ Rules[24] = <<Finals, {CsiIgnore}, "ignore", Ground>>
  /\ Rules[25] = <<{58}, {CsiEntry}, "ignore", CsiIgnore>>
  /\ Rules[26] = <<48..63, {CsiIntermediate}, "ignore", CsiIgnore>>
  /\ Rules[27] = <<Intermediates, {CsiEntry, CsiIntermediate, CsiParam}, "collect", CsiIntermediate>>
  /\ Rules[28] = <<Intermediates, {Escape, EscapeIntermediate}, "collect", EscapeIntermediate>>
  /\ Rules[29] = <<48..126, {EscapeIntermediate}, "esc", Ground>>
  /\ Rules[30] = <<48..79 \cup 81..87 \cup {89, 90, 92} \cup 96..126, {Escape}, "esc", Ground>>
  /\ Rules[31] = <<{80}, {Escape}, "clear", DcsEntry>>
  /\ Rules[32] = <<Executables \cup {DEL}, {DcsEntry, DcsParam, DcsIntermediate, DcsIgnore}, "ignore", -1>>
  /\ Rules[33] = <<Printables, {DcsIgnore}, "ignore", -1>>
  /\ Rules[34] = <<Intermediates, {DcsEntry, DcsParam, DcsIntermediate}, "collect", DcsIntermediate>>
  /\ Rules[35] = <<{58}, {DcsEntry}, "ignore", DcsIgnore>>
  /\ Rules[36] = <<{58} \cup 60..63, {DcsParam}, "ignore", DcsIgnore>>
  /\ Rules[37] = <<Digits \cup {Semicolon}, {DcsEntry, DcsParam}, "param", DcsParam>>
  /\ Rules[38] = <<60..63, {DcsEntry}, "collect", DcsParam>>
  /\ Rules[39] = <<48..63, {DcsIntermediate}, "ignore", DcsIgnore>>
  /\ Rules[40] = <<Finals, {DcsEntry, DcsParam, DcsIntermediate}, "hook", DcsPassthrough>>
BY DEF Rules

LEMMA LastRules ==
  /\ Rules[41] = <<Executables \cup Printables, {DcsPassthrough}, "put", -1>>
  /\ Rules[42] = <<{DEL}, {DcsPassthrough}, "ignore", -1>>
  /\ Rules[43] = <<{ESC, ST}, {DcsPassthrough}, "unhook", Ground>>
  /\ Rules[44] = <<{Beyond}, {OscString}, "oscPut", -1>>
BY DEF Rules

LEMMA RuleGoes ==
  ASSUME NEW s \in All, NEW c \in Nat, NEW i \in 1..44, Column(c) \in Rules[i][1], s \in Rules[i][2]
  PROVE  Goes(s, c, Rules[i][3], Rules[i][4]) /\ (Rules[i][3] = "error" => i = 1)
<1> USE DEF Goes, Prefixing, Numbering, Column, Beyond, All, Ground, Escape, EscapeIntermediate, CsiEntry, CsiParam,
       CsiIntermediate, CsiIgnore, SosPmApc, OscString, DcsEntry, DcsParam, DcsIgnore, DcsIntermediate, DcsPassthrough,
       Printables, Executables, Digits, Semicolon, Intermediates, Finals, Collected, Numbers, BEL, CAN, SUB, ESC, DEL, ST
<1>1. CASE i \in {1}
  BY <1>1, FirstRules
<1>2. CASE i \in {2}
  BY <1>2, FirstRules
<1>3. CASE i \in {3, 10}
  BY <1>3, FirstRules
<1>4. CASE i \in {4, 7, 11, 12, 16, 17, 22, 23, 24, 25, 26, 32, 33, 35, 36, 39, 42}
  <2>1. CASE i = 4
    BY <2>1, FirstRules
  <2>2. CASE i = 7
    BY <2>2, FirstRules
  <2>3. CASE i = 11
    BY <2>3, MiddleRules
  <2>4. CASE i = 12
    BY <2>4, MiddleRules
  <2>5. CASE i = 16
    BY <2>5, MiddleRules
  <2>6. CASE i = 17
    BY <2>6, MiddleRules
  <2>7. CASE i = 22
    BY <2>7, MiddleRules
  <2>8. CASE i = 23
    BY <2>8, MiddleRules
  <2>9. CASE i = 24
    BY <2>9, MiddleRules
  <2>10. CASE i = 25
    BY <2>10, MiddleRules
  <2>11. CASE i = 26
    BY <2>11, MiddleRules
  <2>12. CASE i = 32
    BY <2>12, MiddleRules
  <2>13. CASE i = 33
    BY <2>13, MiddleRules
  <2>14. CASE i = 35
    BY <2>14, MiddleRules
  <2>15. CASE i = 36
    BY <2>15, MiddleRules
  <2>16. CASE i = 39
    BY <2>16, MiddleRules
  <2>17. CASE i = 42
    BY <2>17, LastRules
  <2> QED
    BY <1>4, <2>1, <2>2, <2>3, <2>4, <2>5, <2>6, <2>7, <2>8, <2>9, <2>10, <2>11, <2>12, <2>13, <2>14, <2>15, <2>16, <2>17
<1>5. CASE i \in {5, 8, 9, 18, 31}
  BY <1>5, FirstRules, MiddleRules
<1>6. CASE i \in {6, 13}
  BY <1>6, FirstRules, MiddleRules
<1>7. CASE i \in {14, 44}
  <2>1. CASE i = 14
    BY <2>1, MiddleRules
  <2>2. CASE i = 44
    BY <2>2, LastRules
  <2> QED
    BY <1>7, <2>1, <2>2
<1>8. CASE i \in {15}
  BY <1>8, MiddleRules
<1>9. CASE i \in {19}
  BY <1>9, MiddleRules
<1>10. CASE i \in {20, 37}
  BY <1>10, MiddleRules
<1>11. CASE i \in {21, 27, 28, 34, 38}
  BY <1>11, MiddleRules
<1>12. CASE i \in {29, 30}
  BY <1>12, MiddleRules
<1>13. CASE i \in {40}
  BY <1>13, MiddleRules
<1>14. CASE i \in {41}
  BY <1>14, LastRules
<1>15. CASE i \in {43}
  BY <1>15, LastRules
<1> QED
  BY <1>1, <1>2, <1>3, <1>4, <1>5, <1>6, <1>7, <1>8, <1>9, <1>10, <1>11, <1>12, <1>13, <1>14, <1>15

FittingRules(s, c) == {i \in 1..44 : Column(c) \in Rules[i][1] /\ s \in Rules[i][2]}
LEMMA EntryIs ==
  ASSUME NEW s \in All, NEW c \in Nat
  PROVE  \E i \in FittingRules(s, c) : Entry(s, c) = Rules[i] /\ \A j \in FittingRules(s, c) : j <= i
<1> DEFINE F == FittingRules(s, c)
           T == {44 - i : i \in F}
<1>1. 1 \in F
  <2>1. Column(c) \in 0..Beyond
    BY DEF Column, Beyond
  <2>2. Rules[1][1] = 0..Beyond /\ Rules[1][2] = All
    BY FirstRules
  <2>3. 1 \in 1..44
    OBVIOUS
  <2> QED
    BY <2>1, <2>2, <2>3 DEF FittingRules
<1>2. \A i \in F : i \in 1..44 /\ 44 - i \in Nat
  BY DEF FittingRules
<1>3. T \in SUBSET Nat /\ T # {}
  BY <1>1, <1>2
<1>4. PICK x \in T : \A y \in T : x <= y
  <2> HIDE DEF T
  <2> QED
    BY <1>3, SmallestIn
<1>5. PICK i \in F : x = 44 - i
  OBVIOUS
<1>6. \A j \in F : j <= i
  <2>1. \A j \in F : 44 - j \in T
    OBVIOUS
  <2>2. \A j \in F : x <= 44 - j
    BY <1>4, <2>1
  <2> HIDE DEF F, T
  <2> QED
    BY <1>2, <1>5, <2>2
<1>7. Len(Rules) = 44
  BY DEF Rules
<1>8. Entry(s, c) = Rules[CHOOSE k \in F : \A j \in F : j <= k]
  BY <1>7 DEF Entry, FittingRules
<1>9. PICK last : last = CHOOSE k \in F : \A j \in F : j <= k
  OBVIOUS
<1>10. last \in F /\ \A j \in F : j <= last
  <2> HIDE DEF F
  <2> QED
    BY <1>6, <1>9
<1> QED
  BY <1>8, <1>9, <1>10

(* Every code below 0xa0 has its own entry in these states.                *)
Reported(s, c) == (s = Ground => c = DEL \/ c >= Beyond) /\ (s = DcsPassthrough => c >= Beyond)
LEMMA EntryGoes ==
  ASSUME NEW s \in All, NEW c \in Nat
  PROVE  Goes(s, c, Entry(s, c)[3], Entry(s, c)[4]) /\ (Entry(s, c)[3] = "error" => Reported(s, c))
<1>1. PICK i \in FittingRules(s, c) : Entry(s, c) = Rules[i] /\ \A j \in FittingRules(s, c) : j <= i
  BY EntryIs
<1>2. i \in 1..44 /\ Goes(s, c, Rules[i][3], Rules[i][4])
  BY RuleGoes DEF FittingRules
<1>3. Rules[i][3] = "error" => i = 1
  BY RuleGoes DEF FittingRules
<1>4. ASSUME Rules[i][3] = "error" PROVE \A k \in 2..44 : Column(c) \in Rules[k][1] => s \notin Rules[k][2]
  BY <1>1, <1>2, <1>3, <1>4 DEF FittingRules
<1>5. ASSUME Rules[i][3] = "error", c < Beyond, s \in {Ground, DcsPassthrough}, s = Ground => c # DEL PROVE FALSE
  <2>1. Column(c) = c
    BY <1>5 DEF Column
  <2>2. \A k \in 2..44 : c \in Rules[k][1] => s \notin Rules[k][2]
    BY <1>4, <1>5, <2>1
  <2>3. /\ \A k \in {3, 4, 5, 6, 7, 8} : Rules[k][2] = All
        /\ Rules[2][2] = {Ground} /\ Ground \in Rules[10][2]
    BY FirstRules
  <2>4. /\ \A k \in {3, 4, 5, 6, 7, 8} : c \notin Rules[k][1]
        /\ s = Ground => c \notin Rules[2][1] /\ c \notin Rules[10][1]
    BY <2>2, <2>3
  <2>5. /\ Rules[3][1] = {CAN, SUB} \cup 128..143 \cup 145..151 \cup {144, 153, 154}
        /\ Rules[4][1] = {ST} /\ Rules[5][1] = {ESC} /\ Rules[6][1] = {157}
        /\ Rules[7][1] = {152, 158, 159} /\ Rules[8][1] = {155}
        /\ Rules[2][1] = Printables /\ Rules[10][1] = Executables
    BY FirstRules
  <2>6. s = DcsPassthrough => c \notin Executables \cup Printables /\ c # DEL /\ c \notin {ESC, ST}
    BY <2>2, LastRules
  <2> QED
    BY <1>5, <2>4, <2>5, <2>6 DEF Printables, Executables, CAN, SUB, ST, ESC, DEL, Beyond
<1>6. Rules[i][3] = "error" => Reported(s, c)
  <2> SUFFICES ASSUME Rules[i][3] = "error" PROVE Reported(s, c)
    OBVIOUS
  <2>1. c < Beyond \/ c >= Beyond
    BY DEF Beyond
  <2> QED
    BY <1>5, <2>1 DEF Reported, Ground, DcsPassthrough
<1> QED
  BY <1>1, <1>2, <1>6

LEMMA TableGoes ==
  ASSUME state \in All, NEW c \in Codes
  PROVE  /\ c \in Nat /\ Goes(state, c, Table[state][c][3], Table[state][c][4])
         /\ Table[state][c][3] = "error" => Reported(state, c)
<1>1. c \in Nat
  BY CodesAssumption
<1>2. Table[state][c] = Entry(state, c)
  BY DEF Table
<1> QED
  BY <1>1, <1>2, EntryGoes

LEMMA StatesApart ==
  /\ Ground \in All /\ Ground \in Running /\ OscString \in Running /\ DcsPassthrough \in Running /\ SosPmApc \in Running
  /\ Escape \in Prefixing /\ CsiEntry \in Numbering /\ DcsEntry \in Numbering
  /\ Prefixing \subseteq All /\ Numbering \subseteq Prefixing /\ Running \subseteq All
  /\ CsiIgnore \in All /\ DcsIgnore \in All /\ {CsiIgnore, DcsIgnore} \cap (Prefixing \cup Running) = {}
  /\ Prefixing \cap Running = {} /\ -1 \notin All /\ Escape \notin Numbering
  /\ Ground # OscString /\ Ground # DcsPassthrough /\ Ground # SosPmApc /\ OscString # SosPmApc
  /\ OscString # DcsPassthrough /\ SosPmApc # DcsPassthrough
BY DEF All, Prefixing, Numbering, Running, Ground, Escape, EscapeIntermediate, CsiEntry, CsiParam, CsiIntermediate, CsiIgnore,
       SosPmApc, OscString, DcsEntry, DcsParam, DcsIgnore, DcsIntermediate, DcsPassthrough

(* What a code that is read does to the state and the text.                *)
LEMMA ReadsGoes ==
  ASSUME ParserTypes, NEW c \in Codes, NEW a, Reads(c, a)
  PROVE  \E n \in All \cup {-1} :
           /\ Goes(state, c, a, n) /\ (a = "error" => Reported(state, c))
           /\ state' = (IF n = -1 THEN state ELSE n) /\ state' \in All
           /\ text' = IF a \in {"clear", "oscStart"} \/ state' \in {Ground, SosPmApc, DcsPassthrough}
                      THEN <<>> ELSE Append(text, c)
           /\ text' \in Seq(Nat)
<1>1. state \in All /\ text \in Seq(Nat)
  BY DEF ParserTypes
<1>2. c \in Nat /\ Goes(state, c, a, Table[state][c][4]) /\ (a = "error" => Reported(state, c))
  BY <1>1, TableGoes DEF Reads
<1>3. Table[state][c][4] \in All \cup {-1}
  BY <1>2 DEF Goes
<1>4. /\ state' = IF Table[state][c][4] = -1 THEN state ELSE Table[state][c][4]
      /\ text' = IF a \in {"clear", "oscStart"} \/ state' \in {Ground, SosPmApc, DcsPassthrough}
                 THEN <<>> ELSE Append(text, c)
  BY DEF Reads
<1>5. <<>> \in Seq(Nat) /\ Append(text, c) \in Seq(Nat)
  BY <1>1, <1>2
<1> QED
  BY <1>1, <1>2, <1>3, <1>4, <1>5

(* The runs.                                                               *)
RunsCalled ==
    \A i \in DOMAIN called' :
        /\ called'[i][1] = "print" => called'[i][2] = toPrint
        /\ called'[i][1] = "put" => called'[i][2] = toPut \/ state # DcsPassthrough
        /\ called'[i][1] = "unhook" => toPut = <<>> \/ called'[1] = <<"put", toPut>>
CalledPlain == \A i \in DOMAIN called' : called'[i][1] \notin {"csi", "hook", "esc", "osc"}
RunsNext == ParserTypes' /\ RunsKept' /\ RunsCalled

LEMMA CalledNone == called' = <<>> => RunsCalled /\ CalledPlain
BY DEF RunsCalled, CalledPlain

LEMMA CalledOne ==
  ASSUME NEW e, called' = <<e>>
  PROVE  /\ e[1] \notin {"print", "put", "unhook"} => RunsCalled
         /\ e = <<"print", toPrint>> => RunsCalled
         /\ e[1] = "put" /\ state # DcsPassthrough => RunsCalled
         /\ e = <<"put", toPut>> => RunsCalled
         /\ e[1] = "unhook" /\ toPut = <<>> => RunsCalled
         /\ e[1] \notin {"csi", "hook", "esc", "osc"} => CalledPlain
<1>1. DOMAIN called' = {1} /\ called'[1] = e
  OBVIOUS
<1>2. RunsCalled <=>
        /\ e[1] = "print" => e[2] = toPrint
        /\ e[1] = "put" => e[2] = toPut \/ state # DcsPassthrough
        /\ e[1] = "unhook" => toPut = <<>> \/ e = <<"put", toPut>>
  BY <1>1 DEF RunsCalled
<1>3. e = <<"print", toPrint>> => e[1] = "print" /\ e[2] = toPrint
  OBVIOUS
<1>4. e = <<"put", toPut>> => e[1] = "put" /\ e[2] = toPut
  OBVIOUS
<1>5. e[1] \notin {"csi", "hook", "esc", "osc"} => CalledPlain
  BY <1>1 DEF CalledPlain
<1> QED
  BY <1>2, <1>3, <1>4, <1>5

LEMMA CalledPrinted ==
  ASSUME RunsKept, called' = Printed
  PROVE  RunsCalled /\ CalledPlain
<1>1. print = toPrint
  BY DEF RunsKept
<1>2. CASE print # <<>>
  BY <1>1, <1>2, CalledOne DEF Printed
<1>3. CASE print = <<>>
  BY <1>3, CalledNone DEF Printed
<1> QED
  BY <1>2, <1>3

(* A run that is read goes on, and none begins.                            *)
LEMMA GrownIs ==
  ASSUME NEW r \in Seq(Nat), NEW c \in Nat
  PROVE  Grown(r, c) \in Seq(Nat) /\ (Grown(r, c) = <<>> <=> r = <<>>) /\ Append(r, c) \in Seq(Nat)
<1>1. Append(r, c) \in Seq(Nat) /\ Len(Append(r, c)) = Len(r) + 1 /\ Len(r) \in Nat
  OBVIOUS
<1>2. Append(r, c) # <<>>
  BY <1>1
<1> QED
  BY <1>1, <1>2 DEF Grown

LEMMA RunsPrint ==
  ASSUME ParserTypes, RunsKept, NEW c \in Codes, PrintRun(c) PROVE RunsNext
<1>1. Reads(c, "print") \/ (state = Ground /\ Reads(c, "error"))
  BY DEF PrintRun
<1>2. state' = Ground /\ state' \in All /\ state = Ground /\ text' \in Seq(Nat)
  <2>1. CASE Reads(c, "print")
    <3>1. PICK n \in All \cup {-1} : Goes(state, c, "print", n) /\ state' = (IF n = -1 THEN state ELSE n)
                                   /\ state' \in All /\ text' \in Seq(Nat)
      BY <2>1, ReadsGoes
    <3> QED
      BY <3>1, StatesApart DEF Goes
  <2>2. CASE state = Ground /\ Reads(c, "error")
    <3>1. PICK n \in All \cup {-1} : Goes(state, c, "error", n) /\ state' = (IF n = -1 THEN state ELSE n)
                                   /\ state' \in All /\ text' \in Seq(Nat)
      BY <2>2, ReadsGoes
    <3> QED
      BY <2>2, <3>1, StatesApart DEF Goes
  <2> QED
    BY <1>1, <2>1, <2>2
<1>3. /\ print' = Append(print, c) /\ toPrint' = Append(toPrint, c) /\ dcs' = Grown(dcs, c)
      /\ called' = <<>> /\ toPut' = toPut
  BY DEF PrintRun
<1>4. c \in Nat /\ print \in Seq(Nat) /\ dcs \in Seq(Nat)
  BY CodesAssumption DEF ParserTypes
<1>5. print' \in Seq(Nat) /\ dcs' \in Seq(Nat)
  BY <1>3, <1>4, GrownIs
<1>6. ParserTypes'
  BY <1>2, <1>5 DEF ParserTypes
<1>7. RunsKept'
  BY <1>2, <1>3, StatesApart DEF RunsKept
<1> QED
  BY <1>3, <1>6, <1>7, CalledNone DEF RunsNext

LEMMA CalledAfter ==
  ASSUME RunsKept, NEW c, called' = Append(Printed, <<"execute", c>>)
  PROVE  RunsCalled /\ CalledPlain
<1>1. PICK e : e = <<"execute", c>>
  OBVIOUS
<1>2. PICK p : p = <<"print", toPrint>>
  OBVIOUS
<1>3. PICK u : u = Printed
  OBVIOUS
<1>4. u = <<>> \/ u = <<p>>
  BY <1>2, <1>3 DEF Printed, RunsKept
<1>5. called' = Append(u, e)
  BY <1>1, <1>3
<1>6. PICK S : S = {p, e}
  OBVIOUS
<1>7. u \in Seq(S) /\ \A i \in 1..Len(u) : u[i] = p
  <2>1. CASE u = <<>>
    BY <2>1
  <2>2. CASE u = <<p>>
    <3>1. p \in S
      BY <1>6
    <3>2. u \in Seq(S) /\ Len(u) = 1 /\ u[1] = p
      BY <2>2, <3>1
    <3> QED
      BY <3>2
  <2> QED
    BY <1>4, <2>1, <2>2
<1>8. /\ called' \in Seq(S) /\ Len(called') = Len(u) + 1 /\ called'[Len(u) + 1] = e
      /\ \A i \in 1..Len(u) : called'[i] = u[i]
  <2>1. e \in S
    BY <1>6
  <2>2. /\ Append(u, e) \in Seq(S) /\ Len(Append(u, e)) = Len(u) + 1 /\ Append(u, e)[Len(u) + 1] = e
        /\ \A i \in 1..Len(u) : Append(u, e)[i] = u[i]
    <3>1. u \in Seq(S)
      BY <1>7
    <3> QED
      BY <2>1, <3>1, AppendProperties
  <2> QED
    BY <1>5, <2>2
<1>9. DOMAIN called' = 1..(Len(u) + 1) /\ Len(u) \in Nat
  BY <1>7, <1>8, LenProperties
<1>10. \A i \in DOMAIN called' : called'[i] = p \/ called'[i] = e
  BY <1>7, <1>8, <1>9
<1>11. p[1] = "print" /\ p[2] = toPrint /\ e[1] = "execute"
  BY <1>1, <1>2
<1> QED
  BY <1>10, <1>11 DEF RunsCalled, CalledPlain

(* Where a code leads that leaves runs to their end.                       *)
LEMMA RunsQuiet ==
  ASSUME ParserTypes, RunsKept, NEW c \in Codes, state' \in All, text' \in Seq(Nat),
         dcs' = Grown(dcs, c), print' = print, toPrint' = toPrint, toPut' = toPut, hooked' = hooked,
         state # Ground, state # DcsPassthrough, state' # DcsPassthrough, state' \in Running \/ state \notin Running
  PROVE  ParserTypes' /\ RunsKept'
<1>1. c \in Nat /\ print \in Seq(Nat) /\ dcs \in Seq(Nat)
  BY CodesAssumption DEF ParserTypes
<1>2. dcs' \in Seq(Nat) /\ (dcs = <<>> => dcs' = <<>>)
  BY <1>1, GrownIs
<1>3. ParserTypes'
  BY <1>1, <1>2 DEF ParserTypes
<1>4. RunsKept'
  BY <1>2 DEF RunsKept
<1> QED
  BY <1>3, <1>4

LEMMA RunsExecute ==
  ASSUME ParserTypes, RunsKept, NEW c \in Codes, Execute(c) PROVE RunsNext
<1>1. PICK n \in All \cup {-1} : Goes(state, c, "execute", n) /\ state' = (IF n = -1 THEN state ELSE n)
                               /\ state' \in All /\ text' \in Seq(Nat)
  BY ReadsGoes DEF Execute
<1>2. state' = Ground \/ (state' = state /\ state # DcsPassthrough)
  BY <1>1, StatesApart DEF Goes
<1>3. /\ called' = Append(Printed, <<"execute", c>>) /\ print' = <<>> /\ toPrint' = <<>>
      /\ dcs' = Grown(dcs, c) /\ toPut' = (IF state = DcsPassthrough THEN <<>> ELSE toPut) /\ hooked' = hooked
  BY DEF Execute, Aborts, Others
<1>4. c \in Nat /\ print \in Seq(Nat) /\ dcs \in Seq(Nat)
  BY CodesAssumption DEF ParserTypes
<1>5. dcs' \in Seq(Nat) /\ (dcs = <<>> => dcs' = <<>>)
  BY <1>3, <1>4, GrownIs
<1>6. ParserTypes'
  BY <1>1, <1>3, <1>5 DEF ParserTypes
<1>7. RunsKept'
  BY <1>2, <1>3, <1>5, StatesApart DEF RunsKept
<1>8. RunsCalled
  BY <1>3, CalledAfter
<1> QED
  BY <1>6, <1>7, <1>8 DEF RunsNext

LEMMA RunsIgnore ==
  ASSUME ParserTypes, RunsKept, NEW c \in Codes, Ignore(c) PROVE RunsNext
<1>1. PICK n \in All \cup {-1} : Goes(state, c, "ignore", n) /\ state' = (IF n = -1 THEN state ELSE n)
                               /\ state' \in All /\ text' \in Seq(Nat)
  BY ReadsGoes DEF Ignore
<1>2. state' \in {Ground, SosPmApc} \/ (state' \in {CsiIgnore, DcsIgnore} /\ state \in Prefixing) \/ state' = state
  BY <1>1 DEF Goes
<1>3. c \in Nat /\ print \in Seq(Nat) /\ dcs \in Seq(Nat) /\ hooked' = hooked
  BY CodesAssumption DEF ParserTypes, Ignore, Others
<1>4. CASE print # <<>> \/ dcs = <<>>
  <2>1. called' = Printed /\ print' = <<>> /\ toPrint' = <<>> /\ dcs' = Grown(dcs, c) /\ toPut' = toPut
    BY <1>4 DEF Ignore, Flush
  <2>2. dcs' \in Seq(Nat) /\ (dcs = <<>> => dcs' = <<>>)
    BY <1>3, <2>1, GrownIs
  <2>3. ParserTypes'
    BY <1>1, <2>1, <2>2 DEF ParserTypes
  <2>4. RunsKept'
    <3>1. toPut' = IF state' = DcsPassthrough THEN dcs' ELSE <<>>
      BY <1>2, <1>4, <2>1, <2>2, StatesApart DEF RunsKept
    <3>2. state' = DcsPassthrough => hooked'
      BY <1>2, <1>3, StatesApart DEF RunsKept
    <3>3. state' \notin Running => dcs' = <<>>
      BY <1>2, <2>2, StatesApart DEF RunsKept
    <3> QED
      BY <2>1, <3>1, <3>2, <3>3 DEF RunsKept
  <2> QED
    BY <2>1, <2>3, <2>4, CalledPrinted DEF RunsNext
<1>5. CASE ~(print # <<>> \/ dcs = <<>>)
  <2>1. called' = <<<<"put", dcs>>>> /\ dcs' = <<>> /\ toPut' = <<>> /\ print' = print /\ toPrint' = toPrint
    BY <1>5 DEF Ignore
  <2>2. dcs' \in Seq(Nat)
    BY <2>1
  <2>3. ParserTypes'
    BY <1>1, <1>3, <2>1, <2>2 DEF ParserTypes
  <2>4. RunsKept'
    <3>1. state' = DcsPassthrough => hooked'
      BY <1>2, <1>3, StatesApart DEF RunsKept
    <3> QED
      BY <1>5, <2>1, <3>1 DEF RunsKept
  <2>5. RunsCalled
    <3>1. state = DcsPassthrough => dcs = toPut
      BY DEF RunsKept
    <3> QED
      BY <2>1, <3>1, CalledOne
  <2> QED
    BY <2>3, <2>4, <2>5 DEF RunsNext
<1> QED
  BY <1>4, <1>5

LEMMA RunsError ==
  ASSUME ParserTypes, RunsKept, NEW c \in Codes, Error(c) PROVE RunsNext
<1>1. Reported(state, c) /\ c \in Nat /\ state \in All /\ print \in Seq(Nat) /\ dcs \in Seq(Nat) /\ text \in Seq(Nat)
  BY TableGoes DEF Error, ParserTypes
<1>2. state = Ground => c >= Beyond
  BY <1>1 DEF Error, Reported
<1>3. state = DcsPassthrough => c >= Beyond
  BY <1>1 DEF Reported
<1>4. /\ state' = IF c >= Beyond /\ state \in {Ground, CsiIgnore, DcsIgnore, DcsPassthrough} THEN state ELSE Ground
      /\ print' = IF c >= Beyond /\ state = Ground THEN Append(print, c) ELSE Grown(print, c)
      /\ dcs' = IF c >= Beyond /\ state = DcsPassthrough THEN Append(dcs, c) ELSE Grown(dcs, c)
      /\ toPrint' = IF c >= Beyond /\ state = Ground THEN Append(toPrint, c) ELSE toPrint
      /\ toPut' = IF c >= Beyond /\ state = DcsPassthrough THEN Append(toPut, c) ELSE toPut
      /\ called' = IF state' # Ground \/ state = Ground THEN <<>> ELSE <<<<"error", c>>>>
      /\ text' = IF state' = Ground THEN <<>> ELSE text
      /\ hooked' = hooked
  BY DEF Error, Others
<1>5. /\ Grown(dcs, c) \in Seq(Nat) /\ Append(dcs, c) \in Seq(Nat) /\ (dcs = <<>> => Grown(dcs, c) = <<>>)
      /\ Grown(print, c) \in Seq(Nat) /\ Append(print, c) \in Seq(Nat) /\ (print = <<>> => Grown(print, c) = <<>>)
  BY <1>1, GrownIs
<1>6. ParserTypes'
  <2>1. state' \in All /\ text' \in Seq(Nat)
    BY <1>1, <1>4, StatesApart
  <2>2. print' \in Seq(Nat) /\ dcs' \in Seq(Nat)
    BY <1>4, <1>5
  <2> QED
    BY <2>1, <2>2 DEF ParserTypes
<1>7. RunsKept'
  <2>1. CASE state = Ground
    BY <1>2, <1>4, <2>1, StatesApart DEF RunsKept
  <2>2. CASE state = DcsPassthrough
    BY <1>3, <1>4, <1>5, <2>2, StatesApart DEF RunsKept
  <2>3. CASE state # Ground /\ state # DcsPassthrough
    <3>1. state' # DcsPassthrough /\ toPut' = <<>> /\ print' = <<>> /\ toPrint' = <<>>
      BY <1>4, <1>5, <2>3, StatesApart DEF RunsKept
    <3>2. state' \notin Running => dcs' = <<>>
      BY <1>4, <1>5, <2>3, StatesApart DEF RunsKept
    <3> QED
      BY <3>1, <3>2 DEF RunsKept
  <2> QED
    BY <2>1, <2>2, <2>3
<1>8. RunsCalled
  <2>1. called' = <<>> \/ called' = <<<<"error", c>>>>
    BY <1>4
  <2> QED
    BY <2>1, CalledNone, CalledOne
<1> QED
  BY <1>6, <1>7, <1>8 DEF RunsNext

LEMMA RunsCsi ==
  ASSUME ParserTypes, RunsKept, NEW c \in Codes, CsiDispatch(c) PROVE RunsNext
<1>1. PICK n \in All \cup {-1} : Goes(state, c, "csi", n) /\ state' = (IF n = -1 THEN state ELSE n)
                               /\ state' \in All /\ text' \in Seq(Nat)
  BY ReadsGoes DEF CsiDispatch
<1>2. state \in Numbering /\ state' = Ground
  BY <1>1, StatesApart DEF Goes
<1>3. state # Ground /\ state # DcsPassthrough /\ state' # DcsPassthrough /\ (state' \in Running \/ state \notin Running)
  BY <1>2, StatesApart
<1>4. /\ dcs' = Grown(dcs, c) /\ print' = print /\ toPrint' = toPrint /\ toPut' = toPut /\ hooked' = hooked
      /\ called' = <<<<"csi", collect, params, c>>>>
  BY DEF CsiDispatch, Others
<1>5. RunsCalled
  BY <1>4, CalledOne
<1> QED
  BY <1>1, <1>3, <1>4, <1>5, RunsQuiet DEF RunsNext

LEMMA RunsParam ==
  ASSUME ParserTypes, RunsKept, NEW c \in Codes, Param(c) PROVE RunsNext
<1>1. PICK n \in All \cup {-1} : Goes(state, c, "param", n) /\ state' = (IF n = -1 THEN state ELSE n)
                               /\ state' \in All /\ text' \in Seq(Nat)
  BY ReadsGoes DEF Param
<1>2. state \in Numbering /\ state' \in Numbering
  BY <1>1, StatesApart DEF Goes
<1>3. state # Ground /\ state # DcsPassthrough /\ state' # DcsPassthrough /\ (state' \in Running \/ state \notin Running)
  BY <1>2, StatesApart
<1>4. /\ dcs' = Grown(dcs, c) /\ print' = print /\ toPrint' = toPrint /\ toPut' = toPut /\ hooked' = hooked
      /\ called' = <<>>
  BY DEF Param, Others
<1>5. RunsCalled
  BY <1>4, CalledNone
<1> QED
  BY <1>1, <1>3, <1>4, <1>5, RunsQuiet DEF RunsNext

LEMMA RunsCollect ==
  ASSUME ParserTypes, RunsKept, NEW c \in Codes, Collect(c) PROVE RunsNext
<1>1. PICK n \in All \cup {-1} : Goes(state, c, "collect", n) /\ state' = (IF n = -1 THEN state ELSE n)
                               /\ state' \in All /\ text' \in Seq(Nat)
  BY ReadsGoes DEF Collect
<1>2. state \in Prefixing /\ state' \in Prefixing
  BY <1>1, StatesApart DEF Goes
<1>3. state # Ground /\ state # DcsPassthrough /\ state' # DcsPassthrough /\ (state' \in Running \/ state \notin Running)
  BY <1>2, StatesApart
<1>4. /\ dcs' = Grown(dcs, c) /\ print' = print /\ toPrint' = toPrint /\ toPut' = toPut /\ hooked' = hooked
      /\ called' = <<>>
  BY DEF Collect, Others
<1>5. RunsCalled
  BY <1>4, CalledNone
<1> QED
  BY <1>1, <1>3, <1>4, <1>5, RunsQuiet DEF RunsNext

LEMMA RunsEsc ==
  ASSUME ParserTypes, RunsKept, NEW c \in Codes, EscDispatch(c) PROVE RunsNext
<1>1. PICK n \in All \cup {-1} : Goes(state, c, "esc", n) /\ state' = (IF n = -1 THEN state ELSE n)
                               /\ state' \in All /\ text' \in Seq(Nat)
  BY ReadsGoes DEF EscDispatch
<1>2. state \in Prefixing /\ state' = Ground
  BY <1>1, StatesApart DEF Goes
<1>3. state # Ground /\ state # DcsPassthrough /\ state' # DcsPassthrough /\ (state' \in Running \/ state \notin Running)
  BY <1>2, StatesApart
<1>4. /\ dcs' = Grown(dcs, c) /\ print' = print /\ toPrint' = toPrint /\ toPut' = toPut /\ hooked' = hooked
      /\ called' = <<<<"esc", collect, c>>>>
  BY DEF EscDispatch, Others
<1>5. RunsCalled
  BY <1>4, CalledOne
<1> QED
  BY <1>1, <1>3, <1>4, <1>5, RunsQuiet DEF RunsNext

LEMMA RunsOscPut ==
  ASSUME ParserTypes, RunsKept, NEW c \in Codes, OscPut(c) PROVE RunsNext
<1>1. PICK n \in All \cup {-1} : Goes(state, c, "oscPut", n) /\ state' = (IF n = -1 THEN state ELSE n)
                               /\ state' \in All /\ text' \in Seq(Nat)
  BY ReadsGoes DEF OscPut
<1>2. state = OscString /\ state' = OscString
  BY <1>1, StatesApart DEF Goes
<1>3. state # Ground /\ state # DcsPassthrough /\ state' # DcsPassthrough /\ (state' \in Running \/ state \notin Running)
  BY <1>2, StatesApart
<1>4. /\ dcs' = Grown(dcs, c) /\ print' = print /\ toPrint' = toPrint /\ toPut' = toPut /\ hooked' = hooked
      /\ called' = <<>>
  BY DEF OscPut, Others
<1>5. RunsCalled
  BY <1>4, CalledNone
<1> QED
  BY <1>1, <1>3, <1>4, <1>5, RunsQuiet DEF RunsNext

LEMMA RunsClear ==
  ASSUME ParserTypes, RunsKept, NEW c \in Codes, Clear(c) PROVE RunsNext
<1>1. PICK n \in All \cup {-1} : Goes(state, c, "clear", n) /\ state' = (IF n = -1 THEN state ELSE n)
                               /\ state' \in All /\ text' \in Seq(Nat)
  BY ReadsGoes DEF Clear
<1>2. state' \in Prefixing
  BY <1>1, StatesApart DEF Goes
<1>3. /\ called' = Printed /\ print' = <<>> /\ toPrint' = <<>> /\ dcs' = <<>> /\ hooked' = hooked
      /\ toPut' = IF state = DcsPassthrough THEN <<>> ELSE toPut
  BY DEF Clear, Flush, Reset, Aborts
<1>4. <<>> \in Seq(Nat)
  OBVIOUS
<1>5. ParserTypes'
  BY <1>1, <1>3, <1>4 DEF ParserTypes
<1>6. RunsKept'
  BY <1>2, <1>3, StatesApart DEF RunsKept
<1> QED
  BY <1>3, <1>5, <1>6, CalledPrinted DEF RunsNext

LEMMA RunsOscStart ==
  ASSUME ParserTypes, RunsKept, NEW c \in Codes, OscStart(c) PROVE RunsNext
<1>1. PICK n \in All \cup {-1} : Goes(state, c, "oscStart", n) /\ state' = (IF n = -1 THEN state ELSE n)
                               /\ state' \in All /\ text' \in Seq(Nat)
  BY ReadsGoes DEF OscStart
<1>2. state' = OscString
  BY <1>1, StatesApart DEF Goes
<1>3. /\ called' = Printed /\ print' = <<>> /\ toPrint' = <<>> /\ dcs' = Grown(dcs, c) /\ hooked' = hooked
      /\ toPut' = IF state = DcsPassthrough THEN <<>> ELSE toPut
  BY DEF OscStart, Flush, Aborts
<1>4. <<>> \in Seq(Nat) /\ c \in Nat /\ dcs \in Seq(Nat)
  BY CodesAssumption DEF ParserTypes
<1>5. dcs' \in Seq(Nat)
  BY <1>3, <1>4, GrownIs
<1>6. ParserTypes'
  BY <1>1, <1>3, <1>4, <1>5 DEF ParserTypes
<1>7. RunsKept'
  BY <1>2, <1>3, StatesApart DEF RunsKept
<1> QED
  BY <1>3, <1>6, <1>7, CalledPrinted DEF RunsNext

LEMMA RunsHook ==
  ASSUME ParserTypes, RunsKept, NEW c \in Codes, Hook(c) PROVE RunsNext
<1>1. PICK n \in All \cup {-1} : Goes(state, c, "hook", n) /\ state' = (IF n = -1 THEN state ELSE n)
                               /\ state' \in All /\ text' \in Seq(Nat)
  BY ReadsGoes DEF Hook
<1>2. state \in Numbering /\ state' = DcsPassthrough
  BY <1>1, StatesApart DEF Goes
<1>3. /\ called' = <<<<"hook", collect, params, c>>>> /\ print' = print /\ toPrint' = toPrint
      /\ dcs' = Grown(dcs, c) /\ hooked' = TRUE /\ toPut' = <<>>
  BY DEF Hook
<1>4. print = <<>> /\ toPrint = <<>> /\ dcs = <<>>
  BY <1>2, StatesApart DEF RunsKept
<1>5. dcs' = <<>> /\ <<>> \in Seq(Nat)
  BY <1>3, <1>4 DEF Grown
<1>6. ParserTypes'
  BY <1>1, <1>3, <1>4, <1>5 DEF ParserTypes
<1>7. RunsKept'
  BY <1>2, <1>3, <1>4, <1>5 DEF RunsKept
<1> QED
  BY <1>3, <1>6, <1>7, CalledOne DEF RunsNext

LEMMA RunsPut ==
  ASSUME ParserTypes, RunsKept, NEW c \in Codes, Put(c) PROVE RunsNext
<1>1. PICK n \in All \cup {-1} : Goes(state, c, "put", n) /\ state' = (IF n = -1 THEN state ELSE n)
                               /\ state' \in All /\ text' \in Seq(Nat)
  BY ReadsGoes DEF Put
<1>2. state = DcsPassthrough /\ state' = DcsPassthrough
  BY <1>1 DEF Goes
<1>3. /\ called' = <<>> /\ print' = print /\ toPrint' = toPrint
      /\ dcs' = Append(dcs, c) /\ hooked' = hooked /\ toPut' = Append(toPut, c)
  BY DEF Put, Others
<1>4. c \in Nat /\ dcs \in Seq(Nat) /\ print \in Seq(Nat)
  BY CodesAssumption DEF ParserTypes
<1>5. Append(dcs, c) \in Seq(Nat)
  BY <1>4
<1>6. ParserTypes'
  BY <1>1, <1>3, <1>4, <1>5 DEF ParserTypes
<1>7. RunsKept'
  BY <1>2, <1>3, StatesApart DEF RunsKept
<1> QED
  BY <1>3, <1>6, <1>7, CalledNone DEF RunsNext

LEMMA EndsWithIs ==
  ASSUME NEW c, EndsWith(c)
  PROVE  state' \in {Ground, Escape} /\ state' \in All /\ state' # DcsPassthrough /\ state' \in Running \cup Prefixing
BY StatesApart DEF EndsWith, All, Escape, DcsPassthrough

LEMMA OneThenOne ==
  ASSUME NEW x, NEW y
  PROVE  DOMAIN (<<x>> \o <<y>>) = {1, 2} /\ (<<x>> \o <<y>>)[1] = x /\ (<<x>> \o <<y>>)[2] = y
<1>1. PICK s : s = <<x>>
  OBVIOUS
<1>2. PICK t : t = <<y>>
  OBVIOUS
<1>3. PICK S : S = {x, y}
  OBVIOUS
<1>4. s \in Seq(S) /\ Len(s) = 1 /\ s[1] = x
  BY <1>1, <1>3
<1>5. t \in Seq(S) /\ Len(t) = 1 /\ t[1] = y
  BY <1>2, <1>3
<1>6. /\ s \o t \in Seq(S) /\ Len(s \o t) = Len(s) + Len(t)
      /\ \A i \in 1..(Len(s) + Len(t)) : (s \o t)[i] = IF i <= Len(s) THEN s[i] ELSE t[i - Len(s)]
  <2>1. s \in Seq(S) /\ t \in Seq(S)
    BY <1>4, <1>5
  <2> QED
    BY <2>1, ConcatProperties
<1>7. DOMAIN (s \o t) = 1..2
  BY <1>4, <1>5, <1>6, LenProperties
<1>8. 1..2 = {1, 2} /\ (s \o t)[1] = s[1] /\ (s \o t)[2] = t[1]
  BY <1>4, <1>5, <1>6
<1> QED
  BY <1>1, <1>2, <1>4, <1>5, <1>7, <1>8

LEMMA RunsUnhook ==
  ASSUME ParserTypes, RunsKept, NEW c \in Codes, Unhook(c) PROVE RunsNext /\ CalledPlain
<1>1. state = DcsPassthrough
  BY TableGoes DEF Unhook, Goes, ParserTypes
<1>2. /\ EndsWith(c) /\ hooked' = FALSE /\ dcs' = <<>> /\ text' = <<>> /\ toPut' = <<>> /\ print' = print /\ toPrint' = toPrint
      /\ called' = (IF hooked /\ dcs # <<>> THEN <<<<"put", dcs>>>> ELSE <<>>)
                    \o (IF hooked THEN <<<<"unhook">>>> ELSE <<>>)
  BY DEF Unhook, Reset
<1>3. print = <<>> /\ toPrint = <<>> /\ toPut = dcs /\ hooked
  BY <1>1, StatesApart DEF RunsKept
<1>4. <<>> \in Seq(Nat)
  OBVIOUS
<1>5. ParserTypes'
  BY <1>2, <1>3, <1>4, EndsWithIs DEF ParserTypes
<1>6. RunsKept'
  BY <1>2, <1>3, EndsWithIs DEF RunsKept
<1>7. RunsCalled /\ CalledPlain
  <2>1. CASE dcs = <<>>
    <3>1. called' = <<<<"unhook">>>>
      BY <1>2, <1>3, <2>1
    <3> QED
      BY <1>3, <2>1, <3>1, CalledOne
  <2>2. CASE dcs # <<>>
    <3>1. PICK p : p = <<"put", toPut>>
      OBVIOUS
    <3>2. PICK e : e = <<"unhook">>
      OBVIOUS
    <3>3. called' = <<p>> \o <<e>>
      BY <1>2, <1>3, <2>2, <3>1, <3>2
    <3>4. DOMAIN called' = {1, 2} /\ called'[1] = p /\ called'[2] = e
      BY <3>3, OneThenOne
    <3>5. p[1] = "put" /\ p[2] = toPut /\ e[1] = "unhook"
      BY <3>1, <3>2
    <3> QED
      BY <3>1, <3>4, <3>5 DEF RunsCalled, CalledPlain
  <2> QED
    BY <2>1, <2>2
<1> QED
  BY <1>5, <1>6, <1>7 DEF RunsNext

LEMMA RunsOscEnd ==
  ASSUME ParserTypes, RunsKept, NEW c \in Codes, OscEnd(c) PROVE RunsNext
<1>1. state = OscString
  BY TableGoes DEF OscEnd, Goes, ParserTypes
<1>2. /\ EndsWith(c) /\ hooked' = hooked /\ dcs' = <<>> /\ text' = <<>> /\ toPut' = toPut /\ print' = print /\ toPrint' = toPrint
      /\ called' = IF osc # <<>> /\ c \notin {CAN, SUB} THEN <<<<"osc", osc>>>> ELSE <<>>
  BY DEF OscEnd, Reset
<1>3. print = <<>> /\ toPrint = <<>> /\ toPut = <<>>
  BY <1>1, StatesApart DEF RunsKept
<1>4. <<>> \in Seq(Nat)
  OBVIOUS
<1>5. ParserTypes'
  BY <1>2, <1>3, <1>4, EndsWithIs DEF ParserTypes
<1>6. RunsKept'
  BY <1>2, <1>3, EndsWithIs DEF RunsKept
<1>7. RunsCalled
  BY <1>2, CalledNone, CalledOne
<1> QED
  BY <1>5, <1>6, <1>7 DEF RunsNext

LEMMA RunsCut ==
  ASSUME ParserTypes, RunsKept, Cut PROVE RunsNext /\ toPrint' = <<>> /\ toPut' = <<>>
<1>1. /\ called' = IF state = Ground THEN Printed ELSE IF Passes THEN <<<<"put", dcs>>>> ELSE <<>>
      /\ toPrint' = IF state = Ground /\ print # <<>> THEN <<>> ELSE toPrint
      /\ toPut' = IF Passes THEN <<>> ELSE toPut
      /\ print' = <<>> /\ dcs' = <<>> /\ state' = state /\ hooked' = hooked /\ text' = text
  BY DEF Cut, kept
<1>2. toPrint' = <<>>
  BY <1>1 DEF RunsKept
<1>3. toPut' = <<>>
  BY <1>1 DEF RunsKept, Passes
<1>4. <<>> \in Seq(Nat)
  OBVIOUS
<1>5. ParserTypes'
  BY <1>1, <1>4 DEF ParserTypes
<1>6. RunsKept'
  BY <1>1, <1>2, <1>3 DEF RunsKept
<1>7. RunsCalled
  <2>1. CASE state = Ground
    BY <1>1, <2>1, CalledPrinted
  <2>2. CASE state # Ground /\ Passes
    <3>1. called' = <<<<"put", toPut>>>>
      BY <1>1, <2>2 DEF Passes, RunsKept
    <3> QED
      BY <3>1, CalledOne
  <2>3. CASE state # Ground /\ ~Passes
    BY <1>1, <2>3, CalledNone
  <2> QED
    BY <2>1, <2>2, <2>3
<1> QED
  BY <1>2, <1>3, <1>5, <1>6, <1>7 DEF RunsNext

LEMMA NextRuns ==
  ASSUME ParserTypes, RunsKept, Next
  PROVE  /\ RunsNext
         /\ Cut \/ state' # Ground => toPrint' = <<>>
         /\ Cut \/ state' # DcsPassthrough => toPut' = <<>>
<1>1. ASSUME NEW c \in Codes, Consume(c) PROVE RunsNext
  BY <1>1, RunsPrint, RunsExecute, RunsIgnore, RunsError, RunsCsi, RunsParam, RunsCollect, RunsEsc, RunsClear,
     RunsHook, RunsPut, RunsUnhook, RunsOscStart, RunsOscPut, RunsOscEnd DEF Consume
<1>2. RunsNext
  BY <1>1, RunsCut DEF Next
<1>3. RunsKept'
  BY <1>2 DEF RunsNext
<1>4. (state' # Ground => toPrint' = <<>>) /\ (state' # DcsPassthrough => toPut' = <<>>)
  BY <1>3 DEF RunsKept
<1> QED
  BY <1>2, <1>4, RunsCut

(* The kth of a set of numbers: one has rank k for each k up to their      *)
(* number, and adding a number above them changes no rank.                 *)
UpTo(S, e) == {f \in S : f <= e}
Ranked(S) == IsFiniteSet(S) /\ \A k \in 1..Cardinality(S) : \E e \in S : Cardinality(UpTo(S, e)) = k

LEMMA NthIs ==
  ASSUME NEW S \in SUBSET Nat, IsFiniteSet(S), NEW e \in S, NEW k, Cardinality(UpTo(S, e)) = k
  PROVE  Nth(S, k) = e
<1>1. ASSUME NEW a \in S, NEW b \in S, a < b PROVE Cardinality(UpTo(S, a)) # Cardinality(UpTo(S, b))
  <2>1. UpTo(S, b) \subseteq S /\ UpTo(S, a) \in SUBSET UpTo(S, b)
    <3>1. \A f \in S : f <= a => f <= b
      BY <1>1
    <3> QED
      BY <3>1 DEF UpTo
  <2>2. IsFiniteSet(UpTo(S, b))
    BY <2>1, FS_Subset
  <2>3. b \in UpTo(S, b) /\ b \notin UpTo(S, a)
    BY <1>1 DEF UpTo
  <2> QED
    BY <2>1, <2>2, <2>3, FS_Subset
<1>2. ASSUME NEW f \in S, Cardinality(UpTo(S, f)) = k PROVE f = e
  <2>1. e \in Nat /\ f \in Nat
    OBVIOUS
  <2>2. ~(e < f) /\ ~(f < e)
    BY <1>1, <1>2
  <2> QED
    BY <2>1, <2>2
<1>3. Nth(S, k) = CHOOSE f \in S : Cardinality(UpTo(S, f)) = k
  BY DEF Nth, UpTo
<1> QED
  BY <1>2, <1>3

LEMMA NthIn ==
  ASSUME NEW S \in SUBSET Nat, Ranked(S), NEW k \in 1..Cardinality(S)
  PROVE  Nth(S, k) \in S /\ Cardinality(UpTo(S, Nth(S, k))) = k
<1>1. PICK e \in S : Cardinality(UpTo(S, e)) = k
  BY DEF Ranked
<1> QED
  BY <1>1, NthIs DEF Ranked

LEMMA NthGrows ==
  ASSUME NEW S \in SUBSET Nat, Ranked(S), NEW m \in Nat, \A f \in S : f < m
  PROVE  /\ Ranked(S \cup {m}) /\ Cardinality(S \cup {m}) = Cardinality(S) + 1 /\ Cardinality(S) \in Nat
         /\ \A k \in 1..Cardinality(S) : Nth(S \cup {m}, k) = Nth(S, k)
         /\ Nth(S \cup {m}, Cardinality(S) + 1) = m
<1> DEFINE T == S \cup {m}
<1>1. IsFiniteSet(S) /\ m \notin S /\ T \in SUBSET Nat
  BY DEF Ranked
<1>2. IsFiniteSet(T) /\ Cardinality(T) = Cardinality(S) + 1 /\ Cardinality(S) \in Nat
  BY <1>1, FS_AddElement, FS_CardinalityType
<1>3. \A e \in S : UpTo(T, e) = UpTo(S, e)
  BY DEF UpTo
<1>4. UpTo(T, m) = T
  <2>1. \A f \in T : f <= m
    OBVIOUS
  <2> QED
    BY <2>1 DEF UpTo
<1>5. \A k \in 1..Cardinality(S) : Nth(S, k) \in T /\ Cardinality(UpTo(T, Nth(S, k))) = k
  BY <1>3, NthIn
<1>6. m \in T /\ Cardinality(UpTo(T, m)) = Cardinality(S) + 1
  BY <1>2, <1>4
<1>7. \A k \in 1..(Cardinality(S) + 1) : k \in 1..Cardinality(S) \/ k = Cardinality(S) + 1
  BY <1>2
<1>8. Ranked(T)
  <2> HIDE DEF T
  <2> QED
    BY <1>2, <1>5, <1>6, <1>7 DEF Ranked
<1>9. \A k \in 1..Cardinality(S) : Nth(T, k) = Nth(S, k)
  <2> HIDE DEF T
  <2> QED
    BY <1>1, <1>2, <1>5, NthIs
<1>10. Nth(T, Cardinality(S) + 1) = m
  <2> HIDE DEF T
  <2> QED
    BY <1>1, <1>2, <1>6, NthIs
<1> QED
  BY <1>2, <1>8, <1>9, <1>10

LEMMA RankedEmpty == Ranked({}) /\ Cardinality({}) = 0
BY FS_EmptySet DEF Ranked

(* Every finite set of numbers is ranked, by the least bound of one that   *)
(* is not.                                                                 *)
LEMMA AllRanked == \A n \in Nat : \A S \in SUBSET (0..n) : Ranked(S)
<1> DEFINE B == {n \in Nat : \E S \in SUBSET (0..n) : ~Ranked(S)}
<1> SUFFICES ASSUME B # {} PROVE FALSE
  OBVIOUS
<1>1. B \in SUBSET Nat
  OBVIOUS
<1>2. PICK n \in B : \A y \in B : n <= y
  <2> HIDE DEF B
  <2> QED
    BY <1>1, SmallestIn
<1>3. PICK S \in SUBSET (0..n) : ~Ranked(S)
  BY <1>2
<1>4. n \in Nat
  BY <1>1, <1>2
<1>5. CASE n = 0
  <2>1. S = {} \/ S = {} \cup {0}
    <3>1. \A i \in 0..n : i = 0
      BY <1>5
    <3>2. \A i \in S : i = 0
      BY <1>3, <3>1
    <3> QED
      BY <3>2
  <2>2. Ranked({} \cup {0})
    <3>1. {} \in SUBSET Nat /\ 0 \in Nat /\ \A f \in {} : f < 0
      OBVIOUS
    <3> QED
      BY <3>1, RankedEmpty, NthGrows
  <2> QED
    BY <1>3, <2>1, <2>2, RankedEmpty
<1>6. CASE n # 0
  <2>1. n - 1 \in Nat /\ ~(n <= n - 1)
    BY <1>4, <1>6
  <2>7. n - 1 \notin B
    <3> HIDE DEF B
    <3> QED
      BY <1>2, <2>1
  <2>2. \A R \in SUBSET (0..(n - 1)) : Ranked(R)
    BY <2>1, <2>7
  <2>3. S \ {n} \in SUBSET (0..(n - 1))
    BY <1>3, <1>4
  <2>4. Ranked(S \ {n}) /\ S \ {n} \in SUBSET Nat /\ \A f \in S \ {n} : f < n
    BY <1>4, <2>2, <2>3
  <2>5. Ranked((S \ {n}) \cup {n})
    BY <1>4, <2>4, NthGrows
  <2>6. S = S \ {n} \/ S = (S \ {n}) \cup {n}
    OBVIOUS
  <2> QED
    BY <1>3, <2>4, <2>5, <2>6
<1> QED
  BY <1>5, <1>6

LEMMA PlacesIn ==
  ASSUME NEW s \in Seq(Nat), NEW A
  PROVE  /\ Places(s, A) \in SUBSET (1..Len(s)) /\ Places(s, A) \in SUBSET Nat /\ Len(s) \in Nat
         /\ Ranked(Places(s, A)) /\ IsFiniteSet(Places(s, A)) /\ Cardinality(Places(s, A)) \in Nat
<1>1. Places(s, A) \in SUBSET (1..Len(s)) /\ Len(s) \in Nat
  BY DEF Places
<1>2. Ranked(Places(s, A))
  <2>1. Places(s, A) \in SUBSET (0..Len(s))
    BY <1>1
  <2> QED
    BY <1>1, <2>1, AllRanked
<1> QED
  BY <1>1, <1>2, FS_CardinalityType DEF Ranked

LEMMA FunctionIsSeq ==
  ASSUME NEW n \in Nat, NEW S, NEW f \in [1..n -> S]
  PROVE  f \in Seq(S) /\ Len(f) = n
<1>1. f \in Seq(S) /\ DOMAIN f = 1..n
  BY SeqDef
<1>2. DOMAIN f = 1..Len(f) /\ Len(f) \in Nat
  BY <1>1, LenProperties
<1> QED
  BY <1>1, <1>2

LEMMA OnlyParts ==
  ASSUME NEW s \in Seq(Nat), NEW A
  PROVE  /\ Only(s, A) \in Seq(Nat) /\ Only(s, A) \in Seq(A)
         /\ Len(Only(s, A)) = Cardinality(Places(s, A))
         /\ \A k \in 1..Cardinality(Places(s, A)) :
              /\ Only(s, A)[k] = s[Nth(Places(s, A), k)]
              /\ Nth(Places(s, A), k) \in 1..Len(s)
<1> DEFINE P == Places(s, A)
           m == Cardinality(P)
<1>1. m \in Nat /\ P \in SUBSET (1..Len(s)) /\ \A k \in 1..m : Nth(P, k) \in P
  BY PlacesIn, NthIn
<1>2. \A k \in 1..m : s[Nth(P, k)] \in Nat /\ s[Nth(P, k)] \in A
  BY <1>1 DEF Places
<1>3. Only(s, A) = [k \in 1..m |-> s[Nth(P, k)]]
  BY DEF Only
<1>4. Only(s, A) \in [1..m -> Nat] /\ Only(s, A) \in [1..m -> A]
  <2> HIDE DEF P, m
  <2> QED
    BY <1>2, <1>3
<1>5. Only(s, A) \in Seq(Nat) /\ Only(s, A) \in Seq(A) /\ Len(Only(s, A)) = m
  <2> HIDE DEF P, m
  <2> QED
    BY <1>1, <1>4, FunctionIsSeq
<1> QED
  BY <1>1, <1>3, <1>5

LEMMA OnlyEmpty == ASSUME NEW A PROVE Only(<<>>, A) = <<>>
<1>1. Places(<<>>, A) = {}
  BY DEF Places
<1>2. <<>> \in Seq(Nat)
  OBVIOUS
<1>3. Only(<<>>, A) \in Seq(Nat) /\ Len(Only(<<>>, A)) = 0
  BY <1>1, <1>2, OnlyParts, RankedEmpty
<1> QED
  BY <1>3, EmptySeq

LEMMA PlacesAppend ==
  ASSUME NEW s \in Seq(Nat), NEW c \in Nat, NEW A
  PROVE  Places(Append(s, c), A) = Places(s, A) \cup (IF c \in A THEN {Len(s) + 1} ELSE {})
<1>1. /\ Len(Append(s, c)) = Len(s) + 1 /\ Len(s) \in Nat /\ Append(s, c)[Len(s) + 1] = c
      /\ \A i \in 1..Len(s) : Append(s, c)[i] = s[i]
  BY AppendProperties
<1>2. 1..(Len(s) + 1) = (1..Len(s)) \cup {Len(s) + 1}
  BY <1>1
<1> QED
  BY <1>1, <1>2 DEF Places

LEMMA OnlyAppend ==
  ASSUME NEW s \in Seq(Nat), NEW c \in Nat, NEW A
  PROVE  Only(Append(s, c), A) = IF c \in A THEN Append(Only(s, A), c) ELSE Only(s, A)
<1>1. PICK t : t = Append(s, c)
  OBVIOUS
<1>2. /\ t \in Seq(Nat) /\ Len(t) = Len(s) + 1 /\ Len(s) \in Nat /\ t[Len(s) + 1] = c
      /\ \A i \in 1..Len(s) : t[i] = s[i]
  BY <1>1, AppendProperties
<1> DEFINE P == Places(s, A)
           Q == Places(t, A)
           m == Cardinality(P)
<1>3. Q = P \cup (IF c \in A THEN {Len(s) + 1} ELSE {})
  BY <1>1, PlacesAppend
<1>4. P \in SUBSET (1..Len(s)) /\ P \in SUBSET Nat /\ Ranked(P) /\ m \in Nat /\ \A k \in 1..m : Nth(P, k) \in 1..Len(s)
  BY PlacesIn, OnlyParts
<1>5. /\ Only(s, A) \in Seq(Nat) /\ Len(Only(s, A)) = m
      /\ \A k \in 1..m : Only(s, A)[k] = s[Nth(P, k)]
  BY OnlyParts
<1>6. /\ Only(t, A) \in Seq(Nat) /\ Len(Only(t, A)) = Cardinality(Q)
      /\ \A k \in 1..Cardinality(Q) : Only(t, A)[k] = t[Nth(Q, k)]
  BY <1>2, OnlyParts
<1> HIDE DEF P, Q
<1>7. CASE c \notin A
  <2>1. Q = P
    BY <1>3, <1>7
  <2>2. Len(Only(t, A)) = Len(Only(s, A)) /\ \A k \in 1..Len(Only(t, A)) : Only(t, A)[k] = Only(s, A)[k]
    BY <1>2, <1>4, <1>5, <1>6, <2>1
  <2>3. Only(t, A) = Only(s, A)
    BY <1>5, <1>6, <2>2, SeqEqual
  <2> QED
    BY <1>1, <1>7, <2>3
<1>8. CASE c \in A
  <2>1. Q = P \cup {Len(s) + 1} /\ Len(s) + 1 \in Nat /\ \A f \in P : f < Len(s) + 1
    BY <1>2, <1>3, <1>4, <1>8
  <2>2. /\ Cardinality(Q) = m + 1 /\ Nth(Q, m + 1) = Len(s) + 1
        /\ \A k \in 1..m : Nth(Q, k) = Nth(P, k)
    BY <1>4, <2>1, NthGrows
  <2>3. /\ Append(Only(s, A), c) \in Seq(Nat) /\ Len(Append(Only(s, A), c)) = m + 1
        /\ Append(Only(s, A), c)[m + 1] = c /\ \A k \in 1..m : Append(Only(s, A), c)[k] = Only(s, A)[k]
    BY <1>5, AppendProperties
  <2>4. ASSUME NEW k \in 1..m PROVE Only(t, A)[k] = Only(s, A)[k]
    <3>1. k \in 1..Cardinality(Q)
      BY <1>4, <2>2
    <3>2. Only(t, A)[k] = t[Nth(P, k)]
      BY <1>6, <2>2, <3>1
    <3>3. t[Nth(P, k)] = s[Nth(P, k)]
      BY <1>2, <1>4
    <3> QED
      BY <1>5, <3>2, <3>3
  <2>5. Only(t, A)[m + 1] = c
    BY <1>2, <1>4, <1>6, <2>2
  <2>6. \A k \in 1..(m + 1) : Only(t, A)[k] = Append(Only(s, A), c)[k]
    BY <1>4, <2>3, <2>4, <2>5
  <2>7. Only(t, A) = Append(Only(s, A), c)
    BY <1>6, <2>2, <2>3, <2>6, SeqEqual
  <2> QED
    BY <1>1, <1>8, <2>7
<1> QED
  BY <1>7, <1>8

(* The decimal numbers of a text: the recursive function of Meaning is     *)
(* there, by the least bound for which it is not, and a text that goes on  *)
(* has the same numbers up to its old end.                                 *)
OneMore(x, s, i) == (x * 10) + s[i] - 48
Counting(f, E, s, k) == f = [i \in 0..k |-> IF i \in E THEN 0 ELSE OneMore(f[i - 1], s, i)]

LEMMA CountingParts ==
  ASSUME NEW f, NEW E, NEW s, NEW k \in Nat, Counting(f, E, s, k)
  PROVE  \A i \in 0..k : f[i] = IF i \in E THEN 0 ELSE OneMore(f[i - 1], s, i)
<1>1. f = [i \in 0..k |-> IF i \in E THEN 0 ELSE OneMore(f[i - 1], s, i)]
  BY DEF Counting
<1> QED
  BY <1>1

LEMMA CountingExists ==
  ASSUME NEW E, 0 \in E, NEW s, NEW k \in Nat
  PROVE  \E f : Counting(f, E, s, k)
<1> DEFINE B == {m \in Nat : ~(\E f : Counting(f, E, s, m))}
<1>1. SUFFICES ASSUME B # {} PROVE FALSE
  OBVIOUS
<1>2. PICK m \in B : \A y \in B : m <= y
  <2>1. B \in SUBSET Nat
    OBVIOUS
  <2> HIDE DEF B
  <2> QED
    BY <1>1, <2>1, SmallestIn
<1>3. m \in Nat /\ ~(\E f : Counting(f, E, s, m))
  OBVIOUS
<1>4. m # 0
  <2> SUFFICES ASSUME m = 0 PROVE FALSE
    OBVIOUS
  <2> DEFINE f == [i \in 0..0 |-> 0]
  <2>1. f = [i \in 0..0 |-> IF i \in E THEN 0 ELSE OneMore(f[i - 1], s, i)]
    <3>1. \A i \in 0..0 : i = 0
      OBVIOUS
    <3>2. \A i \in 0..0 : 0 = IF i \in E THEN 0 ELSE OneMore(f[i - 1], s, i)
      BY <3>1
    <3> QED
      BY <3>2
  <2> HIDE DEF f
  <2>2. Counting(f, E, s, 0)
    BY <2>1 DEF Counting
  <2> QED
    BY <1>3, <2>2
<1>5. m - 1 \in Nat /\ m - 1 < m
  BY <1>3, <1>4
<1>6. m - 1 \notin B
  BY <1>2, <1>3, <1>5
<1>7. PICK f : Counting(f, E, s, m - 1)
  BY <1>5, <1>6
<1>8. \A i \in 0..(m - 1) : f[i] = IF i \in E THEN 0 ELSE OneMore(f[i - 1], s, i)
  BY <1>5, <1>7, CountingParts
<1> DEFINE h == [i \in 0..m |-> IF i = m THEN IF m \in E THEN 0 ELSE OneMore(f[m - 1], s, m) ELSE f[i]]
<1>9. ASSUME NEW i \in 0..m PROVE h[i] = IF i \in E THEN 0 ELSE OneMore(h[i - 1], s, i)
  <2>1. CASE i = 0
    <3>1. i # m /\ i \in 0..(m - 1) /\ i \in E
      BY <1>3, <1>4, <2>1
    <3> QED
      BY <1>8, <3>1
  <2>2. CASE i # 0
    <3>1. i - 1 \in 0..m /\ i - 1 # m
      BY <1>3, <2>2
    <3>2. h[i - 1] = f[i - 1]
      BY <3>1
    <3>3. CASE i = m
      BY <3>2, <3>3
    <3>4. CASE i # m
      <4>1. i \in 0..(m - 1)
        BY <1>3, <3>4
      <4> QED
        BY <1>8, <3>2, <3>4, <4>1
    <3> QED
      BY <3>3, <3>4
  <2> QED
    BY <2>1, <2>2
<1>10. h = [i \in 0..m |-> h[i]]
  OBVIOUS
<1> HIDE DEF h
<1>11. h = [i \in 0..m |-> IF i \in E THEN 0 ELSE OneMore(h[i - 1], s, i)]
  BY <1>9, <1>10
<1>12. Counting(h, E, s, m)
  BY <1>11 DEF Counting
<1> QED
  BY <1>3, <1>12

LEMMA CountingTyped ==
  ASSUME NEW f, NEW E, 0 \in E, NEW s \in Seq(Nat), NEW k \in 0..Len(s), Counting(f, E, s, k)
  PROVE  \A i \in 0..k : f[i] \in Int
<1> DEFINE B == {i \in 0..k : f[i] \notin Int}
<1>1. SUFFICES ASSUME B # {} PROVE FALSE
  OBVIOUS
<1>2. PICK m \in B : \A y \in B : m <= y
  <2>1. B \in SUBSET Nat
    OBVIOUS
  <2> HIDE DEF B
  <2> QED
    BY <1>1, <2>1, SmallestIn
<1>3. m \in 0..k /\ f[m] \notin Int /\ k \in Nat
  OBVIOUS
<1>4. f[m] = IF m \in E THEN 0 ELSE OneMore(f[m - 1], s, m)
  BY <1>3, CountingParts
<1>5. m \notin E /\ m # 0
  BY <1>3, <1>4
<1>6. m - 1 \in 0..k /\ m - 1 \notin B
  <2>1. m - 1 \in 0..k /\ ~(m <= m - 1)
    BY <1>3, <1>5
  <2> HIDE DEF B
  <2> QED
    BY <1>2, <2>1
<1>7. f[m - 1] \in Int
  BY <1>6
<1>8. s[m] \in Nat
  BY <1>3, <1>5
<1>9. OneMore(f[m - 1], s, m) \in Int
  BY <1>7, <1>8 DEF OneMore
<1> QED
  BY <1>3, <1>4, <1>5, <1>9

LEMMA CountingSame ==
  ASSUME NEW f, NEW E, NEW s, NEW k \in Nat, Counting(f, E, s, k),
         NEW g, NEW F, NEW t, NEW n \in Nat, Counting(g, F, t, n), k <= n, 0 \in E,
         \A i \in 0..k : (i \in E <=> i \in F), \A i \in 1..k : s[i] = t[i]
  PROVE  \A i \in 0..k : g[i] = f[i]
<1> DEFINE B == {i \in 0..k : g[i] # f[i]}
<1>1. SUFFICES ASSUME B # {} PROVE FALSE
  OBVIOUS
<1>2. PICK m \in B : \A y \in B : m <= y
  <2>1. B \in SUBSET Nat
    OBVIOUS
  <2> HIDE DEF B
  <2> QED
    BY <1>1, <2>1, SmallestIn
<1>3. m \in 0..k /\ g[m] # f[m] /\ m \in 0..n
  OBVIOUS
<1>4. f[m] = IF m \in E THEN 0 ELSE OneMore(f[m - 1], s, m)
  BY <1>3, CountingParts
<1>5. g[m] = IF m \in F THEN 0 ELSE OneMore(g[m - 1], t, m)
  BY <1>3, CountingParts
<1>6. m \notin E /\ m \notin F /\ m # 0
  BY <1>3, <1>4, <1>5
<1>7. m - 1 \in 0..k /\ m - 1 \notin B
  <2>1. m - 1 \in 0..k /\ ~(m <= m - 1)
    BY <1>3, <1>6
  <2> HIDE DEF B
  <2> QED
    BY <1>2, <2>1
<1>8. g[m - 1] = f[m - 1] /\ s[m] = t[m]
  BY <1>3, <1>6, <1>7
<1> QED
  BY <1>3, <1>4, <1>5, <1>6, <1>8 DEF OneMore

Starts(t) == {0} \cup Places(t, {Semicolon})
LEMMA EndsIn ==
  ASSUME NEW t \in Seq(Nat)
  PROVE  /\ Len(t) \in Nat /\ Starts(t) \in SUBSET (0..Len(t)) /\ Starts(t) \in SUBSET Nat /\ 0 \in Starts(t) /\ 0 \in Ends(t)
         /\ Ranked(Starts(t)) /\ Cardinality(Starts(t)) \in Nat /\ Cardinality(Starts(t)) > 0
         /\ Ends(t) = Starts(t) \cup {Len(t) + 1} /\ Ends(t) \in SUBSET Nat
         /\ Ranked(Ends(t)) /\ Cardinality(Ends(t)) = Cardinality(Starts(t)) + 1
         /\ Nth(Ends(t), Cardinality(Starts(t)) + 1) = Len(t) + 1
         /\ \A k \in 1..Cardinality(Starts(t)) : Nth(Ends(t), k) = Nth(Starts(t), k) /\ Nth(Ends(t), k) \in Starts(t)
<1>1. Len(t) \in Nat /\ Places(t, {Semicolon}) \in SUBSET (1..Len(t))
  BY PlacesIn
<1>2. Starts(t) \in SUBSET (0..Len(t)) /\ 0 \in Starts(t)
  <2>1. 0 \in 0..Len(t) /\ \A i \in 1..Len(t) : i \in 0..Len(t)
    BY <1>1
  <2> QED
    BY <1>1, <2>1 DEF Starts
<1>3. Starts(t) \in SUBSET Nat
  BY <1>2
<1>4. Ranked(Starts(t))
  BY <1>1, <1>2, AllRanked
<1>5. Cardinality(Starts(t)) \in Nat /\ Cardinality(Starts(t)) # 0
  BY <1>2, <1>4, FS_CardinalityType, FS_EmptySet DEF Ranked
<1>6. Ends(t) = Starts(t) \cup {Len(t) + 1} /\ 0 \in Ends(t)
  BY DEF Ends, Starts
<1>7. Len(t) + 1 \in Nat /\ \A f \in Starts(t) : f < Len(t) + 1
  BY <1>1, <1>2
<1>8. PICK S, m, K : S = Starts(t) /\ m = Len(t) + 1 /\ K = Cardinality(S)
  OBVIOUS
<1>9. S \in SUBSET Nat /\ Ranked(S) /\ m \in Nat /\ \A f \in S : f < m
  BY <1>3, <1>4, <1>7, <1>8
<1>10. /\ Ranked(S \cup {m}) /\ Cardinality(S \cup {m}) = K + 1
       /\ \A k \in 1..K : Nth(S \cup {m}, k) = Nth(S, k)
       /\ Nth(S \cup {m}, K + 1) = m
  BY <1>8, <1>9, NthGrows
<1>11. \A k \in 1..K : Nth(S, k) \in S
  BY <1>8, <1>9, NthIn
<1>12. S \cup {m} = Ends(t)
  BY <1>6, <1>8
<1>13. Ends(t) \in SUBSET Nat
  BY <1>9, <1>12
<1>14. /\ Ranked(Ends(t)) /\ Cardinality(Ends(t)) = K + 1
       /\ \A k \in 1..K : Nth(Ends(t), k) = Nth(S, k) /\ Nth(Ends(t), k) \in S
       /\ Nth(Ends(t), K + 1) = m
  BY <1>10, <1>11, <1>12
<1>15. Cardinality(Starts(t)) > 0
  BY <1>5
<1> QED
  BY <1>1, <1>2, <1>3, <1>4, <1>5, <1>6, <1>8, <1>13, <1>14, <1>15

(* The first end is 0, so the others have a place before them.             *)
LEMMA EndsAfter ==
  ASSUME NEW t \in Seq(Nat), NEW k \in 1..Cardinality(Starts(t))
  PROVE  Nth(Ends(t), k + 1) - 1 \in 0..Len(t)
<1>1. Len(t) \in Nat /\ Cardinality(Starts(t)) \in Nat
  BY EndsIn
<1>2. k + 1 \in 1..Cardinality(Ends(t)) /\ k \in Nat \ {0}
  BY <1>1, EndsIn
<1>3. Nth(Ends(t), k + 1) \in Ends(t) /\ Cardinality(UpTo(Ends(t), Nth(Ends(t), k + 1))) = k + 1
  BY <1>2, EndsIn, NthIn
<1>4. Nth(Ends(t), k + 1) # 0
  <2>1. \A f \in Ends(t) : f \in Nat
    BY EndsIn
  <2>2. UpTo(Ends(t), 0) = {0}
    BY <2>1, EndsIn DEF UpTo
  <2>3. Cardinality(UpTo(Ends(t), 0)) = 1
    BY <2>2, FS_Singleton
  <2>4. k + 1 # 1
    BY <1>2
  <2> QED
    BY <1>3, <2>3, <2>4
<1>5. Nth(Ends(t), k + 1) \in 0..(Len(t) + 1)
  BY <1>1, <1>3, EndsIn
<1> QED
  BY <1>1, <1>4, <1>5

LEMMA MeaningIs ==
  ASSUME NEW t \in Seq(Nat)
  PROVE  \E d : /\ Counting(d, Ends(t), t, Len(t)) /\ \A i \in 0..Len(t) : d[i] \in Int
                /\ Meaning(t) \in Seq(Int) /\ Len(Meaning(t)) = Cardinality(Starts(t))
                /\ \A k \in 1..Cardinality(Starts(t)) : Meaning(t)[k] = d[Nth(Ends(t), k + 1) - 1]
<1>1. PICK d : d = CHOOSE decimal : Counting(decimal, Ends(t), t, Len(t))
  OBVIOUS
<1>2. Len(t) \in Nat /\ 0 \in Ends(t) /\ Cardinality(Ends(t)) = Cardinality(Starts(t)) + 1 /\ Cardinality(Starts(t)) \in Nat
  BY EndsIn
<1>3. Counting(d, Ends(t), t, Len(t))
  BY <1>1, <1>2, CountingExists
<1>4. \A i \in 0..Len(t) : d[i] \in Int
  <2>1. Len(t) \in 0..Len(t)
    BY <1>2
  <2> QED
    BY <1>2, <1>3, <2>1, CountingTyped
<1>5. Meaning(t) = [k \in 1..(Cardinality(Ends(t)) - 1) |-> d[Nth(Ends(t), k + 1) - 1]]
  BY <1>1 DEF Meaning, Counting, OneMore
<1>6. PICK m : m = Cardinality(Starts(t))
  OBVIOUS
<1>7. Meaning(t) = [k \in 1..m |-> d[Nth(Ends(t), k + 1) - 1]] /\ m \in Nat
  BY <1>2, <1>5, <1>6
<1>8. \A k \in 1..m : d[Nth(Ends(t), k + 1) - 1] \in Int
  BY <1>4, <1>6, EndsAfter
<1>9. Meaning(t) \in [1..m -> Int]
  BY <1>7, <1>8
<1>10. Meaning(t) \in Seq(Int) /\ Len(Meaning(t)) = m
  BY <1>7, <1>9, FunctionIsSeq
<1> QED
  BY <1>3, <1>4, <1>6, <1>7, <1>10

LEMMA MeaningEmpty == Meaning(<<>>) = Fresh
<1>1. PICK t : t = <<>>
  OBVIOUS
<1>2. t \in Seq(Nat) /\ Len(t) = 0
  BY <1>1
<1>3. PICK d : /\ Counting(d, Ends(t), t, Len(t)) /\ \A i \in 0..Len(t) : d[i] \in Int
               /\ Meaning(t) \in Seq(Int) /\ Len(Meaning(t)) = Cardinality(Starts(t))
               /\ \A k \in 1..Cardinality(Starts(t)) : Meaning(t)[k] = d[Nth(Ends(t), k + 1) - 1]
  BY <1>2, MeaningIs
<1>4. Starts(t) = {0}
  <2>1. Places(t, {Semicolon}) \in SUBSET (1..0)
    BY <1>2, PlacesIn
  <2> QED
    BY <2>1 DEF Starts
<1>5. Cardinality(Starts(t)) = 1
  BY <1>4, FS_Singleton
<1>6. Nth(Ends(t), 2) = 1
  <2>1. Nth(Ends(t), Cardinality(Starts(t)) + 1) = Len(t) + 1
    BY <1>2, EndsIn
  <2>2. Cardinality(Starts(t)) + 1 = 2 /\ Len(t) + 1 = 1
    BY <1>2, <1>5
  <2> QED
    BY <2>1, <2>2
<1>7. d[0] = 0
  <2>1. 0 \in 0..Len(t) /\ Len(t) \in Nat /\ 0 \in Ends(t)
    BY <1>2, EndsIn
  <2>2. \A i \in 0..Len(t) : d[i] = IF i \in Ends(t) THEN 0 ELSE OneMore(d[i - 1], t, i)
    BY <1>3, <2>1, CountingParts
  <2> QED
    BY <2>1, <2>2
<1>8. Meaning(t)[1] = 0
  BY <1>3, <1>5, <1>6, <1>7
<1>9. Fresh \in Seq(Int) /\ Len(Fresh) = 1 /\ Fresh[1] = 0
  BY DEF Fresh
<1>10. \A i \in 1..Len(Meaning(t)) : Meaning(t)[i] = Fresh[i]
  BY <1>3, <1>5, <1>8, <1>9
<1>11. Meaning(t) = Fresh
  BY <1>3, <1>5, <1>9, <1>10, SeqEqual
<1> QED
  BY <1>1, <1>11

(* The ends of a text that has gone on, and its numbers.                   *)
LEMMA EndsAppend ==
  ASSUME NEW s \in Seq(Nat), NEW c \in Nat
  PROVE  \E t : /\ t = Append(s, c)
                /\ t \in Seq(Nat) /\ Len(t) = Len(s) + 1 /\ t[Len(s) + 1] = c /\ \A i \in 1..Len(s) : t[i] = s[i]
                /\ Starts(t) = IF c = Semicolon THEN Ends(s) ELSE Starts(s)
                /\ \A i \in 0..Len(s) : (i \in Ends(s) <=> i \in Ends(t))
                /\ (Len(s) + 1 \in Ends(t) <=> c = Semicolon)
<1> DEFINE t == Append(s, c)
<1>1. /\ t \in Seq(Nat) /\ Len(t) = Len(s) + 1 /\ t[Len(s) + 1] = c /\ Len(s) \in Nat
      /\ \A i \in 1..Len(s) : t[i] = s[i]
  BY AppendProperties
<1>2. Starts(t) = IF c = Semicolon THEN Ends(s) ELSE Starts(s)
  BY PlacesAppend DEF Starts, Ends
<1> HIDE DEF t
<1>3. Ends(s) = Starts(s) \cup {Len(s) + 1} /\ Ends(t) = Starts(t) \cup {Len(s) + 2} /\ Starts(s) \in SUBSET (0..Len(s))
  <2>1. Len(t) + 1 = Len(s) + 2
    BY <1>1
  <2> QED
    BY <1>1, <2>1, EndsIn
<1>4. \A i \in 0..Len(s) : i # Len(s) + 1 /\ i # Len(s) + 2
  BY <1>1
<1>5. \A i \in 0..Len(s) : i \in Ends(s) <=> i \in Ends(t)
  BY <1>2, <1>3, <1>4
<1>6. Len(s) + 1 \notin Starts(s) /\ Len(s) + 1 # Len(s) + 2
  BY <1>1, <1>3
<1>7. Len(s) + 1 \in Ends(t) <=> c = Semicolon
  BY <1>2, <1>3, <1>6
<1> QED
  BY <1>1, <1>2, <1>5, <1>7 DEF t

LEMMA MeaningAppend ==
  ASSUME NEW s \in Seq(Nat), NEW c \in Nat
  PROVE  Meaning(Append(s, c)) =
           IF c = Semicolon THEN Append(Meaning(s), 0)
           ELSE [Meaning(s) EXCEPT ![Len(Meaning(s))] = (@ * 10) + c - 48]
<1>1. PICK t : /\ t = Append(s, c)
               /\ t \in Seq(Nat) /\ Len(t) = Len(s) + 1 /\ t[Len(s) + 1] = c /\ \A i \in 1..Len(s) : t[i] = s[i]
               /\ Starts(t) = IF c = Semicolon THEN Ends(s) ELSE Starts(s)
               /\ \A i \in 0..Len(s) : (i \in Ends(s) <=> i \in Ends(t))
               /\ (Len(s) + 1 \in Ends(t) <=> c = Semicolon)
  BY EndsAppend
<1>3. PICK n, K, p, q, E, F :
        /\ n = Len(s) /\ K = Cardinality(Starts(s)) /\ p = Meaning(s) /\ q = Meaning(t)
        /\ E = Ends(s) /\ F = Ends(t)
  OBVIOUS
<1>2. /\ t \in Seq(Nat) /\ Len(t) = n + 1 /\ t[n + 1] = c /\ \A i \in 1..n : t[i] = s[i]
      /\ Starts(t) = IF c = Semicolon THEN E ELSE Starts(s)
      /\ \A i \in 0..n : (i \in E <=> i \in F)
      /\ (n + 1 \in F <=> c = Semicolon)
  BY <1>1, <1>3
<1>4. n \in Nat /\ K \in Nat /\ K > 0 /\ 0 \in E /\ 0 \in F /\ Cardinality(E) = K + 1
      /\ Nth(E, K + 1) = n + 1
  <2>1. /\ Len(s) \in Nat /\ Cardinality(Starts(s)) \in Nat /\ Cardinality(Starts(s)) > 0 /\ 0 \in Ends(s)
        /\ Cardinality(Ends(s)) = Cardinality(Starts(s)) + 1
        /\ Nth(Ends(s), Cardinality(Starts(s)) + 1) = Len(s) + 1
    BY EndsIn
  <2>2. 0 \in Ends(t)
    BY <1>2, EndsIn
  <2> QED
    BY <1>3, <2>1, <2>2
<1>5. PICK d : /\ Counting(d, E, s, n) /\ \A i \in 0..n : d[i] \in Int
               /\ p \in Seq(Int) /\ Len(p) = K
               /\ \A k \in 1..K : p[k] = d[Nth(E, k + 1) - 1]
  BY <1>3, MeaningIs
<1>6. PICK e : /\ Counting(e, F, t, n + 1) /\ \A i \in 0..(n + 1) : e[i] \in Int
               /\ q \in Seq(Int) /\ Len(q) = Cardinality(Starts(t))
               /\ \A k \in 1..Cardinality(Starts(t)) : q[k] = e[Nth(F, k + 1) - 1]
  BY <1>2, <1>3, MeaningIs
<1>7. \A i \in 0..n : e[i] = d[i]
  <2>1. n + 1 \in Nat /\ n <= n + 1
    BY <1>4
  <2>2. (\A i \in 0..n : (i \in E <=> i \in F)) /\ \A i \in 1..n : s[i] = t[i]
    BY <1>2, <1>3
  <2>3. Counting(d, E, s, n) /\ Counting(e, F, t, n + 1)
    BY <1>5, <1>6
  <2> QED
    BY <1>4, <2>1, <2>2, <2>3, CountingSame
<1>8. e[n + 1] = IF c = Semicolon THEN 0 ELSE (d[n] * 10) + c - 48
  <2>1. n + 1 \in Nat /\ n + 1 \in 0..(n + 1) /\ n \in 0..n /\ (n + 1) - 1 = n
    BY <1>4
  <2>2. \A i \in 0..(n + 1) : e[i] = IF i \in F THEN 0 ELSE OneMore(e[i - 1], t, i)
    BY <1>6, <2>1, CountingParts
  <2>3. e[n + 1] = IF n + 1 \in F THEN 0 ELSE OneMore(e[n], t, n + 1)
    BY <2>1, <2>2
  <2>4. e[n] = d[n] /\ t[n + 1] = c /\ (n + 1 \in F <=> c = Semicolon)
    BY <1>2, <1>3, <1>7, <2>1
  <2> QED
    BY <2>3, <2>4 DEF OneMore
<1>9. CASE c = Semicolon
  <2>1. Starts(t) = E /\ Cardinality(Starts(t)) = K + 1
    BY <1>2, <1>4, <1>9
  <2>2. /\ Nth(F, K + 2) = n + 2
        /\ \A k \in 1..(K + 1) : Nth(F, k) = Nth(E, k)
    <3>1. Nth(F, Cardinality(Starts(t)) + 1) = Len(t) + 1
          /\ \A k \in 1..Cardinality(Starts(t)) : Nth(F, k) = Nth(Starts(t), k)
      BY <1>2, <1>3, EndsIn
    <3>2. Len(t) + 1 = n + 2 /\ (K + 1) + 1 = K + 2
      BY <1>2, <1>3, <1>4
    <3> QED
      BY <2>1, <3>1, <3>2
  <2>3. ASSUME NEW k \in 1..K PROVE q[k] = p[k]
    <3>1. k + 1 \in 1..(K + 1) /\ k \in 1..(K + 1)
      BY <1>4
    <3>2. q[k] = e[Nth(E, k + 1) - 1]
      BY <1>6, <2>1, <2>2, <3>1
    <3>3. Nth(E, k + 1) - 1 \in 0..n
      BY <1>3, EndsAfter
    <3> QED
      BY <1>5, <1>7, <3>2, <3>3
  <2>4. q[K + 1] = 0
    <3>1. K + 1 \in 1..(K + 1) /\ (K + 1) + 1 = K + 2 /\ (n + 2) - 1 = n + 1
      BY <1>4
    <3>2. q[K + 1] = e[Nth(F, K + 2) - 1]
      BY <1>6, <2>1, <3>1
    <3> QED
      BY <1>8, <1>9, <2>2, <3>1, <3>2
  <2>5. /\ Append(p, 0) \in Seq(Int) /\ Len(Append(p, 0)) = K + 1 /\ Append(p, 0)[K + 1] = 0
        /\ \A k \in 1..K : Append(p, 0)[k] = p[k]
    <3>1. p \in Seq(Int) /\ 0 \in Int /\ Len(p) = K
      BY <1>5
    <3> QED
      BY <3>1, AppendProperties
  <2>6. \A k \in 1..(K + 1) : q[k] = Append(p, 0)[k]
    BY <1>4, <2>3, <2>4, <2>5
  <2>7. Len(q) = K + 1 /\ q \in Seq(Int)
    BY <1>6, <2>1
  <2>8. q = Append(p, 0)
    BY <2>5, <2>6, <2>7, SeqEqual
  <2> QED
    BY <1>1, <1>3, <1>9, <2>8
<1>10. CASE c # Semicolon
  <2>1. Starts(t) = Starts(s) /\ Cardinality(Starts(t)) = K
    BY <1>2, <1>3, <1>10
  <2>2. /\ Nth(F, K + 1) = n + 2
        /\ \A k \in 1..K : Nth(F, k) = Nth(E, k)
    <3>1. Nth(F, Cardinality(Starts(t)) + 1) = Len(t) + 1
          /\ \A k \in 1..Cardinality(Starts(t)) : Nth(F, k) = Nth(Starts(t), k)
      BY <1>2, <1>3, EndsIn
    <3>2. Len(t) + 1 = n + 2
      BY <1>2, <1>3, <1>4
    <3>3. \A k \in 1..K : Nth(E, k) = Nth(Starts(s), k)
      BY <1>3, EndsIn
    <3> QED
      BY <2>1, <3>1, <3>2, <3>3
  <2>3. ASSUME NEW k \in 1..K, k # K PROVE q[k] = p[k]
    <3>1. k + 1 \in 1..K
      BY <1>4, <2>3
    <3>2. q[k] = e[Nth(E, k + 1) - 1]
      BY <1>6, <2>1, <2>2, <3>1
    <3>3. Nth(E, k + 1) - 1 \in 0..n
      BY <1>3, EndsAfter
    <3> QED
      BY <1>5, <1>7, <3>2, <3>3
  <2>4. q[K] = (p[K] * 10) + c - 48
    <3>1. K \in 1..K /\ (n + 2) - 1 = n + 1 /\ (n + 1) - 1 = n
      BY <1>4
    <3>2. q[K] = e[Nth(F, K + 1) - 1]
      BY <1>6, <2>1, <3>1
    <3>3. q[K] = e[n + 1]
      BY <2>2, <3>1, <3>2
    <3>4. p[K] = d[n]
      BY <1>4, <1>5, <3>1
    <3> QED
      BY <1>8, <1>10, <3>3, <3>4
  <2>5. PICK r : r = [p EXCEPT ![K] = (@ * 10) + c - 48]
    OBVIOUS
  <2>6. p \in [1..K -> Int] /\ K \in 1..K /\ (p[K] * 10) + c - 48 \in Int
    <3>1. p \in [1..Len(p) -> Int]
      BY <1>5, LenProperties
    <3>2. p \in [1..K -> Int] /\ K \in 1..K
      BY <1>4, <1>5, <3>1
    <3>3. p[K] \in Int
      BY <3>2
    <3> QED
      BY <3>2, <3>3
  <2>7. /\ r \in [1..K -> Int] /\ r[K] = (p[K] * 10) + c - 48
        /\ \A k \in 1..K : k # K => r[k] = p[k]
    BY <2>5, <2>6
  <2>8. r \in Seq(Int) /\ Len(r) = K
    BY <1>4, <2>7, FunctionIsSeq
  <2>9. \A k \in 1..K : q[k] = r[k]
    BY <2>3, <2>4, <2>7
  <2>10. q \in Seq(Int) /\ Len(q) = K
    BY <1>6, <2>1
  <2>11. q = r
    BY <2>8, <2>9, <2>10, SeqEqual
  <2> QED
    BY <1>1, <1>3, <1>5, <1>10, <2>5, <2>11
<1> QED
  BY <1>9, <1>10

(* The sequences.                                                          *)
SequencesCalled ==
    \A i \in DOMAIN called' :
      LET e == called'[i] IN
      /\ e[1] \in {"csi", "hook"} =>
           e[2] = Only(text, Collected) /\ e[3] = Meaning(Only(text, Numbers))
      /\ e[1] = "esc" => e[2] = Only(text, Collected)
      /\ e[1] = "osc" => e[2] = Only(text, OscText)
SequenceNext == SequenceKept' /\ SequencesCalled

LEMMA PlainCalls == CalledPlain => SequencesCalled
BY DEF CalledPlain, SequencesCalled

LEMMA WholeCall ==
  ASSUME NEW e, called' = <<e>>
  PROVE  /\ e[1] \in {"csi", "hook"} /\ e[2] = Only(text, Collected) /\ e[3] = Meaning(Only(text, Numbers)) => SequencesCalled
         /\ e[1] = "esc" /\ e[2] = Only(text, Collected) => SequencesCalled
         /\ e[1] = "osc" /\ e[2] = Only(text, OscText) => SequencesCalled
<1>1. DOMAIN called' = {1} /\ called'[1] = e
  OBVIOUS
<1> QED
  BY <1>1 DEF SequencesCalled

LEMMA SequenceLeft == state' \notin Prefixing \cup {OscString} => SequenceKept'
BY StatesApart DEF SequenceKept

(* A code that is no part of the sequence leaves it as it is.              *)
LEMMA SequenceStays ==
  ASSUME ParserTypes, SequenceKept, NEW c \in Codes, state' = state, text' = Append(text, c),
         state \in Prefixing => c \notin Collected \cup Numbers,
         state = OscString => c \notin OscText,
         UNCHANGED <<osc, collect, params>>
  PROVE  SequenceKept'
<1>1. text \in Seq(Nat) /\ c \in Nat
  BY CodesAssumption DEF ParserTypes
<1>2. \A A : c \notin A => Only(text', A) = Only(text, A)
  BY <1>1, OnlyAppend
<1> QED
  BY <1>2, StatesApart DEF SequenceKept

LEMMA Controls ==
  ASSUME NEW c \in Nat, c < 32 \/ c = DEL
  PROVE  c \notin Collected \cup Numbers /\ (c < 32 => c \notin OscText)
BY DEF Collected, Numbers, OscText, DEL, Intermediates, Digits, Semicolon

LEMMA SequencePrint ==
  ASSUME ParserTypes, RunsKept, SequenceKept, NEW c \in Codes, PrintRun(c) PROVE SequenceNext
<1>1. Reads(c, "print") \/ (state = Ground /\ Reads(c, "error"))
  BY DEF PrintRun
<1>2. state' = Ground
  <2>1. CASE Reads(c, "print")
    <3>1. PICK n \in All \cup {-1} : Goes(state, c, "print", n) /\ state' = (IF n = -1 THEN state ELSE n)
      BY <2>1, ReadsGoes
    <3> QED
      BY <3>1, StatesApart DEF Goes
  <2>2. CASE state = Ground /\ Reads(c, "error")
    <3>1. PICK n \in All \cup {-1} : Goes(state, c, "error", n) /\ state' = (IF n = -1 THEN state ELSE n)
      BY <2>2, ReadsGoes
    <3> QED
      BY <2>2, <3>1, StatesApart DEF Goes
  <2> QED
    BY <1>1, <2>1, <2>2
<1>3. SequenceKept'
  BY <1>2, StatesApart, SequenceLeft
<1>4. SequencesCalled
  BY CalledNone, PlainCalls DEF PrintRun
<1> QED
  BY <1>3, <1>4 DEF SequenceNext

LEMMA SequenceExecute ==
  ASSUME ParserTypes, RunsKept, SequenceKept, NEW c \in Codes, Execute(c) PROVE SequenceNext
<1>1. PICK n \in All \cup {-1} :
             /\ Goes(state, c, "execute", n) /\ state' = (IF n = -1 THEN state ELSE n)
             /\ text' = IF "execute" \in {"clear", "oscStart"} \/ state' \in {Ground, SosPmApc, DcsPassthrough}
                        THEN <<>> ELSE Append(text, c)
  BY ReadsGoes DEF Execute
<1>2. state' = Ground \/ (state' = state /\ c < 32)
  BY <1>1, StatesApart DEF Goes
<1>3. c \in Nat
  BY CodesAssumption
<1>4. SequenceKept'
  <2>1. CASE state' \notin Prefixing \cup {OscString}
    BY <2>1, SequenceLeft
  <2>2. CASE state' \in Prefixing \cup {OscString}
    <3>1. state' = state /\ c < 32 /\ text' = Append(text, c)
      BY <1>1, <1>2, <2>2, StatesApart
    <3>2. UNCHANGED <<osc, collect, params>>
      BY DEF Execute, Others
    <3> QED
      BY <1>3, <3>1, <3>2, Controls, SequenceStays
  <2> QED
    BY <2>1, <2>2
<1>5. SequencesCalled
  BY CalledAfter, PlainCalls DEF Execute
<1> QED
  BY <1>4, <1>5 DEF SequenceNext

LEMMA SequenceIgnore ==
  ASSUME ParserTypes, RunsKept, SequenceKept, NEW c \in Codes, Ignore(c) PROVE SequenceNext
<1>1. PICK n \in All \cup {-1} :
             /\ Goes(state, c, "ignore", n) /\ state' = (IF n = -1 THEN state ELSE n)
             /\ text' = IF "ignore" \in {"clear", "oscStart"} \/ state' \in {Ground, SosPmApc, DcsPassthrough}
                        THEN <<>> ELSE Append(text, c)
  BY ReadsGoes DEF Ignore
<1>2. \/ state' \in {Ground, SosPmApc, CsiIgnore, DcsIgnore}
      \/ state' = state /\ state \notin Prefixing /\ (state = OscString => c < 32)
      \/ state' = state /\ state \in Prefixing /\ (c < 32 \/ c = DEL)
  BY <1>1, StatesApart DEF Goes
<1>3. c \in Nat
  BY CodesAssumption
<1>4. SequenceKept'
  <2>1. CASE state' \notin Prefixing \cup {OscString}
    BY <2>1, SequenceLeft
  <2>2. CASE state' \in Prefixing \cup {OscString}
    <3>1. state' = state /\ text' = Append(text, c) /\ (c < 32 \/ c = DEL) /\ (state = OscString => c < 32)
      BY <1>1, <1>2, <2>2, StatesApart
    <3>2. UNCHANGED <<osc, collect, params>>
      BY DEF Ignore, Others
    <3> QED
      BY <1>3, <3>1, <3>2, Controls, SequenceStays
  <2> QED
    BY <2>1, <2>2
<1>5. CalledPlain
  <2>1. called' = Printed \/ called' = <<<<"put", dcs>>>>
    BY DEF Ignore, Flush
  <2>2. CASE called' = Printed
    BY <2>2, CalledPrinted
  <2>3. CASE called' = <<<<"put", dcs>>>>
    <3>1. PICK e : e = <<"put", dcs>>
      OBVIOUS
    <3>2. e[1] = "put" /\ called' = <<e>>
      BY <2>3, <3>1
    <3> QED
      BY <3>2, CalledOne
  <2> QED
    BY <2>1, <2>2, <2>3
<1> QED
  BY <1>4, <1>5, PlainCalls DEF SequenceNext

LEMMA SequenceError ==
  ASSUME ParserTypes, RunsKept, SequenceKept, NEW c \in Codes, Error(c) PROVE SequenceNext
<1>1. state' \in {Ground, CsiIgnore, DcsIgnore, DcsPassthrough}
  BY DEF Error
<1>2. SequenceKept'
  BY <1>1, StatesApart, SequenceLeft
<1>3. CalledPlain
  <2>1. called' = <<>> \/ called' = <<<<"error", c>>>>
    BY DEF Error
  <2>2. CASE called' = <<<<"error", c>>>>
    <3>1. PICK e : e = <<"error", c>>
      OBVIOUS
    <3>2. e[1] = "error" /\ called' = <<e>>
      BY <2>2, <3>1
    <3> QED
      BY <3>2, CalledOne
  <2> QED
    BY <2>1, <2>2, CalledNone
<1> QED
  BY <1>2, <1>3, PlainCalls DEF SequenceNext

LEMMA SequenceCsi ==
  ASSUME ParserTypes, RunsKept, SequenceKept, NEW c \in Codes, CsiDispatch(c) PROVE SequenceNext
<1>1. PICK n \in All \cup {-1} :
             /\ Goes(state, c, "csi", n) /\ state' = (IF n = -1 THEN state ELSE n)
             /\ text' = IF "csi" \in {"clear", "oscStart"} \/ state' \in {Ground, SosPmApc, DcsPassthrough}
                        THEN <<>> ELSE Append(text, c)
  BY ReadsGoes DEF CsiDispatch
<1>2. state \in Numbering /\ state' = Ground
  BY <1>1, StatesApart DEF Goes
<1>3. SequenceKept'
  BY <1>2, StatesApart, SequenceLeft
<1>4. PICK e : e = <<"csi", collect, params, c>>
  OBVIOUS
<1>5. called' = <<e>>
  BY <1>4 DEF CsiDispatch
<1>6. e[1] \in {"csi", "hook"} /\ e[2] = Only(text, Collected) /\ e[3] = Meaning(Only(text, Numbers))
  BY <1>2, <1>4, StatesApart DEF SequenceKept
<1>7. SequencesCalled
  BY <1>5, <1>6, WholeCall
<1> QED
  BY <1>3, <1>7 DEF SequenceNext

LEMMA SequenceHook ==
  ASSUME ParserTypes, RunsKept, SequenceKept, NEW c \in Codes, Hook(c) PROVE SequenceNext
<1>1. PICK n \in All \cup {-1} :
             /\ Goes(state, c, "hook", n) /\ state' = (IF n = -1 THEN state ELSE n)
             /\ text' = IF "hook" \in {"clear", "oscStart"} \/ state' \in {Ground, SosPmApc, DcsPassthrough}
                        THEN <<>> ELSE Append(text, c)
  BY ReadsGoes DEF Hook
<1>2. state \in Numbering /\ state' = DcsPassthrough
  BY <1>1, StatesApart DEF Goes
<1>3. SequenceKept'
  BY <1>2, StatesApart, SequenceLeft
<1>4. PICK e : e = <<"hook", collect, params, c>>
  OBVIOUS
<1>5. called' = <<e>>
  BY <1>4 DEF Hook
<1>6. e[1] \in {"csi", "hook"} /\ e[2] = Only(text, Collected) /\ e[3] = Meaning(Only(text, Numbers))
  BY <1>2, <1>4, StatesApart DEF SequenceKept
<1>7. SequencesCalled
  BY <1>5, <1>6, WholeCall
<1> QED
  BY <1>3, <1>7 DEF SequenceNext

LEMMA SequenceEsc ==
  ASSUME ParserTypes, RunsKept, SequenceKept, NEW c \in Codes, EscDispatch(c) PROVE SequenceNext
<1>1. PICK n \in All \cup {-1} :
             /\ Goes(state, c, "esc", n) /\ state' = (IF n = -1 THEN state ELSE n)
             /\ text' = IF "esc" \in {"clear", "oscStart"} \/ state' \in {Ground, SosPmApc, DcsPassthrough}
                        THEN <<>> ELSE Append(text, c)
  BY ReadsGoes DEF EscDispatch
<1>2. state \in Prefixing /\ state' = Ground
  BY <1>1, StatesApart DEF Goes
<1>3. SequenceKept'
  BY <1>2, StatesApart, SequenceLeft
<1>4. PICK e : e = <<"esc", collect, c>>
  OBVIOUS
<1>5. called' = <<e>>
  BY <1>4 DEF EscDispatch
<1>6. e[1] = "esc" /\ e[2] = Only(text, Collected)
  BY <1>2, <1>4, StatesApart DEF SequenceKept
<1>7. SequencesCalled
  BY <1>5, <1>6, WholeCall
<1> QED
  BY <1>3, <1>7 DEF SequenceNext

LEMMA SequenceParam ==
  ASSUME ParserTypes, RunsKept, SequenceKept, NEW c \in Codes, Param(c) PROVE SequenceNext
<1>1. PICK n \in All \cup {-1} :
             /\ Goes(state, c, "param", n) /\ state' = (IF n = -1 THEN state ELSE n)
             /\ text' = IF "param" \in {"clear", "oscStart"} \/ state' \in {Ground, SosPmApc, DcsPassthrough}
                        THEN <<>> ELSE Append(text, c)
  BY ReadsGoes DEF Param
<1>2. state \in Numbering /\ state' \in Numbering /\ c \in Numbers
  BY <1>1, StatesApart DEF Goes
<1>3. text' = Append(text, c)
  BY <1>1, <1>2, StatesApart
<1>4. c \in Nat /\ text \in Seq(Nat) /\ c \notin Collected
  BY <1>2, CodesAssumption DEF ParserTypes, Numbers, Collected, Digits, Semicolon, Intermediates
<1>5. Only(text', Collected) = Only(text, Collected) /\ Only(text', Numbers) = Append(Only(text, Numbers), c)
  BY <1>2, <1>3, <1>4, OnlyAppend
<1>6. params = Meaning(Only(text, Numbers)) /\ Only(text, Numbers) \in Seq(Nat)
  BY <1>2, <1>4, OnlyParts DEF SequenceKept
<1>7. /\ params' = IF c = Semicolon THEN Append(params, 0) ELSE [params EXCEPT ![Len(params)] = (@ * 10) + c - 48]
      /\ collect' = collect /\ called' = <<>>
  BY DEF Param
<1>8. params' = Meaning(Only(text', Numbers))
  BY <1>4, <1>5, <1>6, <1>7, MeaningAppend
<1>9. SequenceKept'
  BY <1>2, <1>5, <1>7, <1>8, StatesApart DEF SequenceKept
<1> QED
  BY <1>7, <1>9, CalledNone, PlainCalls DEF SequenceNext

LEMMA SequenceCollect ==
  ASSUME ParserTypes, RunsKept, SequenceKept, NEW c \in Codes, Collect(c) PROVE SequenceNext
<1>1. PICK n \in All \cup {-1} :
             /\ Goes(state, c, "collect", n) /\ state' = (IF n = -1 THEN state ELSE n)
             /\ text' = IF "collect" \in {"clear", "oscStart"} \/ state' \in {Ground, SosPmApc, DcsPassthrough}
                        THEN <<>> ELSE Append(text, c)
  BY ReadsGoes DEF Collect
<1>2. state \in Prefixing /\ state' \in Prefixing /\ (state' \in Numbering => state \in Numbering) /\ c \in Collected
  BY <1>1, StatesApart DEF Goes
<1>3. text' = Append(text, c)
  BY <1>1, <1>2, StatesApart
<1>4. c \in Nat /\ text \in Seq(Nat) /\ c \notin Numbers
  BY <1>2, CodesAssumption DEF ParserTypes, Numbers, Collected, Digits, Semicolon, Intermediates
<1>5. Only(text', Collected) = Append(Only(text, Collected), c) /\ Only(text', Numbers) = Only(text, Numbers)
  BY <1>2, <1>3, <1>4, OnlyAppend
<1>6. collect' = Append(collect, c) /\ params' = params /\ called' = <<>>
  BY DEF Collect
<1>7. SequenceKept'
  BY <1>2, <1>5, <1>6, StatesApart DEF SequenceKept
<1> QED
  BY <1>6, <1>7, CalledNone, PlainCalls DEF SequenceNext

LEMMA SequenceStarts ==
  ASSUME text' = <<>>, collect' = <<>>, params' = Fresh, osc' = <<>> PROVE SequenceKept'
BY OnlyEmpty, MeaningEmpty DEF SequenceKept

LEMMA SequenceClear ==
  ASSUME ParserTypes, RunsKept, SequenceKept, NEW c \in Codes, Clear(c) PROVE SequenceNext
<1>1. PICK n \in All \cup {-1} :
             /\ Goes(state, c, "clear", n) /\ state' = (IF n = -1 THEN state ELSE n)
             /\ text' = IF "clear" \in {"clear", "oscStart"} \/ state' \in {Ground, SosPmApc, DcsPassthrough}
                        THEN <<>> ELSE Append(text, c)
  BY ReadsGoes DEF Clear
<1>2. text' = <<>> /\ collect' = <<>> /\ params' = Fresh /\ osc' = <<>> /\ called' = Printed
  BY <1>1 DEF Clear, Reset, Flush
<1> QED
  BY <1>2, SequenceStarts, CalledPrinted, PlainCalls DEF SequenceNext

LEMMA SequencePut ==
  ASSUME ParserTypes, RunsKept, SequenceKept, NEW c \in Codes, Put(c) PROVE SequenceNext
<1>1. PICK n \in All \cup {-1} :
             /\ Goes(state, c, "put", n) /\ state' = (IF n = -1 THEN state ELSE n)
             /\ text' = IF "put" \in {"clear", "oscStart"} \/ state' \in {Ground, SosPmApc, DcsPassthrough}
                        THEN <<>> ELSE Append(text, c)
  BY ReadsGoes DEF Put
<1>2. state' = DcsPassthrough
  BY <1>1, StatesApart DEF Goes
<1>3. SequenceKept'
  BY <1>2, StatesApart, SequenceLeft
<1>4. SequencesCalled
  BY CalledNone, PlainCalls DEF Put
<1> QED
  BY <1>3, <1>4 DEF SequenceNext

LEMMA SequenceUnhook ==
  ASSUME ParserTypes, RunsKept, SequenceKept, NEW c \in Codes, Unhook(c) PROVE SequenceNext
<1>1. text' = <<>> /\ collect' = <<>> /\ params' = Fresh /\ osc' = <<>>
  BY DEF Unhook, Reset
<1> QED
  BY <1>1, SequenceStarts, RunsUnhook, PlainCalls DEF SequenceNext

LEMMA SequenceOscStart ==
  ASSUME ParserTypes, RunsKept, SequenceKept, NEW c \in Codes, OscStart(c) PROVE SequenceNext
<1>1. PICK n \in All \cup {-1} :
             /\ Goes(state, c, "oscStart", n) /\ state' = (IF n = -1 THEN state ELSE n)
             /\ text' = IF "oscStart" \in {"clear", "oscStart"} \/ state' \in {Ground, SosPmApc, DcsPassthrough}
                        THEN <<>> ELSE Append(text, c)
  BY ReadsGoes DEF OscStart
<1>2. state' = OscString /\ text' = <<>> /\ osc' = <<>> /\ called' = Printed
  BY <1>1, StatesApart DEF Goes, OscStart, Flush
<1>3. SequenceKept'
  BY <1>2, StatesApart, OnlyEmpty DEF SequenceKept
<1> QED
  BY <1>2, <1>3, CalledPrinted, PlainCalls DEF SequenceNext

LEMMA SequenceOscPut ==
  ASSUME ParserTypes, RunsKept, SequenceKept, NEW c \in Codes, OscPut(c) PROVE SequenceNext
<1>1. PICK n \in All \cup {-1} :
             /\ Goes(state, c, "oscPut", n) /\ state' = (IF n = -1 THEN state ELSE n)
             /\ text' = IF "oscPut" \in {"clear", "oscStart"} \/ state' \in {Ground, SosPmApc, DcsPassthrough}
                        THEN <<>> ELSE Append(text, c)
  BY ReadsGoes DEF OscPut
<1>2. state = OscString /\ state' = OscString /\ c >= 32 /\ c \notin 128..159
  BY <1>1 DEF Goes
<1>3. text' = Append(text, c) /\ c \in OscText
  BY <1>1, <1>2, StatesApart DEF OscText
<1>4. c \in Nat /\ text \in Seq(Nat)
  BY CodesAssumption DEF ParserTypes
<1>5. Only(text', OscText) = Append(Only(text, OscText), c)
  BY <1>3, <1>4, OnlyAppend
<1>6. osc' = Append(osc, c) /\ called' = <<>>
  BY DEF OscPut
<1>7. SequenceKept'
  BY <1>2, <1>5, <1>6, StatesApart DEF SequenceKept
<1> QED
  BY <1>6, <1>7, CalledNone, PlainCalls DEF SequenceNext

LEMMA SequenceOscEnd ==
  ASSUME ParserTypes, RunsKept, SequenceKept, NEW c \in Codes, OscEnd(c) PROVE SequenceNext
<1>1. state = OscString
  BY TableGoes DEF OscEnd, Goes, ParserTypes
<1>2. /\ text' = <<>> /\ collect' = <<>> /\ params' = Fresh /\ osc' = <<>>
      /\ called' = <<>> \/ called' = <<<<"osc", osc>>>>
  BY DEF OscEnd, Reset
<1>3. osc = Only(text, OscText)
  BY <1>1 DEF SequenceKept
<1>4. SequencesCalled
  <2>1. CASE called' = <<<<"osc", osc>>>>
    <3>1. PICK e : e = <<"osc", osc>>
      OBVIOUS
    <3>2. called' = <<e>> /\ e[1] = "osc" /\ e[2] = Only(text, OscText)
      BY <1>3, <2>1, <3>1
    <3> QED
      BY <3>2, WholeCall
  <2> QED
    BY <1>2, <2>1, CalledNone, PlainCalls
<1> QED
  BY <1>2, <1>4, SequenceStarts DEF SequenceNext

LEMMA SequenceCut ==
  ASSUME ParserTypes, RunsKept, SequenceKept, Cut PROVE SequenceNext
<1>1. /\ UNCHANGED <<state, osc, collect, params, text>>
      /\ called' = IF state = Ground THEN Printed ELSE IF Passes THEN <<<<"put", dcs>>>> ELSE <<>>
  BY DEF Cut, kept
<1>2. SequenceKept'
  BY <1>1 DEF SequenceKept
<1>3. CalledPlain
  <2>1. CASE called' = <<<<"put", dcs>>>>
    <3>1. PICK e : e = <<"put", dcs>>
      OBVIOUS
    <3>2. e[1] = "put" /\ called' = <<e>>
      BY <2>1, <3>1
    <3> QED
      BY <3>2, CalledOne
  <2> QED
    BY <1>1, <2>1, CalledPrinted, CalledNone
<1> QED
  BY <1>2, <1>3, PlainCalls DEF SequenceNext

LEMMA NextSequence ==
  ASSUME ParserTypes, RunsKept, SequenceKept, Next PROVE SequenceNext
<1>1. ASSUME NEW c \in Codes, Consume(c) PROVE SequenceNext
  BY <1>1, SequencePrint, SequenceExecute, SequenceIgnore, SequenceError, SequenceCsi, SequenceParam, SequenceCollect,
     SequenceEsc, SequenceClear, SequenceHook, SequencePut, SequenceUnhook, SequenceOscStart, SequenceOscPut,
     SequenceOscEnd DEF Consume
<1> QED
  BY <1>1, SequenceCut DEF Next

LEMMA InitParser == Init => ParserInv
BY StatesApart, OnlyEmpty, MeaningEmpty DEF Init, ParserInv, ParserTypes, RunsKept, SequenceKept

LEMMA ParserStays == ParserInv /\ UNCHANGED vars => ParserInv'
BY DEF vars, kept, runs, history, ParserInv, ParserTypes, RunsKept, SequenceKept

LEMMA NextParser ==
  ASSUME ParserInv, Next
  PROVE  /\ ParserInv' /\ SequencesCalled /\ RunsCalled
         /\ Cut \/ state' # Ground => toPrint' = <<>>
         /\ Cut \/ state' # DcsPassthrough => toPut' = <<>>
<1>1. ParserTypes /\ RunsKept /\ SequenceKept
  BY DEF ParserInv
<1>2. RunsNext /\ SequenceNext
  BY <1>1, NextRuns, NextSequence
<1> QED
  BY <1>1, <1>2, NextRuns DEF ParserInv, RunsNext, SequenceNext

-----------------------------------------------------------------------------
(* The stages together: a step of one leaves the others as they are.       *)
InputInv == QueueInv /\ AttachInv /\ TerminalsInv /\ DecoderInv /\ ParserInv

LEMMA InitInput == MCInit => InputInv
BY InitQueue, InitAttach, InitTerminals, InitDecoder, InitParser DEF MCInit, InputInv

LEMMA NextInput == InputInv /\ [MCNext]_allVars => InputInv'
<1> SUFFICES ASSUME InputInv, [MCNext]_allVars PROVE InputInv'
  OBVIOUS
<1>1. UNCHANGED queueVars \/ Queue!Next
  BY DEF MCNext, allVars, OnlyQueue, OnlyDecoder, OnlyParser, OnlyAttach, OnlyManager
<1>2. UNCHANGED attachVars \/ Joined!Next
  BY DEF MCNext, allVars, OnlyQueue, OnlyDecoder, OnlyParser, OnlyAttach, OnlyManager
<1>3. UNCHANGED managerVars \/ Manager!TerminalsNext
  BY DEF MCNext, allVars, OnlyQueue, OnlyDecoder, OnlyParser, OnlyAttach, OnlyManager
<1>4. UNCHANGED queueVars => UNCHANGED Queue!vars
  BY DEF queueVars, Queue!vars
<1>5. UNCHANGED attachVars => UNCHANGED Joined!vars
  BY DEF attachVars, Joined!vars, Joined!modes, Joined!wires, Joined!messages
<1>6. UNCHANGED managerVars => UNCHANGED Manager!terminalsVars
  BY DEF managerVars, Manager!terminalsVars, Manager!terminalVars, Manager!processVars, Manager!goVars,
         Manager!historyVars
<1>7. UNCHANGED decoderVars \/ Chunks!Next
  BY DEF MCNext, allVars, OnlyQueue, OnlyDecoder, OnlyParser, OnlyAttach, OnlyManager
<1>8. UNCHANGED decoderVars => UNCHANGED Chunks!vars
  BY DEF decoderVars, Chunks!vars
<1>9. UNCHANGED vars \/ Next
  BY DEF MCNext, allVars, OnlyQueue, OnlyDecoder, OnlyParser, OnlyAttach, OnlyManager
<1>10. ParserInv'
  BY <1>9, NextParser, ParserStays DEF InputInv
<1> QED
  BY <1>1, <1>2, <1>3, <1>4, <1>5, <1>6, <1>7, <1>8, <1>10, NextQueue, NextAttach, NextHolds, NextDecoder DEF InputInv

(* The inductive invariant of the queue, the add-ons, the terminals, the   *)
(* decoders and the parser.                                                *)
THEOREM InputInvariant == MCSpec => []InputInv
BY InitInput, NextInput, PTL DEF MCSpec

(* What is written is parsed at most once and, of each kind, in the order  *)
(* it was written (Terminal, _innerWrite and _innerWriteUtf8), for any     *)
(* number of writes, any thresholds and slices of any size; and a terminal *)
(* hears a socket and is heard by it, or neither, but for the named cases  *)
(* (attach.js and addons/attach, detach).                                  *)
THEOREM StreamsAlwaysHold == MCSpec => []StreamsHold
<1>1. QueueInv => Queue!ParsedInOrder
  BY DEF QueueInv, InTurn, Increasing, Queue!ParsedInOrder
<1>2. InputInv => StreamsHold
  BY <1>1 DEF InputInv, AttachInv, StreamsHold
<1> QED
  BY <1>2, InputInvariant, PTL

(* Keys are written once and in order and no open connection is unknown to *)
(* the manager, but for the named cases (handlers/terms.go, process and    *)
(* terminal.Go).                                                           *)
THEOREM TerminalsAlwaysHold == MCSpec => []TerminalsHold
<1>1. TerminalsInv => Manager!TerminalsHold
  BY DEF TerminalsInv, Manager!TerminalsHold, OneOpen, WrittenFirst, ClosedLast, Increasing
<1>2. InputInv => TerminalsHold
  BY <1>1 DEF InputInv, TerminalsHold
<1> QED
  BY <1>2, InputInvariant, PTL

(* A text cut anywhere is decoded to the characters it has uncut, each at  *)
(* the same byte, but for a character cut in one of the two harmful ways;  *)
(* after it too the decoder falls into step (TextDecoder, decode), for any *)
(* bytes and code units and any cuts.                                      *)
THEOREM CutsNeverChange == MCSpec => CutsChangeNothing
<1>1. InputInv /\ [MCNext]_allVars =>
        [/\ hurt \/ out' = wholeOut'
         /\ phase' = "main" => head' = whole'
         /\ phase' # "main" /\ ~hurt' => interim' = Chunks!Kept(whole')]_Chunks!vars
  <2> SUFFICES ASSUME InputInv, [MCNext]_allVars
               PROVE  CutsStep \/ UNCHANGED Chunks!vars
    BY DEF CutsStep
  <2>1. UNCHANGED decoderVars \/ Chunks!Next
    BY DEF MCNext, allVars, OnlyQueue, OnlyDecoder, OnlyParser, OnlyAttach, OnlyManager
  <2>2. UNCHANGED decoderVars => UNCHANGED Chunks!vars
    BY DEF decoderVars, Chunks!vars
  <2> QED
    BY <2>1, <2>2, NextDecoder DEF InputInv
<1> QED
  BY <1>1, InputInvariant, PTL DEF MCSpec, CutsChangeNothing, Chunks!CutsChangeNothing

(* A sequence that is cut anywhere is dispatched whole and alone, and runs *)
(* of text and of data are passed on in turn, each once, but for data of a *)
(* string that was abandoned (EscapeSequenceParser, parse), for any codes  *)
(* and any cuts.                                                           *)
THEOREM SequencesAlwaysWhole == MCSpec => SequencesAreWhole
<1>1. InputInv /\ [MCNext]_allVars =>
        [\A i \in DOMAIN called' :
           LET e == called'[i] IN
           /\ e[1] \in {"csi", "hook"} =>
                e[2] = Only(text, Collected) /\ e[3] = Meaning(Only(text, Numbers))
           /\ e[1] = "esc" => e[2] = Only(text, Collected)
           /\ e[1] = "osc" => e[2] = Only(text, OscText)]_vars
  <2> SUFFICES ASSUME InputInv, [MCNext]_allVars
               PROVE  SequencesCalled \/ UNCHANGED vars
    BY DEF SequencesCalled
  <2>1. UNCHANGED vars \/ Next
    BY DEF MCNext, allVars, OnlyQueue, OnlyDecoder, OnlyParser, OnlyAttach, OnlyManager
  <2> QED
    BY <2>1, NextParser DEF InputInv
<1>2. InputInv /\ [MCNext]_allVars =>
        [/\ \A i \in DOMAIN called' :
              /\ called'[i][1] = "print" => called'[i][2] = toPrint
              /\ called'[i][1] = "put" => called'[i][2] = toPut \/ state # DcsPassthrough
              /\ called'[i][1] = "unhook" => toPut = <<>> \/ called'[1] = <<"put", toPut>>
         /\ Cut \/ state' # Ground => toPrint' = <<>>
         /\ Cut \/ state' # DcsPassthrough => toPut' = <<>>]_vars
  <2> SUFFICES ASSUME InputInv, [MCNext]_allVars
               PROVE  \/ /\ RunsCalled
                         /\ Cut \/ state' # Ground => toPrint' = <<>>
                         /\ Cut \/ state' # DcsPassthrough => toPut' = <<>>
                      \/ UNCHANGED vars
    BY DEF RunsCalled
  <2>1. UNCHANGED vars \/ Next
    BY DEF MCNext, allVars, OnlyQueue, OnlyDecoder, OnlyParser, OnlyAttach, OnlyManager
  <2> QED
    BY <2>1, NextParser DEF InputInv
<1> QED
  BY <1>1, <1>2, InputInvariant, PTL DEF MCSpec, SequencesAreWhole, DispatchedWhole, RunsInTurn
=============================================================================
