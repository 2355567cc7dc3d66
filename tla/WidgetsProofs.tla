---------------------------- MODULE WidgetsProofs ----------------------------
(***************************************************************************)
(* What stands between a terminal's buffer and its user (module MCWidgets).*)
(*                                                                         *)
(* The scroll bar: its area is as high as the buffer, or a frame is to     *)
(* come; a move the viewport made itself is to be told, and went where the *)
(* display was.  Keys: what was sent for the key that is down is decoded   *)
(* (CodeOf, ToldBy), and gives the key and what was held with it.  Input   *)
(* methods: what is put off says which of six phases the text area is in,  *)
(* and what of it is still to be sent.  The selection: where its ends lie  *)
(* says which lines of the buffer it is on, and those keep their text.     *)
(* The list of the lines: places fewer than maxLength apart are different  *)
(* places of the array (CellParts), so no copy reads what an earlier one   *)
(* wrote.  Every step is one part's, so the five hold together.            *)
(***************************************************************************)
EXTENDS MCWidgets, SequenceTheorems, FiniteSetTheorems, TLAPS

-----------------------------------------------------------------------------
(* The scroll bar.                                                         *)

(* The place of a row, in pixels.                                          *)
Pixel(row) == row * RowHeight

LEMMA PixelParts ==
  /\ \A n \in Nat : Pixel(n) \in Nat
  /\ \A m, n \in Nat : m <= n => Pixel(m) <= Pixel(n)
  /\ \A m, n \in Nat : m < n => Pixel(m) + RowHeight <= Pixel(n)
  /\ Pixel(0) = 0 /\ \A n \in Nat : Pixel(n + 1) = Pixel(n) + RowHeight
<1>1. \A n \in Nat : Pixel(n) \in Nat /\ Pixel(n + 1) = Pixel(n) + RowHeight
  BY BarAssumption DEF Pixel
<1>2. ASSUME NEW m \in Nat, NEW n \in Nat, m <= n PROVE Pixel(m) <= Pixel(n)
  <2>1. PICK d : d = n - m
    OBVIOUS
  <2>2. d \in Nat /\ n = m + d
    BY <1>2, <2>1
  <2>3. d * RowHeight \in Nat /\ (m + d) * RowHeight = m * RowHeight + d * RowHeight
    BY <2>2, BarAssumption
  <2> QED
    BY <1>1, <2>2, <2>3 DEF Pixel
<1>3. ASSUME NEW m \in Nat, NEW n \in Nat, m < n PROVE Pixel(m) + RowHeight <= Pixel(n)
  <2>1. m + 1 \in Nat /\ m + 1 <= n
    BY <1>3
  <2>2. Pixel(m + 1) <= Pixel(n)
    BY <1>2, <2>1
  <2> QED
    BY <1>1, <2>2
<1>4. Pixel(0) = 0
  BY BarAssumption DEF Pixel
<1> QED
  BY <1>1, <1>2, <1>3, <1>4

(* The row a place of the bar is nearest to.                               *)
LEMMA NearestParts ==
  ASSUME NEW s \in Nat, NEW n \in Nat, s <= Pixel(n)
  PROVE  /\ (s + RowHeight \div 2) \div RowHeight \in 0..n
         /\ 2 * Bar!Distance(s, Pixel((s + RowHeight \div 2) \div RowHeight)) <= RowHeight
<1> DEFINE h == RowHeight \div 2
<1>1. h \in Nat /\ 2 * h <= RowHeight /\ RowHeight <= 2 * h + 1
  BY BarAssumption
<1> HIDE DEF h
<1>2. PICK x : x = s + h
  OBVIOUS
<1>3. PICK q : q = x \div RowHeight
  OBVIOUS
<1>4. x \in Nat
  BY <1>1, <1>2
<1>5. q \in Nat /\ q * RowHeight <= x /\ x < q * RowHeight + RowHeight
  BY <1>3, <1>4, BarAssumption
<1>6. Pixel(q) <= s + h /\ s + h < Pixel(q) + RowHeight
  BY <1>2, <1>5 DEF Pixel
<1>7. q <= n
  <2>1. SUFFICES ASSUME n < q PROVE FALSE
    BY <1>5
  <2>2. Pixel(n) + RowHeight <= Pixel(q)
    BY <1>5, <2>1, PixelParts
  <2> QED
    BY <1>1, <1>5, <1>6, <2>2, PixelParts, BarAssumption
<1>8. Pixel(q) \in Nat
  BY <1>5, PixelParts
<1>9. 2 * Bar!Distance(s, Pixel(q)) <= RowHeight
  BY <1>1, <1>6, <1>8, BarAssumption DEF Bar!Distance
<1> QED
  BY <1>2, <1>3, <1>5, <1>7, <1>9 DEF h

BarTypes ==
    /\ barLength \in Nat /\ BarRows <= barLength /\ barLength <= MaxLength
    /\ barYdisp \in Nat /\ barYdisp <= barLength - BarRows
    /\ barUser \in BOOLEAN /\ barShown \in BOOLEAN /\ event \in BOOLEAN /\ refreshing \in BOOLEAN
    /\ ignoreNext \in BOOLEAN /\ crossed \in BOOLEAN
    /\ area \in Nat /\ BarRows <= area /\ scrollTop \in Nat /\ scrollTop <= Bar!Lowest(area)
    /\ recordedLength = barLength

(* The area is as high as the buffer, or a frame is to come; a move the    *)
(* viewport made is to be told, and to where the display was; a move that  *)
(* nobody is to tell of was told.                                          *)
BarInv ==
    /\ BarTypes
    /\ area # barLength => refreshing
    /\ event => barShown
    /\ ~crossed =>
        /\ ignoreNext => event
        /\ ignoreNext /\ ~refreshing => scrollTop = Bar!Wanted
        /\ ~event => lastScrollTop = scrollTop
        /\ ~event /\ ~refreshing => 2 * Bar!Distance(scrollTop, Bar!Wanted) <= RowHeight

LEMMA InitBar == Bar!ScrollbarInit => BarInv
<1> SUFFICES ASSUME Bar!ScrollbarInit PROVE BarInv
  OBVIOUS
<1>1. Bar!Wanted = 0 /\ Bar!Lowest(area) = 0
  BY PixelParts, BarAssumption DEF Bar!ScrollbarInit, Bar!Wanted, Bar!Lowest, Pixel
<1>2. 2 * Bar!Distance(scrollTop, 0) <= RowHeight
  BY BarAssumption DEF Bar!ScrollbarInit, Bar!Distance
<1>3. BarTypes
  <2>1. /\ barLength \in Nat /\ BarRows <= barLength /\ barLength <= MaxLength
        /\ barYdisp \in Nat /\ barYdisp <= barLength - BarRows /\ recordedLength = barLength
    BY BarAssumption DEF Bar!ScrollbarInit
  <2>2. area \in Nat /\ BarRows <= area /\ scrollTop \in Nat /\ scrollTop <= Bar!Lowest(area)
    BY <1>1, BarAssumption DEF Bar!ScrollbarInit
  <2> QED
    BY <2>1, <2>2 DEF Bar!ScrollbarInit, BarTypes
<1> QED
  BY <1>1, <1>2, <1>3 DEF Bar!ScrollbarInit, BarInv

(* The display moved, and the viewport looks whether the bar is there.     *)
DisplayMoved == /\ Bar!Sync /\ UNCHANGED <<barShown, scrollTop, area, event, lastScrollTop, ignoreNext, crossed>>
                /\ barUser' \in BOOLEAN /\ barLength' \in Nat /\ BarRows <= barLength' /\ barLength' <= MaxLength
                /\ barYdisp' \in Nat /\ barYdisp' <= barLength' - BarRows

LEMMA MovedHolds == BarInv /\ DisplayMoved => BarInv'
<1> SUFFICES ASSUME BarInv, DisplayMoved PROVE BarInv'
  OBVIOUS
<1> DEFINE to == Pixel(barYdisp')
<1>1. to \in Nat /\ to = barYdisp' * RowHeight /\ to = Bar!Wanted'
  BY PixelParts DEF DisplayMoved, Pixel, Bar!Wanted
<1>2. refreshing' = (refreshing \/ recordedLength # barLength' \/ lastScrollTop # to
                     \/ lastScrollTop # (IF barShown THEN scrollTop ELSE 0))
  BY <1>1 DEF DisplayMoved, Bar!Sync
<1> HIDE DEF to
<1>3. UNCHANGED <<barShown, scrollTop, area, event, lastScrollTop, ignoreNext, crossed>>
  BY DEF DisplayMoved
<1>4. BarTypes'
  <2>1. recordedLength' = barLength' /\ refreshing' \in BOOLEAN
    BY <1>2 DEF DisplayMoved, Bar!Sync, BarInv, BarTypes
  <2>2. Bar!Lowest(area)' = Bar!Lowest(area)
    BY <1>3 DEF Bar!Lowest
  <2> QED
    BY <1>3, <2>1, <2>2 DEF BarInv, BarTypes, DisplayMoved
<1>5. area' # barLength' => refreshing'
  BY <1>2, <1>3 DEF BarInv, BarTypes
<1>6. ASSUME ~crossed', ~refreshing'
      PROVE  /\ ignoreNext' => scrollTop' = Bar!Wanted'
             /\ ~event' => 2 * Bar!Distance(scrollTop', Bar!Wanted') <= RowHeight
  <2>1. ~refreshing /\ lastScrollTop = to /\ lastScrollTop = (IF barShown THEN scrollTop ELSE 0)
    BY <1>2, <1>6
  <2>2. ~crossed
    BY <1>3, <1>6
  <2>3. barShown => scrollTop = to
    BY <2>1
  <2>4. ignoreNext => barShown
    BY <2>2 DEF BarInv
  <2>5. ~event => scrollTop = to
    BY <2>1, <2>2, <2>3 DEF BarInv
  <2>6. scrollTop \in Nat /\ scrollTop' = scrollTop /\ Bar!Wanted' = to
    BY <1>1, <1>3 DEF BarInv, BarTypes
  <2>7. ~event => 2 * Bar!Distance(scrollTop, to) <= RowHeight
    BY <2>5, <2>6, BarAssumption DEF Bar!Distance
  <2> QED
    BY <1>3, <2>3, <2>4, <2>6, <2>7 DEF Bar!Distance
<1> QED
  BY <1>3, <1>4, <1>5, <1>6 DEF BarInv

LEMMA BarOutput == BarInv /\ Bar!Output => BarInv'
<1> SUFFICES ASSUME BarInv, Bar!Output PROVE DisplayMoved
  BY MovedHolds
<1>1. /\ barLength' = IF barLength = MaxLength THEN barLength ELSE barLength + 1
      /\ barYdisp' = IF ~barUser THEN barLength' - BarRows
                     ELSE IF barLength = MaxLength THEN Bar!Within(barYdisp - 1, 0, barLength - BarRows) ELSE barYdisp
  BY DEF Bar!Output, Bar!ybase
<1>2. barLength' \in Nat /\ BarRows <= barLength' /\ barLength' <= MaxLength /\ barLength <= barLength'
  BY <1>1, BarAssumption DEF BarInv, BarTypes
<1>3. barYdisp' \in Nat /\ barYdisp' <= barLength' - BarRows
  <2>1. barYdisp - 1 \in Int /\ barLength - BarRows \in Nat
    BY BarAssumption DEF BarInv, BarTypes
  <2>2. Bar!Within(barYdisp - 1, 0, barLength - BarRows) \in 0..(barLength - BarRows)
    BY <2>1 DEF Bar!Within
  <2> QED
    BY <1>1, <1>2, <2>1, <2>2, BarAssumption DEF BarInv, BarTypes
<1> QED
  BY <1>2, <1>3 DEF BarInv, BarTypes, DisplayMoved, Bar!Output

LEMMA BarClear == BarInv /\ Bar!Clear => BarInv'
<1> SUFFICES ASSUME BarInv, Bar!Clear PROVE DisplayMoved
  BY MovedHolds
<1> QED
  BY BarAssumption DEF BarInv, BarTypes, DisplayMoved, Bar!Clear

LEMMA BarScrolled ==
  ASSUME BarInv, NEW amount \in Int, Bar!Scrolled(amount)
  PROVE  /\ barYdisp' \in Nat /\ barYdisp' <= barLength' - BarRows /\ barLength' = barLength
         /\ barUser' \in BOOLEAN
<1>1. /\ barYdisp' = IF amount < 0 /\ barYdisp = 0 THEN barYdisp
                     ELSE Bar!Within(barYdisp + amount, 0, barLength - BarRows)
      /\ barLength' = barLength
  BY DEF Bar!Scrolled, Bar!ybase
<1>2. barUser' \in BOOLEAN
  BY DEF Bar!Scrolled, BarInv, BarTypes
<1> QED
  BY <1>1, <1>2, BarAssumption DEF BarInv, BarTypes, Bar!Within

LEMMA BarByKey ==
  ASSUME BarInv, NEW amount \in Int, Bar!ScrollByKey(amount) PROVE BarInv'
<1>1. Bar!Scrolled(amount)
  BY DEF Bar!ScrollByKey
<1>2. CASE barYdisp' # barYdisp
  <2>1. DisplayMoved
    BY <1>1, <1>2, BarScrolled DEF BarInv, BarTypes, DisplayMoved, Bar!ScrollByKey
  <2> QED
    BY <2>1, MovedHolds
<1>3. CASE barYdisp' = barYdisp
  <2>1. UNCHANGED <<barLength, barYdisp, barShown, scrollTop, area, event, lastScrollTop, ignoreNext, crossed,
                    refreshing, recordedLength>> /\ barUser' \in BOOLEAN
    BY <1>1, <1>3, BarScrolled DEF Bar!ScrollByKey
  <2> QED
    BY <2>1 DEF BarInv, BarTypes, Bar!Wanted, Bar!Lowest, Bar!Distance
<1> QED
  BY <1>2, <1>3

(* Where the bar can be, whatever it is asked for.                         *)
LEMMA WithinParts ==
  ASSUME NEW n \in Int, NEW high \in Nat
  PROVE  Bar!Within(n, 0, high) \in 0..high /\ (n \in 0..high => Bar!Within(n, 0, high) = n)
BY DEF Bar!Within

LEMMA LowestParts ==
  \A n \in Nat : BarRows <= n => Bar!Lowest(n) = Pixel(n - BarRows) /\ Bar!Lowest(n) \in Nat
<1> SUFFICES ASSUME NEW n \in Nat, BarRows <= n PROVE Bar!Lowest(n) = Pixel(n - BarRows) /\ Bar!Lowest(n) \in Nat
  OBVIOUS
<1>1. n - BarRows \in Nat /\ (n > BarRows \/ n - BarRows = 0)
  BY BarAssumption
<1>2. Bar!Lowest(n) = Pixel(n - BarRows)
  BY <1>1, PixelParts DEF Bar!Lowest, Pixel
<1> QED
  BY <1>1, <1>2, PixelParts

LEMMA BarWheel ==
  ASSUME BarInv, NEW amount \in Int, Bar!Wheel(amount) PROVE BarInv'
<1>1. scrollTop' \in Nat /\ scrollTop' <= Bar!Lowest(area)
  <2>1. Bar!Lowest(area) \in Nat /\ scrollTop + amount \in Int
    BY LowestParts DEF BarInv, BarTypes
  <2>2. scrollTop' = Bar!Within(scrollTop + amount, 0, Bar!Lowest(area))
    BY DEF Bar!Wheel
  <2> QED
    BY <2>1, <2>2, WithinParts
<1>2. /\ UNCHANGED <<barLength, barYdisp, barUser, barShown, area, recordedLength, lastScrollTop, refreshing, ignoreNext>>
      /\ event' = TRUE /\ barShown
  BY DEF Bar!Wheel, Bar!bufferVars
<1>3. crossed' \in BOOLEAN /\ (~crossed' => ~crossed /\ ~ignoreNext)
  BY DEF Bar!Wheel, BarInv, BarTypes
<1> QED
  BY <1>1, <1>2, <1>3 DEF BarInv, BarTypes, Bar!Wanted, Bar!Lowest, Bar!Distance

LEMMA BarEvent == BarInv /\ Bar!ScrollEvent => BarInv'
<1> SUFFICES ASSUME BarInv, Bar!ScrollEvent PROVE BarInv'
  OBVIOUS
<1>1. /\ event /\ event' = FALSE /\ lastScrollTop' = scrollTop
      /\ UNCHANGED <<barShown, scrollTop, area, recordedLength, refreshing, crossed>>
  BY DEF Bar!ScrollEvent
<1>2. CASE ignoreNext
  <2>1. ignoreNext' = FALSE /\ UNCHANGED <<barLength, barYdisp, barUser>>
    BY <1>2 DEF Bar!ScrollEvent, Bar!bufferVars
  <2>2. BarTypes'
    BY <1>1, <2>1 DEF BarInv, BarTypes, Bar!Lowest
  <2>3. ASSUME ~crossed, ~refreshing PROVE 2 * Bar!Distance(scrollTop, Bar!Wanted) <= RowHeight
    <3>1. scrollTop = Bar!Wanted /\ scrollTop \in Nat
      BY <1>2, <2>3 DEF BarInv, BarTypes
    <3> QED
      BY <3>1, BarAssumption DEF Bar!Distance
  <2>4. Bar!Wanted' = Bar!Wanted
    BY <2>1 DEF Bar!Wanted
  <2> QED
    BY <1>1, <2>1, <2>2, <2>3, <2>4 DEF BarInv, Bar!Distance
<1>3. CASE ~ignoreNext
  <2> DEFINE at == Bar!Nearest
  <2>1. Bar!Scrolled(at - barYdisp) /\ UNCHANGED ignoreNext
    BY <1>3 DEF Bar!ScrollEvent
  <2>2. at \in 0..(area - BarRows) /\ 2 * Bar!Distance(scrollTop, Pixel(at)) <= RowHeight
    <3>1. scrollTop \in Nat /\ area - BarRows \in Nat /\ scrollTop <= Pixel(area - BarRows)
      BY LowestParts, BarAssumption DEF BarInv, BarTypes
    <3> QED
      BY <3>1, NearestParts DEF Bar!Nearest
  <2> HIDE DEF at
  <2>3. at \in Nat /\ at - barYdisp \in Int
    BY <2>2, BarAssumption DEF BarInv, BarTypes
  <2>4. barYdisp' \in Nat /\ barYdisp' <= barLength' - BarRows /\ barLength' = barLength /\ barUser' \in BOOLEAN
    BY <2>1, <2>3, BarScrolled
  <2>5. BarTypes'
    BY <1>1, <2>1, <2>4 DEF BarInv, BarTypes, Bar!Lowest
  <2>6. ASSUME ~refreshing PROVE barYdisp' = at
    <3>1. area = barLength /\ at <= barLength - BarRows
      BY <2>2, <2>6, BarAssumption DEF BarInv, BarTypes
    <3>2. barYdisp' = IF at - barYdisp < 0 /\ barYdisp = 0 THEN barYdisp
                      ELSE Bar!Within(barYdisp + (at - barYdisp), 0, barLength - BarRows)
      BY <2>1 DEF Bar!Scrolled, Bar!ybase
    <3>3. ~(at - barYdisp < 0 /\ barYdisp = 0) /\ barYdisp + (at - barYdisp) = at
      BY <2>3 DEF BarInv, BarTypes
    <3>4. barLength - BarRows \in Nat
      BY BarAssumption DEF BarInv, BarTypes
    <3> QED
      BY <2>2, <2>3, <3>1, <3>2, <3>3, <3>4 DEF Bar!Within
  <2>7. ~refreshing => 2 * Bar!Distance(scrollTop', Bar!Wanted') <= RowHeight
    BY <1>1, <2>2, <2>6 DEF Bar!Wanted, Pixel, Bar!Distance
  <2> QED
    BY <1>1, <1>3, <2>1, <2>4, <2>5, <2>7 DEF BarInv
<1> QED
  BY <1>2, <1>3

LEMMA BarRefresh == BarInv /\ Bar!InnerRefresh => BarInv'
<1> SUFFICES ASSUME BarInv, Bar!InnerRefresh PROVE BarInv'
  OBVIOUS
<1> DEFINE low == Bar!Lowest(barLength)
           clamped == Bar!Within(scrollTop, 0, low)
           sets == (IF barShown THEN clamped ELSE 0) # Bar!Wanted
<1>1. area' = barLength
  BY DEF Bar!InnerRefresh, BarInv, BarTypes
<1>2. /\ scrollTop' = IF sets /\ barShown THEN Bar!Within(Bar!Wanted, 0, low) ELSE clamped
      /\ event' = (barShown /\ scrollTop' # scrollTop)
      /\ ignoreNext' = (ignoreNext \/ sets)
      /\ crossed' = (IF barShown THEN crossed /\ ~sets ELSE TRUE)
  BY <1>1 DEF Bar!InnerRefresh
<1>3. /\ refreshing /\ ~event /\ refreshing' = FALSE
      /\ UNCHANGED <<barLength, barYdisp, barUser, barShown, recordedLength, lastScrollTop>>
  BY DEF Bar!InnerRefresh, Bar!bufferVars
<1>4. low \in Nat /\ Bar!Wanted \in 0..low /\ scrollTop \in Nat
  <2>1. barLength - BarRows \in Nat /\ low = Pixel(barLength - BarRows)
    BY LowestParts, BarAssumption DEF BarInv, BarTypes
  <2>2. Bar!Wanted = Pixel(barYdisp)
    BY DEF Bar!Wanted, Pixel
  <2> HIDE DEF low
  <2> QED
    BY <2>1, <2>2, PixelParts DEF BarInv, BarTypes
<1>5. clamped \in 0..low /\ Bar!Within(Bar!Wanted, 0, low) = Bar!Wanted
  <2> HIDE DEF low
  <2> QED
    BY <1>4, WithinParts
<1>6. low = Bar!Lowest(area')
  BY <1>1
<1>7. scrollTop \in 0..low => clamped = scrollTop
  <2> HIDE DEF low
  <2> QED
    BY <1>4, WithinParts
<1> HIDE DEF low, clamped
<1>8. scrollTop' \in Nat /\ scrollTop' <= Bar!Lowest(area')
  BY <1>2, <1>4, <1>5, <1>6
<1>9. BarTypes'
  <2>1. event' \in BOOLEAN /\ ignoreNext' \in BOOLEAN /\ crossed' \in BOOLEAN
    BY <1>2 DEF BarInv, BarTypes
  <2>2. area' \in Nat /\ BarRows <= area'
    BY <1>1 DEF BarInv, BarTypes
  <2>3. (scrollTop <= Bar!Lowest(area))' = (scrollTop' <= Bar!Lowest(area'))
    BY DEF Bar!Lowest
  <2> QED
    BY <1>3, <1>8, <2>1, <2>2, <2>3 DEF BarInv, BarTypes
<1>10. Bar!Wanted' = Bar!Wanted
  BY <1>3 DEF Bar!Wanted
<1>11. ASSUME ~crossed'
       PROVE  /\ ignoreNext' => event'
              /\ ignoreNext' => scrollTop' = Bar!Wanted
              /\ ~event' => lastScrollTop' = scrollTop'
              /\ ~event' => scrollTop' = Bar!Wanted
  <2>1. barShown /\ (~crossed \/ sets)
    BY <1>2, <1>11
  <2>2. CASE sets
    <3>1. scrollTop' = Bar!Wanted /\ clamped # Bar!Wanted
      BY <1>2, <1>5, <2>1, <2>2
    <3>2. scrollTop' # scrollTop
      BY <1>4, <1>7, <3>1
    <3> QED
      BY <1>2, <2>1, <3>1, <3>2
  <2>3. CASE ~sets
    <3>1. scrollTop' = Bar!Wanted /\ ~crossed /\ ignoreNext' = ignoreNext
      BY <1>2, <2>1, <2>3 DEF BarInv, BarTypes
    <3>2. ~ignoreNext /\ lastScrollTop = scrollTop
      BY <1>3, <3>1 DEF BarInv
    <3>3. ~event' => scrollTop' = scrollTop
      BY <1>2, <2>1
    <3> QED
      BY <1>3, <3>1, <3>2, <3>3
  <2> QED
    BY <2>2, <2>3
<1>12. ASSUME ~crossed', ~event' PROVE 2 * Bar!Distance(scrollTop', Bar!Wanted') <= RowHeight
  BY <1>4, <1>10, <1>11, <1>12, BarAssumption DEF Bar!Distance
<1>13. event' => barShown'
  BY <1>2, <1>3
<1>14. (2 * Bar!Distance(scrollTop, Bar!Wanted) <= RowHeight)' = (2 * Bar!Distance(scrollTop', Bar!Wanted') <= RowHeight)
  BY DEF Bar!Distance
<1> QED
  BY <1>1, <1>3, <1>9, <1>10, <1>11, <1>12, <1>13, <1>14 DEF BarInv

LEMMA BarHidden == BarInv /\ (Bar!Hide \/ Bar!Show) => BarInv'
<1> SUFFICES ASSUME BarInv, Bar!Hide \/ Bar!Show PROVE BarInv'
  OBVIOUS
<1>1. CASE Bar!Hide
  <2>1. /\ UNCHANGED <<barLength, barYdisp, barUser, scrollTop, area, event, recordedLength, lastScrollTop,
                        refreshing, ignoreNext, crossed>>
        /\ barShown' \in BOOLEAN /\ ~event
    BY <1>1 DEF Bar!Hide, Bar!bufferVars
  <2> QED
    BY <2>1 DEF BarInv, BarTypes, Bar!Wanted, Bar!Lowest, Bar!Distance
<1>2. CASE Bar!Show
  <2>1. /\ UNCHANGED <<barLength, barYdisp, barUser, area, recordedLength, lastScrollTop, refreshing, ignoreNext,
                        crossed>>
        /\ barShown' = TRUE /\ scrollTop' \in {scrollTop, 0} /\ event' = (scrollTop' # scrollTop) /\ ~barShown
    BY <1>2 DEF Bar!Show, Bar!bufferVars
  <2>2. ~event /\ (ignoreNext => crossed)
    BY <2>1 DEF BarInv, BarTypes
  <2>3. scrollTop' \in Nat /\ scrollTop' <= Bar!Lowest(area)
    BY <2>1, LowestParts DEF BarInv, BarTypes
  <2>4. BarTypes'
    BY <2>1, <2>3 DEF BarInv, BarTypes, Bar!Lowest
  <2>5. ~event' => scrollTop' = scrollTop
    BY <2>1
  <2> QED
    BY <2>1, <2>2, <2>4, <2>5 DEF BarInv, Bar!Wanted, Bar!Distance
<1> QED
  BY <1>1, <1>2

LEMMA BarNext == BarInv /\ Bar!ScrollbarNext => BarInv'
<1> SUFFICES ASSUME BarInv, Bar!ScrollbarNext PROVE BarInv'
  OBVIOUS
<1>1. ASSUME NEW amount \in {-BarRows, BarRows, Bar!ybase - barYdisp}, Bar!ScrollByKey(amount) PROVE BarInv'
  <2>1. amount \in Int
    BY BarAssumption DEF BarInv, BarTypes, Bar!ybase
  <2> QED
    BY <1>1, <2>1, BarByKey
<1>2. ASSUME NEW amount \in {-1, 1, -RowHeight, RowHeight}, Bar!Wheel(amount) PROVE BarInv'
  <2>1. amount \in Int
    BY BarAssumption
  <2> QED
    BY <1>2, <2>1, BarWheel
<1> QED
  BY <1>1, <1>2, BarOutput, BarClear, BarEvent, BarRefresh, BarHidden DEF Bar!ScrollbarNext

-----------------------------------------------------------------------------
(* Keys.                                                                   *)

LEMMA CodesApart ==
  ASSUME NEW c \in Nat
  PROVE  /\ c \in Keys!ArrowKeys => c \notin {0} \cup Keys!ControlKeys \cup Keys!EditKeys \cup Keys!FunctionKeys
         /\ c \in Keys!EditKeys => c \notin {0} \cup Keys!ControlKeys \cup Keys!ArrowKeys \cup Keys!FunctionKeys
         /\ c \in Keys!FunctionKeys => c \notin {0} \cup Keys!ControlKeys \cup Keys!ArrowKeys \cup Keys!EditKeys
         /\ c = 32 \/ (c >= 48 /\ c < 112) \/ c > 123 =>
                c \notin {0} \cup Keys!ControlKeys \cup Keys!ArrowKeys \cup Keys!EditKeys \cup Keys!FunctionKeys
BY DEF Keys!ControlKeys, Keys!ArrowKeys, Keys!EditKeys, Keys!FunctionKeys

(* A key that types a sign is none of those with a name.                   *)
Ordinary(key) ==
    /\ key.code \in Nat /\ key.single \in BOOLEAN
    /\ key.single => /\ key.code \notin Keys!ControlKeys \cup Keys!SpecialKeys \cup {0}
                     /\ key.code >= 48 \/ (key.code = 32 /\ key.name = " ")

LEMMA TypingOrdinary ==
  ASSUME NEW code \in Nat, NEW name, (code >= 48 /\ code < 112) \/ code > 123
  PROVE  Ordinary(Typing(code, name))
<1>1. Typing(code, name).code = code /\ Typing(code, name).single = TRUE
  BY DEF Typing
<1>2. code \notin Keys!ControlKeys \cup Keys!SpecialKeys \cup {0} /\ code >= 48
  BY CodesApart DEF Keys!SpecialKeys
<1> QED
  BY <1>1, <1>2, Zenon DEF Ordinary

LEMMA SpaceOrdinary == Ordinary(Typing(32, " "))
<1>1. \A name : Typing(32, name).code = 32 /\ Typing(32, name).single = TRUE /\ Typing(32, name).name = name
  BY DEF Typing
<1>2. 32 \notin Keys!ControlKeys \cup Keys!SpecialKeys \cup {0} /\ 32 \in Nat
  BY CodesApart DEF Keys!SpecialKeys
<1> QED
  BY <1>1, <1>2, Zenon DEF Ordinary

LEMMA KeyParts == \A key \in MCKeys : Ordinary(key)
<1> SUFFICES ASSUME NEW key \in MCKeys PROVE Ordinary(key)
  OBVIOUS
<1>1. ASSUME NEW code \in {8, 9, 13, 16, 27, 33, 34, 35, 36, 37, 38, 39, 40, 45, 46} \cup 112..123
      PROVE  Ordinary(Special(code))
  <2>1. code \in Nat
    BY <1>1
  <2> QED
    BY <2>1 DEF Special, Ordinary
<1>2. \A name : Ordinary([Special(0) EXCEPT !.name = name])
  BY DEF Special, Ordinary
<1>3. /\ Ordinary(Typing(50, "2")) /\ Ordinary(Typing(51, "3")) /\ Ordinary(Typing(56, "8"))
      /\ Ordinary(Typing(65, "a")) /\ Ordinary(Typing(90, "z")) /\ Ordinary(Typing(189, "_"))
      /\ Ordinary(Typing(219, "[")) /\ Ordinary(Typing(226, "<"))
  <2>1. \A name : /\ Ordinary(Typing(50, name)) /\ Ordinary(Typing(51, name)) /\ Ordinary(Typing(56, name))
                  /\ Ordinary(Typing(65, name)) /\ Ordinary(Typing(90, name)) /\ Ordinary(Typing(189, name))
                  /\ Ordinary(Typing(219, name)) /\ Ordinary(Typing(226, name))
    BY TypingOrdinary
  <2> QED
    BY <2>1
<1> DEFINE Codes == {8, 9, 13, 16, 27, 33, 34, 35, 36, 37, 38, 39, 40, 45, 46} \cup 112..123
           Names == {"UIKeyInputUpArrow", "UIKeyInputLeftArrow", "UIKeyInputRightArrow", "UIKeyInputDownArrow"}
           Signs == {Typing(32, " "), Typing(50, "2"), Typing(51, "3"), Typing(56, "8"), Typing(65, "a"),
                     Typing(90, "z"), Typing(189, "_"), Typing(219, "["), Typing(226, "<")}
<1>4. \A code \in Codes : Ordinary(Special(code))
  BY <1>1
<1>5. \A sign \in Signs : Ordinary(sign)
  <2> SUFFICES ASSUME NEW sign \in Signs PROVE Ordinary(sign)
    OBVIOUS
  <2>1. \/ sign = Typing(32, " ") \/ sign = Typing(50, "2") \/ sign = Typing(51, "3") \/ sign = Typing(56, "8")
        \/ sign = Typing(65, "a") \/ sign = Typing(90, "z") \/ sign = Typing(189, "_") \/ sign = Typing(219, "[")
        \/ sign = Typing(226, "<")
    BY Zenon
  <2> QED
    BY <1>3, <2>1, SpaceOrdinary
<1>6. MCKeys = {Special(code) : code \in Codes} \cup {[Special(0) EXCEPT !.name = name] : name \in Names} \cup Signs
  BY Zenon DEF MCKeys
<1> HIDE DEF Codes, Names, Signs
<1>7. \/ \E code \in Codes : key = Special(code)
      \/ \E name \in Names : key = [Special(0) EXCEPT !.name = name]
      \/ key \in Signs
  BY <1>6
<1> QED
  BY <1>2, <1>4, <1>5, <1>7, Zenon

LEMMA EventParts ==
  ASSUME NEW ev \in Keys!Events
  PROVE  /\ ev.code \in Nat /\ ev.single \in BOOLEAN /\ ev.shift \in BOOLEAN /\ ev.alt \in BOOLEAN
         /\ ev.ctrl \in BOOLEAN /\ ev.meta \in BOOLEAN
         /\ Ordinary(ev)
         /\ ev.single => /\ ev.code \notin Keys!ControlKeys \cup Keys!SpecialKeys \cup {0}
                         /\ ev.code >= 48 \/ (ev.code = 32 /\ ev.name = " ")
<1>1. PICK key \in MCKeys, m \in [1..4 -> BOOLEAN] : ev = Keys!Event(key, m)
  BY DEF Keys!Events
<1>2. /\ ev.code = key.code /\ ev.single = key.single /\ ev.name = key.name
      /\ ev.shift = m[1] /\ ev.alt = m[2] /\ ev.ctrl = m[3] /\ ev.meta = m[4]
  BY <1>1 DEF Keys!Event
<1>3. m[1] \in BOOLEAN /\ m[2] \in BOOLEAN /\ m[3] \in BOOLEAN /\ m[4] \in BOOLEAN
  OBVIOUS
<1>4. Ordinary(key)
  BY KeyParts
<1>5. Ordinary(ev)
  BY <1>2, <1>4, Zenon DEF Ordinary
<1> QED
  BY <1>2, <1>3, <1>5, Zenon DEF Ordinary

(* The key that a text stands for, and the modifier keys it tells.         *)
FinalCode(final) ==
    CASE final = "A" -> 38 [] final = "B" -> 40 [] final = "C" -> 39 [] final = "D" -> 37
      [] final = "H" -> 36 [] final = "F" -> 35
      [] final = "P" -> 112 [] final = "Q" -> 113 [] final = "R" -> 114 [] OTHER -> 115
NumberCode(n) ==
    CASE n = 2 -> 45 [] n = 3 -> 46 [] n = 5 -> 33 [] n = 6 -> 34
      [] n = 15 -> 116 [] n = 17 -> 117 [] n = 18 -> 118 [] n = 19 -> 119
      [] n = 20 -> 120 [] n = 21 -> 121 [] n = 23 -> 122 [] OTHER -> 123
CodeOf(text) ==
    CASE text[1] = "SS3" -> FinalCode(text[2])
      [] text[1] = "ESC" -> IF text[2] = 98 THEN 37 ELSE 39
      [] text[1] = "CSI" /\ text[4] = "~" -> NumberCode(text[2])
      [] OTHER -> FinalCode(text[4])
ToldBy(text) ==
    CASE text[1] = "SS3" -> 0
      [] text[1] = "ESC" -> 2
      [] OTHER -> IF text[3] = 0 THEN 0 ELSE text[3] - 1

Tells(text, ev) == CodeOf(text) = ev.code /\ ToldBy(text) = Keys!Told(ev)

LEMMA SS3Tells == \A final : /\ CodeOf(Keys!SS3(final)) = FinalCode(final)
                             /\ ToldBy(Keys!SS3(final)) = 0
BY DEF CodeOf, ToldBy, Keys!SS3

LEMMA CSITells ==
  \A x, y, final : /\ CodeOf(Keys!CSI(x, y, final)) = IF final = "~" THEN NumberCode(x) ELSE FinalCode(final)
                   /\ ToldBy(Keys!CSI(x, y, final)) = IF y = 0 THEN 0 ELSE y - 1
BY DEF CodeOf, ToldBy, Keys!CSI

LEMMA ESCTells == \A n : /\ CodeOf(<<"ESC", n>>) = IF n = 98 THEN 37 ELSE 39
                         /\ ToldBy(<<"ESC", n>>) = 2
BY DEF CodeOf, ToldBy

LEMMA ModifierParts ==
  ASSUME NEW ev \in Keys!Events PROVE Keys!Modifiers(ev) \in 0..15
<1> DEFINE s == IF ev.shift THEN 1 ELSE 0
           l == IF ev.alt THEN 2 ELSE 0
           c == IF ev.ctrl THEN 4 ELSE 0
           t == IF ev.meta THEN 8 ELSE 0
<1>1. Keys!Modifiers(ev) = s + l + c + t
  BY DEF Keys!Modifiers
<1>2. s \in {0, 1} /\ l \in {0, 2} /\ c \in {0, 4} /\ t \in {0, 8}
  OBVIOUS
<1> HIDE DEF s, l, c, t
<1> QED
  BY <1>1, <1>2

LEMMA ArrowTells ==
  ASSUME NEW ev \in Keys!Events, ev.code \in Keys!ArrowKeys
  PROVE  Tells(Keys!ArrowKey(ev).key, ev)
<1> DEFINE m == Keys!Modifiers(ev)
           final == Keys!ArrowFinal[ev.code]
<1>1. m \in 0..15
  BY ModifierParts
<1>2. ev.code \in {37, 38, 39, 40}
  BY DEF Keys!ArrowKeys
<1>3. /\ ev.code = 37 => final = "D" 
      /\ ev.code = 38 => final = "A"
      /\ ev.code = 39 => final = "C" 
      /\ ev.code = 40 => final = "B"
  BY <1>2 DEF Keys!ArrowFinal, Keys!ArrowKeys
<1>4. FinalCode(final) = ev.code /\ final # "~"
  BY <1>2, <1>3 DEF FinalCode
<1>5. Keys!ArrowKey(ev).key =
        IF m = 2 THEN (IF isMac /\ final = "D" THEN <<"ESC", 98>>
                       ELSE IF isMac /\ final = "C" THEN <<"ESC", 102>> ELSE Keys!CSI(1, 5, final))
        ELSE IF m # 0 THEN Keys!CSI(1, m + 1, final)
        ELSE IF applicationCursor THEN Keys!SS3(final) ELSE Keys!CSI(0, 0, final)
  BY DEF Keys!ArrowKey, Keys!Sends
<1>6. Keys!Told(ev) = IF m = 2 /\ ~(isMac /\ ev.code \in {37, 39}) THEN 4 ELSE m
  BY <1>2 DEF Keys!Told, Keys!ArrowKeys
<1> HIDE DEF m, final
<1>7. CASE m = 2
  <2>1. CASE isMac /\ final = "D"
    BY <1>2, <1>3, <1>5, <1>6, <1>7, <2>1, ESCTells DEF Tells
  <2>2. CASE isMac /\ final = "C"
    BY <1>2, <1>3, <1>5, <1>6, <1>7, <2>2, ESCTells DEF Tells
  <2>3. CASE ~(isMac /\ final \in {"C", "D"})
    <3>1. Keys!ArrowKey(ev).key = Keys!CSI(1, 5, final) /\ Keys!Told(ev) = 4
      BY <1>2, <1>3, <1>5, <1>6, <1>7, <2>3
    <3> QED
      BY <1>4, <3>1, CSITells DEF Tells
  <2> QED
    BY <2>1, <2>2, <2>3
<1>8. CASE m # 2 /\ m # 0
  BY <1>1, <1>4, <1>5, <1>6, <1>8, CSITells DEF Tells
<1>9. CASE m = 0
  BY <1>4, <1>5, <1>6, <1>9, CSITells, SS3Tells DEF Tells
<1> QED
  BY <1>7, <1>8, <1>9

LEMMA EditTells ==
  ASSUME NEW ev \in Keys!Events, ev.code \in Keys!EditKeys, Keys!EditKey(ev).key # Keys!NoKey
  PROVE  Tells(Keys!EditKey(ev).key, ev)
<1> DEFINE m == Keys!Modifiers(ev)
           final == IF ev.code = 36 THEN "H" ELSE "F"
<1>1. m \in 0..15 /\ ev.code \in {45, 46, 36, 35, 33, 34}
  BY ModifierParts DEF Keys!EditKeys
<1>2. Keys!Told(ev) = IF ev.code \in {45, 33, 34} THEN 0 ELSE m
  BY <1>1 DEF Keys!Told, Keys!ArrowKeys
<1>3. ev.code \in {35, 36} => FinalCode(final) = ev.code /\ final # "~"
  BY DEF FinalCode
<1>4. /\ NumberCode(2) = 45 /\ NumberCode(3) = 46 /\ NumberCode(5) = 33 /\ NumberCode(6) = 34
  BY DEF NumberCode
<1>5. CASE ev.code = 45
  <2>1. Keys!EditKey(ev).key = Keys!CSI(2, 0, "~")
    BY <1>5 DEF Keys!EditKey, Keys!Sends
  <2> QED
    BY <1>2, <1>4, <1>5, <2>1, CSITells DEF Tells
<1>6. CASE ev.code = 46
  <2>1. Keys!EditKey(ev).key = Keys!CSI(3, IF m = 0 THEN 0 ELSE m + 1, "~")
    BY <1>6 DEF Keys!EditKey, Keys!Sends
  <2> HIDE DEF m
  <2> QED
    BY <1>1, <1>2, <1>4, <1>6, <2>1, CSITells DEF Tells
<1>7. CASE ev.code \in {35, 36}
  <2>1. Keys!EditKey(ev).key = IF m # 0 THEN Keys!CSI(1, m + 1, final)
                               ELSE IF applicationCursor THEN Keys!SS3(final) ELSE Keys!CSI(0, 0, final)
    BY <1>7 DEF Keys!EditKey, Keys!Sends
  <2> HIDE DEF m, final
  <2> QED
    BY <1>1, <1>2, <1>3, <1>7, <2>1, CSITells, SS3Tells DEF Tells
<1>8. CASE ev.code \in {33, 34}
  <2>1. Keys!EditKey(ev).key = Keys!CSI(IF ev.code = 33 THEN 5 ELSE 6, 0, "~")
    BY <1>8 DEF Keys!EditKey, Keys!Sends
  <2> QED
    BY <1>2, <1>4, <1>8, <2>1, CSITells DEF Tells
<1> QED
  BY <1>1, <1>5, <1>6, <1>7, <1>8

LEMMA FunctionTells ==
  ASSUME NEW ev \in Keys!Events, ev.code \in Keys!FunctionKeys
  PROVE  Tells(Keys!FunctionKey(ev).key, ev)
<1> DEFINE m == Keys!Modifiers(ev)
           n == Keys!FunctionNumber[ev.code - 111]
<1>1. m \in 0..15 /\ ev.code \in 112..123
  BY ModifierParts DEF Keys!FunctionKeys
<1>2. Keys!Told(ev) = m
  BY <1>1 DEF Keys!Told, Keys!ArrowKeys
<1>3. Keys!FunctionKey(ev).key =
        IF ev.code <= 115 THEN (IF m = 0 THEN Keys!SS3(n) ELSE Keys!CSI(1, m + 1, n))
        ELSE Keys!CSI(n, IF m = 0 THEN 0 ELSE m + 1, "~")
  BY DEF Keys!FunctionKey, Keys!Sends
<1>4. ev.code <= 115 => FinalCode(n) = ev.code /\ n # "~"
  <2>1. SUFFICES ASSUME ev.code <= 115 PROVE FinalCode(n) = ev.code /\ n # "~"
    OBVIOUS
  <2>2. ev.code - 111 \in {1, 2, 3, 4}
    BY <1>1, <2>1
  <2>3. CASE ev.code - 111 = 1
    BY <1>1, <2>3 DEF FinalCode, Keys!FunctionNumber
  <2>4. CASE ev.code - 111 = 2
    BY <1>1, <2>4 DEF FinalCode, Keys!FunctionNumber
  <2>5. CASE ev.code - 111 = 3
    BY <1>1, <2>5 DEF FinalCode, Keys!FunctionNumber
  <2>6. CASE ev.code - 111 = 4
    BY <1>1, <2>6 DEF FinalCode, Keys!FunctionNumber
  <2> QED
    BY <2>2, <2>3, <2>4, <2>5, <2>6
<1>5. ev.code > 115 => NumberCode(n) = ev.code
  <2>1. SUFFICES ASSUME ev.code > 115 PROVE NumberCode(n) = ev.code
    OBVIOUS
  <2>2. ev.code - 111 \in {5, 6, 7, 8, 9, 10, 11, 12} /\ ev.code = (ev.code - 111) + 111
    BY <1>1, <2>1
  <2>3. n = <<15, 17, 18, 19, 20, 21, 23, 24>>[ev.code - 115]
    BY <2>2 DEF Keys!FunctionNumber
  <2>4. ev.code - 115 \in {1, 2, 3, 4, 5, 6, 7, 8}
    BY <2>2
  <2> HIDE DEF n
  <2> QED
    BY <2>2, <2>3, <2>4 DEF NumberCode
<1> HIDE DEF m, n
<1>6. CASE ev.code <= 115
  BY <1>1, <1>2, <1>3, <1>4, <1>6, CSITells, SS3Tells DEF Tells
<1>7. CASE ev.code > 115
  BY <1>1, <1>2, <1>3, <1>5, <1>7, CSITells DEF Tells
<1> QED
  BY <1>1, <1>6, <1>7

LEMMA SpecialTells ==
  ASSUME NEW ev \in Keys!Events, ev.code \in Keys!SpecialKeys, Keys!KeyDown(ev).sent # <<>>
  PROVE  Tells(Keys!KeyDown(ev).sent[1], ev)
<1> DEFINE result == Keys!evaluateKeyboardEvent(ev)
<1>1. Keys!KeyDown(ev).sent = <<result.key>> /\ result.key # Keys!NoKey
  <2> HIDE DEF result
  <2>1. Keys!KeyDown(ev).sent = IF ~(result.type \in {Keys!PageUp, Keys!PageDown}) /\ ~Keys!IsThirdLevelShift(ev, FALSE)
                                    /\ result.key # Keys!NoKey
                                THEN <<result.key>> ELSE <<>>
    BY DEF Keys!KeyDown, result
  <2> QED
    BY <2>1
<1>2. ev.code \in Nat
  BY EventParts
<1>3. CASE ev.code \in Keys!ArrowKeys
  <2>1. ev.code \notin {0} \cup Keys!ControlKeys \cup Keys!EditKeys \cup Keys!FunctionKeys
    BY <1>2, <1>3, CodesApart
  <2>2. result = Keys!ArrowKey(ev)
    BY <1>3, <2>1 DEF Keys!evaluateKeyboardEvent
  <2> QED
    BY <1>1, <1>3, <2>2, ArrowTells
<1>4. CASE ev.code \in Keys!EditKeys
  <2>1. ev.code \notin {0} \cup Keys!ControlKeys \cup Keys!ArrowKeys \cup Keys!FunctionKeys
    BY <1>2, <1>4, CodesApart
  <2>2. result = Keys!EditKey(ev)
    BY <1>4, <2>1 DEF Keys!evaluateKeyboardEvent
  <2> QED
    BY <1>1, <1>4, <2>2, EditTells
<1>5. CASE ev.code \in Keys!FunctionKeys
  <2>1. ev.code \notin {0} \cup Keys!ControlKeys \cup Keys!ArrowKeys \cup Keys!EditKeys
    BY <1>2, <1>5, CodesApart
  <2>2. result = Keys!FunctionKey(ev)
    BY <1>5, <2>1 DEF Keys!evaluateKeyboardEvent
  <2> QED
    BY <1>1, <1>5, <2>2, FunctionTells
<1> QED
  BY <1>3, <1>4, <1>5 DEF Keys!SpecialKeys

(* A key that types a sign, held with no other modifier key than Shift.    *)
Plain(ev) == ev.single /\ ~ev.ctrl /\ ~ev.alt /\ ~ev.meta
Third(ev) == ev.single /\ Keys!IsThirdLevelShift(ev, TRUE)

LEMMA OnceSent ==
  ASSUME NEW ev \in Keys!Events
  PROVE  LET result == Keys!evaluateKeyboardEvent(ev)
         IN  /\ Keys!KeyDown(ev).sent # <<>> => Keys!KeyDown(ev).prevented /\ Keys!KeyDown(ev).sent = <<result.key>>
             /\ Keys!KeyDown(ev).prevented =>
                    \/ Keys!KeyDown(ev).sent # <<>>
                    \/ result.type \in {Keys!PageUp, Keys!PageDown}
                    \/ result.cancel
<1> DEFINE result == Keys!evaluateKeyboardEvent(ev)
           third == Keys!IsThirdLevelShift(ev, FALSE)
           turns == result.type \in {Keys!PageUp, Keys!PageDown}
           sends == ~turns /\ ~third /\ result.key # Keys!NoKey
<1>1. /\ Keys!KeyDown(ev).sent = IF sends THEN <<result.key>> ELSE <<>>
      /\ Keys!KeyDown(ev).prevented = (turns \/ Keys!Stops(~third /\ result.cancel, sends))
  BY DEF Keys!KeyDown
<1>2. Keys!Stops(~third /\ result.cancel, sends) = ((~third /\ result.cancel) \/ sends)
  BY DEF Keys!Stops
<1> HIDE DEF third, sends
<1>3. <<result.key>> # <<>>
  OBVIOUS
<1> QED
  BY <1>1, <1>2, <1>3

(* A key that types a sign goes the way of all other keys.                 *)
LEMMA TypingKey ==
  ASSUME NEW ev \in Keys!Events, ev.single
  PROVE  /\ Keys!evaluateKeyboardEvent(ev) = Keys!OtherKey(ev)
         /\ ~(Keys!evaluateKeyboardEvent(ev).type \in {Keys!PageUp, Keys!PageDown})
         /\ Keys!evaluateKeyboardEvent(ev).cancel = FALSE
<1>1. ev.code \notin {0} \cup Keys!ControlKeys \cup Keys!ArrowKeys \cup Keys!EditKeys \cup Keys!FunctionKeys
  BY EventParts DEF Keys!SpecialKeys
<1>2. Keys!evaluateKeyboardEvent(ev) = Keys!OtherKey(ev)
  BY <1>1 DEF Keys!evaluateKeyboardEvent
<1>3. ASSUME NEW r, \/ \E key : r = Keys!Sends(key)
                    \/ \E type \in {Keys!SelectEverything, Keys!SendKey} : r = [Keys!Sends(Keys!NoKey) EXCEPT !.type = type]
      PROVE  r.type \in {Keys!SelectEverything, Keys!SendKey} /\ r.cancel = FALSE
  BY <1>3 DEF Keys!Sends
<1>4. Keys!OtherKey(ev).type \in {Keys!SelectEverything, Keys!SendKey} /\ Keys!OtherKey(ev).cancel = FALSE
  <2> DEFINE m == Keys!Modifiers(ev)
             control == Keys!WithCtrl(ev.code)
             alt == Keys!WithAlt(ev)
             type == IF ev.code = 65 THEN Keys!SelectEverything ELSE Keys!SendKey
             text == IF ev.code >= 48 /\ ev.single THEN Keys!Text(ev.name) ELSE Keys!NoKey
             under == IF m > 4 /\ ev.ctrl /\ ev.name = "_" THEN Keys!C0(31) ELSE Keys!NoKey
  <2>1. Keys!OtherKey(ev) =
          CASE m = 4 -> Keys!Sends(control)
            [] ev.alt /\ ~ev.meta /\ (~isMac \/ macOptionIsMeta) -> Keys!Sends(alt)
            [] isMac /\ m \in {8, 9} -> [Keys!Sends(Keys!NoKey) EXCEPT !.type = type]
            [] m \in {0, 1} -> Keys!Sends(text)
            [] OTHER -> Keys!Sends(under)
    BY DEF Keys!OtherKey
  <2>2. type \in {Keys!SelectEverything, Keys!SendKey}
    OBVIOUS
  <2> HIDE DEF m, control, alt, type, text, under
  <2>3. \/ Keys!OtherKey(ev) \in {Keys!Sends(control), Keys!Sends(alt), Keys!Sends(text), Keys!Sends(under)}
        \/ Keys!OtherKey(ev) = [Keys!Sends(Keys!NoKey) EXCEPT !.type = type]
    BY <2>1
  <2> QED
    BY <1>3, <2>2, <2>3
<1>5. /\ Keys!SendKey \notin {Keys!PageUp, Keys!PageDown}
      /\ Keys!SelectEverything \notin {Keys!PageUp, Keys!PageDown}
  BY DEF Keys!SendKey, Keys!SelectEverything, Keys!PageUp, Keys!PageDown
<1> QED
  BY <1>2, <1>4, <1>5

(* Pressed alone it is sent by keydown or, a space, by keypress.           *)
LEMMA PlainSent ==
  ASSUME NEW ev \in Keys!Events, Plain(ev)
  PROVE  \/ Keys!KeyDown(ev).sent = <<Keys!Text(ev.name)>>
         \/ ~Keys!KeyDown(ev).prevented
<1> DEFINE m == Keys!Modifiers(ev)
<1>1. m \in {0, 1}
  <2> DEFINE s == IF ev.shift THEN 1 ELSE 0
  <2>1. m = s + 0 + 0 + 0
    BY DEF Plain, Keys!Modifiers
  <2>2. s \in {0, 1}
    OBVIOUS
  <2> HIDE DEF s, m
  <2> QED
    BY <2>1, <2>2
<1>2. Keys!OtherKey(ev) = Keys!Sends(IF ev.code >= 48 /\ ev.single THEN Keys!Text(ev.name) ELSE Keys!NoKey)
  BY <1>1 DEF Keys!OtherKey, Plain
<1>3. ~Keys!IsThirdLevelShift(ev, FALSE)
  BY DEF Keys!IsThirdLevelShift, Plain
<1>4. ev.single
  BY DEF Plain
<1>5. Keys!evaluateKeyboardEvent(ev).key = Keys!Text(ev.name) \/ Keys!evaluateKeyboardEvent(ev).key = Keys!NoKey
  <2>1. \A key : Keys!Sends(key).key = key
    BY DEF Keys!Sends
  <2> QED
    BY <1>2, <1>4, <2>1, TypingKey
<1> QED
  BY <1>4, <1>5, OnceSent, TypingKey DEF Keys!KeyDown

(* The third sign of a key is left to keypress.                            *)
LEMMA ThirdSent ==
  ASSUME NEW ev \in Keys!Events, isMac \in BOOLEAN, isWindows \in BOOLEAN, macOptionIsMeta \in BOOLEAN, Third(ev)
  PROVE  ~Keys!KeyDown(ev).prevented /\ Keys!KeyDown(ev).sent = <<>>
<1>1. ev.single /\ ~ev.meta /\ ev.alt
  BY DEF Third, Keys!IsThirdLevelShift
<1>2. ev.code \in Nat /\ (ev.code >= 48 \/ (ev.code = 32 /\ ev.name = " "))
  BY <1>1, EventParts
<1>3. ~(Keys!evaluateKeyboardEvent(ev).type \in {Keys!PageUp, Keys!PageDown})
      /\ Keys!evaluateKeyboardEvent(ev).cancel = FALSE
  BY <1>1, TypingKey
<1>4. Keys!KeyDown(ev).sent = <<>>
  <2>1. CASE ev.code >= 48
    <3>1. ev.code > 47
      <4>1. \A c \in Nat : c >= 48 => c > 47
        OBVIOUS
      <4> QED
        BY <1>2, <2>1, <4>1
    <3>2. Keys!IsThirdLevelShift(ev, FALSE)
      BY <3>1 DEF Third, Keys!IsThirdLevelShift
    <3> QED
      BY <3>2 DEF Keys!KeyDown
  <2>2. CASE ev.code = 32 /\ ev.name = " "
    <3> DEFINE m == Keys!Modifiers(ev)
    <3>1. m \in {2, 3, 6, 7}
      <4> DEFINE s == IF ev.shift THEN 1 ELSE 0
                 c == IF ev.ctrl THEN 4 ELSE 0
      <4>1. m = s + 2 + c + 0
        BY <1>1 DEF Keys!Modifiers
      <4>2. s \in {0, 1} /\ c \in {0, 4}
        OBVIOUS
      <4> HIDE DEF s, c, m
      <4> QED
        BY <4>1, <4>2
    <3>2. Keys!WithAlt(ev) = Keys!NoKey
      <4>1. ev.code \notin Keys!MappedCodes /\ ~Keys!Letter(ev.code)
        <5>1. 32 \notin Keys!MappedCodes /\ ~Keys!Letter(32)
          BY DEF Keys!MappedCodes, Keys!Letter
        <5> QED
          BY <2>2, <5>1
      <4> QED
        BY <4>1 DEF Keys!WithAlt
    <3>3. ev.name # "_"
      BY <2>2
    <3> HIDE DEF m
    <3>4. Keys!OtherKey(ev).key = Keys!NoKey
      <4>1. m \notin {0, 1} /\ m # 4 /\ m \notin {8, 9}
        BY <3>1
      <4>2. \/ Keys!OtherKey(ev) = Keys!Sends(Keys!WithAlt(ev))
            \/ Keys!OtherKey(ev) = Keys!Sends(Keys!NoKey)
        BY <3>3, <4>1 DEF Keys!OtherKey, m
      <4> QED
        BY <3>2, <4>2 DEF Keys!Sends
    <3> QED
      BY <1>1, <3>4, TypingKey DEF Keys!KeyDown
  <2> QED
    BY <1>2, <2>1, <2>2
<1> QED
  BY <1>3, <1>4, OnceSent

-----------------------------------------------------------------------------
(* What was sent for the key that is down.                                 *)
Sent(ev, keys) ==
    /\ ev \in Keys!Events
    /\ Len(keys) <= 1
    /\ Plain(ev) \/ Third(ev) => keys = <<Keys!Text(ev.name)>>
    /\ ev.code \in Keys!SpecialKeys /\ keys # <<>> => Tells(keys[1], ev)

KeysInv ==
    /\ isMac \in BOOLEAN /\ isWindows \in BOOLEAN /\ macOptionIsMeta \in BOOLEAN
    /\ pressed # Keys!NoPress => Sent(pressed[1], pressed[2])

LEMMA InitKeys == Keys!KeyboardInit => KeysInv
BY DEF Keys!KeyboardInit, KeysInv

LEMMA PressSends ==
  ASSUME KeysInv, NEW ev \in Keys!Events
  PROVE  Sent(ev, Keys!KeyDown(ev).sent \o (IF ~Keys!KeyDown(ev).prevented /\ Keys!Types(ev) THEN Keys!KeyPress(ev)
                                            ELSE <<>>))
<1> DEFINE down == Keys!KeyDown(ev)
           more == IF ~down.prevented /\ Keys!Types(ev) THEN Keys!KeyPress(ev) ELSE <<>>
           typed == <<Keys!Text(ev.name)>>
<1>1. isMac \in BOOLEAN /\ isWindows \in BOOLEAN /\ macOptionIsMeta \in BOOLEAN
  BY DEF KeysInv
<1>2. \/ down.sent = <<>>
      \/ down.sent = <<Keys!evaluateKeyboardEvent(ev).key>> /\ down.prevented
  BY OnceSent
<1>3. more = <<>> \/ more = typed
  BY DEF Keys!KeyPress
<1>4. down.sent \o more = IF down.sent = <<>> THEN more ELSE down.sent
  <2>1. \A x : <<>> \o <<x>> = <<x>> /\ <<x>> \o <<>> = <<x>> /\ <<x>> # <<>>
    OBVIOUS
  <2>2. <<>> \o <<>> = <<>>
    OBVIOUS
  <2>3. CASE down.sent = <<>>
    <3> HIDE DEF more, down
    <3> QED
      BY <1>3, <2>1, <2>2, <2>3
  <2>4. CASE down.sent = <<Keys!evaluateKeyboardEvent(ev).key>> /\ down.prevented
    <3>1. more = <<>>
      BY <2>4
    <3> HIDE DEF more, down
    <3> QED
      BY <2>1, <2>4, <3>1
  <2> QED
    BY <1>2, <2>3, <2>4
<1>5. Len(down.sent \o more) <= 1
  <2>1. \A x : Len(<<x>>) = 1
    OBVIOUS
  <2>2. Len(<<>>) = 0
    OBVIOUS
  <2> HIDE DEF down, more
  <2> QED
    BY <1>2, <1>3, <1>4, <2>1, <2>2
<1>6. Plain(ev) \/ Third(ev) => Keys!Types(ev) /\ Keys!KeyPress(ev) = typed
  BY <1>1, EventParts DEF Plain, Third, Keys!Types, Keys!KeyPress, Keys!IsThirdLevelShift
<1>7. Plain(ev) => down.sent \o more = typed
  <2>1. SUFFICES ASSUME Plain(ev) PROVE down.sent \o more = typed
    OBVIOUS
  <2>2. ~down.prevented => more = typed
    BY <1>6, <2>1
  <2>3. down.sent = typed \/ ~down.prevented
    BY <2>1, PlainSent
  <2>4. typed # <<>>
    OBVIOUS
  <2> HIDE DEF down, more, typed
  <2> QED
    BY <1>2, <1>4, <2>2, <2>3, <2>4
<1>8. Third(ev) => down.sent \o more = typed
  <2>1. SUFFICES ASSUME Third(ev) PROVE down.sent \o more = typed
    OBVIOUS
  <2>2. ~down.prevented /\ down.sent = <<>>
    BY <1>1, <2>1, ThirdSent
  <2>3. more = typed
    BY <1>6, <2>1, <2>2
  <2> HIDE DEF down, more, typed
  <2> QED
    BY <1>4, <2>2, <2>3
<1>9. ASSUME ev.code \in Keys!SpecialKeys, down.sent \o more # <<>> PROVE Tells((down.sent \o more)[1], ev)
  <2>1. ~ev.single
    BY <1>9, EventParts
  <2>2. more = <<>>
    BY <2>1 DEF Keys!Types
  <2>3. down.sent \o more = down.sent /\ down.sent # <<>>
    <3> HIDE DEF down, more
    <3> QED
      BY <1>4, <1>9, <2>2
  <2>4. Tells(down.sent[1], ev)
    BY <1>9, <2>3, SpecialTells
  <2> QED
    BY <2>3, <2>4
<1> QED
  BY <1>5, <1>7, <1>8, <1>9 DEF Sent

LEMMA KeysNext == KeysInv /\ Keys!KeyboardNext => KeysInv'
<1> SUFFICES ASSUME KeysInv, Keys!KeyboardNext PROVE KeysInv'
  OBVIOUS
<1>1. UNCHANGED <<isMac, isWindows, macOptionIsMeta>>
  BY DEF Keys!KeyboardNext, Keys!Press, Keys!Release, Keys!SetApplicationCursor
<1>3. ASSUME NEW ev \in Keys!Events, Keys!Press(ev) PROVE pressed' # Keys!NoPress /\ Sent(pressed'[1], pressed'[2])
  <2>1. PICK keys : /\ pressed' = <<ev, keys>>
                    /\ keys = Keys!KeyDown(ev).sent \o (IF ~Keys!KeyDown(ev).prevented /\ Keys!Types(ev)
                                                        THEN Keys!KeyPress(ev) ELSE <<>>)
    BY <1>3 DEF Keys!Press
  <2>2. pressed' # <<>> /\ pressed'[1] = ev /\ pressed'[2] = keys
    BY <2>1
  <2> QED
    BY <2>1, <2>2, PressSends DEF Keys!NoPress
<1>4. pressed' # Keys!NoPress => Sent(pressed'[1], pressed'[2])
  <2>1. CASE Keys!Release
    BY <2>1 DEF Keys!Release
  <2>2. CASE \E set \in BOOLEAN : Keys!SetApplicationCursor(set)
    BY <2>2 DEF Keys!SetApplicationCursor, KeysInv
  <2> QED
    BY <1>3, <2>1, <2>2 DEF Keys!KeyboardNext
<1> QED
  BY <1>1, <1>4 DEF KeysInv, Sent, Tells, Third, Keys!IsThirdLevelShift, Keys!Told

LEMMA KeysHold == KeysInv => Keys!TypedOnce /\ Keys!SpecialKeysAreTold
<1> SUFFICES ASSUME KeysInv, pressed # Keys!NoPress PROVE Keys!TypedOnce /\ Keys!SpecialKeysAreTold
  BY DEF Keys!TypedOnce, Keys!SpecialKeysAreTold
<1> DEFINE ev == pressed[1]
<1>1. Sent(ev, pressed[2])
  BY DEF KeysInv
<1>2. Keys!TypedOnce
  BY <1>1 DEF Keys!TypedOnce, Sent, Plain, Third
<1>3. ASSUME ev.code \in Keys!SpecialKeys, NEW other \in Keys!Events, other.code \in Keys!SpecialKeys,
             pressed[2] # <<>>, Keys!KeyDown(other).sent = pressed[2]
      PROVE  other.code = ev.code /\ Keys!Told(other) = Keys!Told(ev)
  <2>1. Tells(pressed[2][1], ev)
    BY <1>1, <1>3 DEF Sent
  <2>2. Tells(pressed[2][1], other)
    BY <1>3, SpecialTells
  <2> QED
    BY <2>1, <2>2 DEF Tells
<1>4. Keys!SpecialKeysAreTold
  BY <1>3 DEF Keys!SpecialKeysAreTold
<1> QED
  BY <1>2, <1>4

-----------------------------------------------------------------------------
(* Input methods.                                                          *)

Waiting == [do : {"end", "send", "diff"}, start : Nat, end : Nat, old : Seq(Nat)]

(* The signs of v after the first m, up to the nth.                        *)
Cut(v, m, n) == SubSeq(v, m + 1, n)

LEMMA CutParts ==
  ASSUME NEW v \in Seq(Nat), NEW m \in Nat, NEW n \in Nat, m <= n, n <= Len(v)
  PROVE  /\ Cut(v, m, n) \in Seq(Nat) /\ Len(Cut(v, m, n)) = n - m
         /\ \A i \in 1..(n - m) : Cut(v, m, n)[i] = v[m + i]
<1>1. Len(v) \in Nat /\ \A i \in 1..Len(v) : v[i] \in Nat
  BY LenProperties, ElementOfSeq
<1>2. \A i \in (m + 1)..n : v[i] \in Nat
  BY <1>1
<1>3. /\ SubSeq(v, m + 1, n) \in Seq(Nat)
      /\ Len(SubSeq(v, m + 1, n)) = IF m + 1 <= n THEN n - (m + 1) + 1 ELSE 0
      /\ \A i \in 1..(n - (m + 1) + 1) : SubSeq(v, m + 1, n)[i] = v[(m + 1) + i - 1]
  BY <1>2, SubSeqProperties, m + 1 \in Int, n \in Int
<1>4. n - (m + 1) + 1 = n - m /\ \A i \in 1..(n - m) : (m + 1) + i - 1 = m + i
  OBVIOUS
<1> QED
  BY <1>3, <1>4 DEF Cut

LEMMA CutEmpty == ASSUME NEW v \in Seq(Nat), NEW m \in Nat, m <= Len(v) PROVE Cut(v, m, m) = <<>>
BY CutParts, EmptySeq, SubSeqEmpty, m + 1 \in Int, m \in Int DEF Cut

(* Two parts that follow each other.                                       *)
LEMMA CutJoined ==
  ASSUME NEW v \in Seq(Nat), NEW m \in Nat, NEW k \in Nat, NEW n \in Nat, m <= k, k <= n, n <= Len(v)
  PROVE  Cut(v, m, k) \o Cut(v, k, n) = Cut(v, m, n)
<1>1. Len(v) \in Nat
  BY LenProperties
<1>2. m + 1 \in 1..(Len(v) + 1) /\ k \in (m + 1 - 1)..Len(v) /\ n \in k..Len(v)
  BY <1>1
<1> QED
  BY <1>2, ConcatAdjacentSubSeq DEF Cut

(* What was there stays when a sign is added.                              *)
LEMMA CutKept ==
  ASSUME NEW v \in Seq(Nat), NEW x \in Nat, NEW m \in Nat, NEW n \in Nat, m <= n, n <= Len(v)
  PROVE  Cut(Append(v, x), m, n) = Cut(v, m, n)
<1> DEFINE w == Append(v, x)
<1>1. Len(v) \in Nat
  BY LenProperties
<1>2. w \in Seq(Nat) /\ Len(w) = Len(v) + 1 /\ \A i \in 1..Len(v) : w[i] = v[i]
  BY <1>1
<1> HIDE DEF w
<1>3. /\ Cut(w, m, n) \in Seq(Nat) /\ Len(Cut(w, m, n)) = n - m
      /\ \A i \in 1..(n - m) : Cut(w, m, n)[i] = w[m + i]
  <2>1. n <= Len(w)
    BY <1>1, <1>2
  <2> QED
    BY <1>2, <2>1, CutParts
<1>4. /\ Cut(v, m, n) \in Seq(Nat) /\ Len(Cut(v, m, n)) = n - m
      /\ \A i \in 1..(n - m) : Cut(v, m, n)[i] = v[m + i]
  BY CutParts
<1>5. \A i \in 1..(n - m) : w[m + i] = v[m + i]
  <2>1. \A i \in 1..(n - m) : m + i \in 1..Len(v)
    BY <1>1
  <2> QED
    BY <1>2, <2>1
<1>6. Cut(w, m, n) = Cut(v, m, n)
  BY <1>3, <1>4, <1>5, SeqEqual
<1> QED
  BY <1>6 DEF w

LEMMA WaitingParts == /\ Typed!End \in Waiting /\ Typed!End.do = "end"
                      /\ \A p \in [start : Nat, end : Nat] :
                            /\ Typed!Send(p) \in Waiting /\ Typed!Send(p).do = "send"
                            /\ Typed!Send(p).start = p.start /\ Typed!Send(p).end = p.end
                      /\ \A old \in Seq(Nat) :
                            Typed!Diff(old) \in Waiting /\ Typed!Diff(old).do = "diff" /\ Typed!Diff(old).old = old
BY EmptySeq DEF Waiting, Typed!End, Typed!Send, Typed!Diff

Texts3 ==
    /\ value \in Seq(Nat) /\ meant \in Seq(Nat) /\ sent \in Seq(Nat) /\ signs \in Nat
    /\ putOff \in Seq(Waiting) /\ position \in [start : Nat, end : Nat] /\ late \in BOOLEAN

(* Nothing is to be sent; what is put off does nothing that matters.       *)
Idle ==
    /\ isComposing = FALSE /\ composed = Typed!NotComposing /\ isSendingComposition = FALSE /\ late = FALSE
    /\ meant = sent
    /\ \A i \in 1..Len(putOff) : putOff[i].do = "end" \/ (putOff[i].do = "send" /\ i = Len(putOff))

(* A sign came without being composed, and is to be found.                 *)
Inserted ==
    /\ isComposing = FALSE /\ composed = Typed!NotComposing /\ isSendingComposition = FALSE /\ late = FALSE
    /\ Len(putOff) = 1 /\ putOff[1].do = "diff"
    /\ \E x \in Nat : value = Append(putOff[1].old, x) /\ meant = Append(sent, x)

(* Signs are composed, and all before were sent.                           *)
Composing ==
    /\ isComposing = TRUE /\ isSendingComposition = FALSE /\ late = FALSE
    /\ meant = sent
    /\ composed \in 1..Len(value) /\ position.start = Len(value) - composed
    /\ (\A i \in 1..Len(putOff) : putOff[i].do # "end") => position.end = Len(value)
    /\ \A i \in 1..Len(putOff) :
            \/ putOff[i].do = "end"
            \/ putOff[i].do = "diff" /\ (i = 1 \/ (i = 2 /\ putOff[1].do = "send"))
            \/ putOff[i].do = "send" /\ i = 1 /\ Len(putOff) >= 2 /\ putOff[2].do = "diff"

(* Composed signs are to be sent, from the nth on that waits.              *)
ToSend(n) == /\ putOff[n].start <= Len(value)
             /\ meant = sent \o Cut(value, putOff[n].start, Len(value))
Sending ==
    /\ isComposing = FALSE /\ composed = Typed!NotComposing /\ isSendingComposition = TRUE
    /\ Len(putOff) >= 1 /\ putOff[Len(putOff)].do = "send"
    /\ \A i \in 1..Len(putOff) : i # Len(putOff) => putOff[i].do = "end"
    /\ ToSend(Len(putOff))
    /\ late = FALSE => /\ Len(putOff) = 1
                       /\ position.start = putOff[1].start /\ position.end = putOff[1].end
                       /\ position.end = Len(value)

(* They are to be sent, and more are composed.                             *)
Both ==
    /\ isComposing = TRUE /\ isSendingComposition = TRUE /\ late = FALSE
    /\ Len(putOff) >= 2 /\ putOff[1].do = "send"
    /\ \A i \in 1..Len(putOff) : i # 1 => putOff[i].do = "end"
    /\ composed \in 1..Len(value) /\ position.start = Len(value) - composed
    /\ putOff[1].end = Len(value) - composed /\ putOff[1].start <= putOff[1].end
    /\ meant = sent \o Cut(value, putOff[1].start, putOff[1].end)

(* They are to be sent with those composed since.                          *)
Twice ==
    /\ isComposing = FALSE /\ composed = Typed!NotComposing /\ isSendingComposition = TRUE /\ late = TRUE
    /\ Len(putOff) >= 3 /\ putOff[1].do = "send" /\ putOff[Len(putOff)].do = "send"
    /\ \A i \in 1..Len(putOff) : i # 1 /\ i # Len(putOff) => putOff[i].do = "end"
    /\ ToSend(1)

Phases == Idle \/ Inserted \/ Composing \/ Sending \/ Both \/ Twice
ComposedInv == hurried \in BOOLEAN /\ (~hurried => Texts3 /\ Phases)

LEMMA InitComposed == Typed!CompositionInit => ComposedInv
<1> SUFFICES ASSUME Typed!CompositionInit PROVE ComposedInv
  OBVIOUS
<1>1. \A S : <<>> \in Seq(S) /\ Len(<<>>) = 0
  BY EmptySeq
<1>2. Texts3
  BY <1>1 DEF Typed!CompositionInit, Texts3
<1>3. Idle
  BY <1>1 DEF Typed!CompositionInit, Idle
<1> QED
  BY <1>2, <1>3 DEF Typed!CompositionInit, ComposedInv, Phases

LEMMA TextParts ==
  ASSUME Texts3
  PROVE  /\ Len(value) \in Nat /\ Len(putOff) \in Nat /\ DOMAIN putOff = 1..Len(putOff)
         /\ Len(meant) \in Nat /\ Len(sent) \in Nat
         /\ \A i \in 1..Len(putOff) : /\ putOff[i] \in Waiting /\ putOff[i].start \in Nat /\ putOff[i].end \in Nat
                                      /\ putOff[i].old \in Seq(Nat)
         /\ position.start \in Nat /\ position.end \in Nat
         /\ Typed!NewSign \in Nat
         /\ Append(value, Typed!NewSign) \in Seq(Nat) /\ Len(Append(value, Typed!NewSign)) = Len(value) + 1
<1>1. \A i \in 1..Len(putOff) : putOff[i] \in Waiting
  BY ElementOfSeq DEF Texts3
<1>2. \A t \in Waiting : t.start \in Nat /\ t.end \in Nat /\ t.old \in Seq(Nat)
  BY DEF Waiting
<1>3. Len(value) \in Nat /\ Len(putOff) \in Nat /\ DOMAIN putOff = 1..Len(putOff) /\ Len(meant) \in Nat /\ Len(sent) \in Nat
  BY LenProperties DEF Texts3
<1>4. Typed!NewSign \in Nat
  BY DEF Typed!NewSign, Texts3
<1>5. Append(value, Typed!NewSign) \in Seq(Nat) /\ Len(Append(value, Typed!NewSign)) = Len(value) + 1
  BY <1>4 DEF Texts3
<1>6. position.start \in Nat /\ position.end \in Nat
  BY DEF Texts3
<1> QED
  BY <1>1, <1>2, <1>3, <1>4, <1>5, <1>6

(* No callback of the kind waits.                                          *)
LEMMA NoneWaits ==
  ASSUME Texts3, NEW kind, ~Typed!Waits(kind)
  PROVE  \A i \in 1..Len(putOff) : putOff[i].do # kind
BY TextParts DEF Typed!Waits

LEMMA StartComposed == ASSUME ComposedInv, ~hurried', Typed!Start PROVE Texts3' /\ Phases'
<1>1. Texts3 /\ Phases /\ ~late /\ ~Typed!Waits("end") /\ ~Typed!Waits("diff") /\ ~hurried
  BY DEF Typed!Start, Typed!Hurries, ComposedInv
<1>2. /\ composed = Typed!NotComposing /\ isComposing' = TRUE
      /\ position' = [position EXCEPT !.start = Len(value)]
      /\ value' = Append(value, Typed!NewSign) /\ composed' = 1 /\ signs' = Typed!NewSign
      /\ UNCHANGED <<isSendingComposition, meant, sent, late>>
  BY DEF Typed!Start
<1>3. putOff' = putOff \o (IF isSendingComposition THEN <<>> ELSE <<Typed!Diff(value)>>) \o <<Typed!End>>
  BY DEF Typed!Start
<1>4. \A i \in 1..Len(putOff) : putOff[i].do # "end" /\ putOff[i].do # "diff"
  BY <1>1, NoneWaits
<1>5. /\ Len(value) \in Nat /\ Len(putOff) \in Nat /\ value' \in Seq(Nat) /\ Len(value') = Len(value) + 1
      /\ signs' \in Nat
  BY <1>1, <1>2, TextParts
<1>6. position' \in [start : Nat, end : Nat] /\ position'.start = Len(value') - composed' /\ composed' \in 1..Len(value')
  <2>1. position' \in [start : Nat, end : Nat] /\ position'.start = Len(value)
    BY <1>1, <1>2, <1>5 DEF Texts3
  <2>2. Len(value') - 1 = Len(value) /\ 1 \in 1..Len(value')
    BY <1>5
  <2> QED
    BY <1>2, <2>1, <2>2
<1>7. CASE isSendingComposition = FALSE
  <2>1. Idle
    BY <1>1, <1>2, <1>4, <1>7, TextParts DEF Phases, Inserted, Composing, Sending, Both, Twice, Typed!NotComposing
  <2>2. Len(putOff) \in {0, 1}
    <3>1. \A n \in Nat : n \in {0, 1} \/ (1 \in 1..n /\ 1 # n)
      OBVIOUS
    <3>2. Len(putOff) \in {0, 1} \/ (1 \in 1..Len(putOff) /\ 1 # Len(putOff))
      BY <1>5, <3>1
    <3> QED
      BY <1>4, <2>1, <3>2 DEF Idle
  <2>3. putOff' = Append(Append(putOff, Typed!Diff(value)), Typed!End)
    <3>1. putOff \in Seq(Waiting) /\ Typed!Diff(value) \in Waiting /\ Typed!End \in Waiting
      BY <1>1, WaitingParts DEF Texts3
    <3>2. \A s \in Seq(Waiting), x \in Waiting : s \o <<x>> = Append(s, x)
      OBVIOUS
    <3>3. Append(putOff, Typed!Diff(value)) \in Seq(Waiting)
      BY <3>1
    <3>4. putOff' = putOff \o <<Typed!Diff(value)>> \o <<Typed!End>>
      BY <1>3, <1>7
    <3> QED
      BY <3>1, <3>2, <3>3, <3>4
  <2>4. /\ putOff' \in Seq(Waiting) /\ Len(putOff') = Len(putOff) + 2
        /\ \A i \in 1..Len(putOff) : putOff'[i] = putOff[i]
        /\ putOff'[Len(putOff) + 1] = Typed!Diff(value) /\ putOff'[Len(putOff) + 2] = Typed!End
    <3>1. putOff \in Seq(Waiting) /\ Typed!Diff(value) \in Waiting /\ Typed!End \in Waiting
      BY <1>1, WaitingParts DEF Texts3
    <3> QED
      BY <1>5, <2>3, <3>1
  <2>5. putOff'[Len(putOff) + 1].do = "diff" /\ putOff'[Len(putOff) + 2].do = "end"
    BY <1>1, <2>4, WaitingParts DEF Texts3
  <2>6. Texts3'
    BY <1>1, <1>2, <1>5, <1>6, <2>4 DEF Texts3
  <2>7. \A i \in 1..Len(putOff') :
            \/ putOff'[i].do = "end"
            \/ putOff'[i].do = "diff" /\ (i = 1 \/ (i = 2 /\ putOff'[1].do = "send"))
            \/ putOff'[i].do = "send" /\ i = 1 /\ Len(putOff') >= 2 /\ putOff'[2].do = "diff"
    <3>1. CASE Len(putOff) = 0
      BY <2>4, <2>5, <3>1
    <3>2. CASE Len(putOff) = 1
      <4>1. putOff[1].do = "send"
        BY <1>4, <2>1, <3>2 DEF Idle
      <4> QED
        BY <2>4, <2>5, <3>2, <4>1
    <3> QED
      BY <2>2, <3>1, <3>2
  <2>8. ~(\A i \in 1..Len(putOff') : putOff'[i].do # "end")
    BY <1>5, <2>4, <2>5
  <2>9. Composing'
    BY <1>2, <1>6, <1>7, <2>1, <2>7, <2>8 DEF Composing, Idle
  <2> QED
    BY <2>6, <2>9 DEF Phases
<1>8. CASE isSendingComposition # FALSE
  <2>1. Sending /\ Len(putOff) = 1
    <3>1. late = FALSE /\ ~Idle /\ ~Inserted /\ ~Composing
      BY <1>1, <1>8 DEF Idle, Inserted, Composing, Texts3
    <3>2. ~Both /\ ~Twice
      BY <1>1, <1>2, <1>5, <3>1 DEF Both, Twice, Typed!NotComposing
    <3> QED
      BY <1>1, <3>1, <3>2 DEF Phases, Sending
  <2>2. isSendingComposition = TRUE
    BY <2>1 DEF Sending
  <2>3. putOff' = Append(putOff, Typed!End)
    <3>1. putOff \in Seq(Waiting) /\ Typed!End \in Waiting
      BY <1>1, WaitingParts DEF Texts3
    <3>2. \A s \in Seq(Waiting), x \in Waiting : s \o <<>> = s /\ s \o <<x>> = Append(s, x)
      OBVIOUS
    <3> QED
      BY <1>3, <2>2, <3>1, <3>2
  <2>4. /\ putOff' \in Seq(Waiting) /\ Len(putOff') = 2 /\ putOff'[1] = putOff[1] /\ putOff'[2] = Typed!End
    <3>1. putOff \in Seq(Waiting) /\ Typed!End \in Waiting /\ 1 \in 1..Len(putOff) /\ Len(putOff) + 1 = 2
      BY <1>1, <2>1, WaitingParts DEF Texts3
    <3>2. /\ Append(putOff, Typed!End) \in Seq(Waiting) /\ Len(Append(putOff, Typed!End)) = Len(putOff) + 1
          /\ \A i \in 1..Len(putOff) : Append(putOff, Typed!End)[i] = putOff[i]
          /\ Append(putOff, Typed!End)[Len(putOff) + 1] = Typed!End
      BY <3>1, AppendProperties
    <3> QED
      BY <2>3, <3>1, <3>2
  <2>5. /\ putOff'[1].do = "send" /\ putOff'[2].do = "end"
        /\ putOff'[1].end = Len(value) /\ putOff'[1].start <= Len(value)
        /\ putOff[1].start \in Nat
    BY <1>1, <2>1, <2>4, WaitingParts, TextParts DEF Sending, ToSend
  <2>6. meant = sent \o Cut(value, putOff[1].start, Len(value))
    BY <2>1 DEF Sending, ToSend
  <2>7. Cut(value', putOff[1].start, Len(value)) = Cut(value, putOff[1].start, Len(value))
    <3>1. value \in Seq(Nat) /\ Typed!NewSign \in Nat /\ putOff[1].start <= Len(value)
      BY <1>1, <2>4, <2>5, TextParts DEF Texts3
    <3> QED
      BY <1>2, <1>5, <2>5, <3>1, CutKept
  <2>8. Texts3'
    BY <1>1, <1>2, <1>5, <1>6, <2>4 DEF Texts3
  <2>9. Both'
    <3>1. \A i \in 1..Len(putOff') : i # 1 => putOff'[i].do = "end"
      BY <2>4, <2>5
    <3>2. putOff'[1].end = Len(value') - composed' /\ putOff'[1].start <= putOff'[1].end
      BY <1>2, <1>5, <2>4, <2>5
    <3>3. meant' = sent' \o Cut(value', putOff'[1].start, putOff'[1].end)
      BY <1>2, <2>4, <2>5, <2>6, <2>7
    <3>4. isSendingComposition' = TRUE /\ late' = FALSE
      BY <1>1, <1>2, <2>1, <2>2 DEF Sending
    <3> QED
      BY <1>2, <1>6, <2>4, <2>5, <3>1, <3>2, <3>3, <3>4 DEF Both
  <2> QED
    BY <2>8, <2>9 DEF Phases
<1> QED
  BY <1>7, <1>8

(* One more callback is put off, one more sign is in the text area.        *)
LEMMA OneMore ==
  ASSUME Texts3, NEW t \in Waiting
  PROVE  /\ Append(putOff, t) \in Seq(Waiting) /\ Len(Append(putOff, t)) = Len(putOff) + 1
         /\ \A i \in 1..Len(putOff) : Append(putOff, t)[i] = putOff[i]
         /\ Append(putOff, t)[Len(putOff) + 1] = t
BY AppendProperties DEF Texts3

LEMMA UpdateComposed == ASSUME ComposedInv, ~hurried', Typed!Update PROVE Texts3' /\ Phases'
<1>1. /\ composed # Typed!NotComposing
      /\ putOff' = Append(putOff, Typed!End)
      /\ value' = Append(value, Typed!NewSign) /\ composed' = composed + 1 /\ signs' = Typed!NewSign
      /\ UNCHANGED <<isComposing, isSendingComposition, position, meant, sent, hurried, late>>
  BY DEF Typed!Update
<1>2. Texts3 /\ Phases
  BY <1>1 DEF ComposedInv
<1>3. /\ Len(value) \in Nat /\ Len(putOff) \in Nat /\ value' \in Seq(Nat) /\ Len(value') = Len(value) + 1
      /\ signs' \in Nat /\ Typed!NewSign \in Nat /\ value \in Seq(Nat)
  BY <1>1, <1>2, TextParts DEF Texts3
<1> DEFINE n == Len(putOff)
<1>4. /\ putOff' \in Seq(Waiting) /\ Len(putOff') = n + 1 /\ \A i \in 1..n : putOff'[i] = putOff[i]
      /\ putOff'[n + 1].do = "end"
  BY <1>1, <1>2, OneMore, WaitingParts
<1>5. n \in Nat /\ \A i \in 1..Len(putOff') : i \in 1..n \/ i = n + 1
  BY <1>3, <1>4
<1>6. Texts3'
  BY <1>1, <1>2, <1>3, <1>4 DEF Texts3
<1>7. Composing \/ Both
  BY <1>1, <1>2 DEF Phases, Idle, Inserted, Sending, Twice
<1>8. composed' \in 1..Len(value') /\ position'.start = Len(value') - composed'
  <2>1. composed \in 1..Len(value) /\ position.start = Len(value) - composed
    BY <1>7 DEF Composing, Both
  <2>2. composed + 1 \in 1..(Len(value) + 1) /\ (Len(value) + 1) - (composed + 1) = Len(value) - composed
    BY <1>3, <2>1
  <2> QED
    BY <1>1, <1>3, <2>1, <2>2
<1>9. CASE Composing
  <2>1. \A i \in 1..Len(putOff') :
            \/ putOff'[i].do = "end"
            \/ putOff'[i].do = "diff" /\ (i = 1 \/ (i = 2 /\ putOff'[1].do = "send"))
            \/ putOff'[i].do = "send" /\ i = 1 /\ Len(putOff') >= 2 /\ putOff'[2].do = "diff"
    <3> SUFFICES ASSUME NEW i \in 1..Len(putOff'), putOff'[i].do # "end"
                 PROVE  \/ putOff'[i].do = "diff" /\ (i = 1 \/ (i = 2 /\ putOff'[1].do = "send"))
                        \/ putOff'[i].do = "send" /\ i = 1 /\ Len(putOff') >= 2 /\ putOff'[2].do = "diff"
      OBVIOUS
    <3>1. i \in 1..n /\ putOff'[i] = putOff[i]
      BY <1>4, <1>5
    <3>2. 1 \in 1..n /\ (n >= 2 => 2 \in 1..n /\ n + 1 >= 2) /\ (i = 2 => n >= 2)
      BY <1>5, <3>1
    <3>3. putOff'[1] = putOff[1] /\ (n >= 2 => putOff'[2] = putOff[2])
      BY <1>4, <3>2
    <3> HIDE DEF n
    <3>4. \/ putOff[i].do = "diff" /\ (i = 1 \/ (i = 2 /\ putOff[1].do = "send"))
          \/ putOff[i].do = "send" /\ i = 1 /\ n >= 2 /\ putOff[2].do = "diff"
      BY <1>9, <3>1 DEF Composing, n
    <3> QED
      BY <1>4, <3>1, <3>2, <3>3, <3>4
  <2>2. ~(\A i \in 1..Len(putOff') : putOff'[i].do # "end")
    BY <1>4, <1>5
  <2> QED
    BY <1>1, <1>6, <1>8, <1>9, <2>1, <2>2 DEF Phases, Composing
<1>10. CASE Both
  <2>1. /\ n >= 2 /\ 1 \in 1..n /\ n + 1 >= 2 /\ putOff'[1] = putOff[1]
    BY <1>4, <1>5, <1>10 DEF Both
  <2>2. \A i \in 1..Len(putOff') : i # 1 => putOff'[i].do = "end"
    BY <1>4, <1>5, <1>10 DEF Both
  <2>3. /\ putOff[1].end = Len(value) - composed /\ putOff[1].start <= putOff[1].end
        /\ putOff[1].start \in Nat /\ putOff[1].end \in Nat /\ composed \in 1..Len(value)
        /\ meant = sent \o Cut(value, putOff[1].start, putOff[1].end)
    BY <1>2, <1>10, <2>1, TextParts DEF Both
  <2>4. putOff[1].end <= Len(value) /\ Len(value') - composed' = putOff[1].end
    BY <1>1, <1>3, <2>3
  <2>5. Cut(value', putOff[1].start, putOff[1].end) = Cut(value, putOff[1].start, putOff[1].end)
    BY <1>1, <1>3, <2>3, <2>4, CutKept
  <2>6. /\ putOff'[1].do = "send" /\ putOff'[1].end = Len(value') - composed' /\ putOff'[1].start <= putOff'[1].end
        /\ meant' = sent' \o Cut(value', putOff'[1].start, putOff'[1].end)
    BY <1>1, <1>10, <2>1, <2>3, <2>4, <2>5 DEF Both
  <2> QED
    BY <1>1, <1>4, <1>6, <1>8, <1>10, <2>1, <2>2, <2>6 DEF Phases, Both
<1> QED
  BY <1>7, <1>9, <1>10

(* A composition ends: the signs are those composed, and one the browser   *)
(* may add.                                                                *)
LEMMA DoneComposed == ASSUME ComposedInv, ~hurried', NEW adds \in BOOLEAN, Typed!Done(adds) PROVE Texts3' /\ Phases'
<1>1. /\ composed # Typed!NotComposing
      /\ isComposing' = FALSE /\ isSendingComposition' = TRUE
      /\ putOff' = Append(putOff, Typed!Send(position))
      /\ composed' = Typed!NotComposing
      /\ value' = IF adds THEN Append(value, Typed!NewSign) ELSE value
      /\ signs' = IF adds THEN Typed!NewSign ELSE signs
      /\ late' = (adds \/ Typed!Waits("end"))
      /\ UNCHANGED <<position, sent>>
  BY DEF Typed!Done
<1>2. meant' = meant \o Cut(value', Len(value) - composed, Len(value'))
  BY DEF Typed!Done, Cut
<1>3. Texts3 /\ Phases /\ ~Typed!Waits("diff")
  BY DEF Typed!Done, ComposedInv
<1>4. /\ Len(value) \in Nat /\ Len(putOff) \in Nat /\ value' \in Seq(Nat) /\ Len(value') \in Nat /\ Len(value) <= Len(value')
      /\ (adds = FALSE => value' = value)
      /\ signs' \in Nat /\ Typed!NewSign \in Nat /\ value \in Seq(Nat) /\ sent \in Seq(Nat) /\ meant \in Seq(Nat)
      /\ position \in [start : Nat, end : Nat] /\ late' \in BOOLEAN
  BY <1>1, <1>3, TextParts DEF Texts3
<1> DEFINE n == Len(putOff)
<1>5. /\ putOff' \in Seq(Waiting) /\ Len(putOff') = n + 1 /\ \A i \in 1..n : putOff'[i] = putOff[i]
      /\ putOff'[n + 1].do = "send" /\ putOff'[n + 1].start = position.start /\ putOff'[n + 1].end = position.end
  BY <1>1, <1>3, <1>4, OneMore, WaitingParts
<1>6. n \in Nat /\ \A i \in 1..Len(putOff') : i \in 1..n \/ i = n + 1
  BY <1>4, <1>5
<1>7. Composing \/ Both
  BY <1>1, <1>3 DEF Phases, Idle, Inserted, Sending, Twice
<1>8. /\ composed \in 1..Len(value) /\ position.start = Len(value) - composed
      /\ position.start \in Nat /\ position.start <= Len(value) /\ position.start <= Len(value')
  <2>1. composed \in 1..Len(value) /\ position.start = Len(value) - composed
    BY <1>7 DEF Composing, Both
  <2>2. position.start \in Nat /\ position.start <= Len(value)
    BY <1>4, <2>1
  <2> QED
    BY <1>4, <2>1, <2>2
<1>9. meant' \in Seq(Nat)
  <2>1. Cut(value', position.start, Len(value')) \in Seq(Nat)
    <3>1. Len(value') <= Len(value')
      BY <1>4
    <3> QED
      BY <1>4, <1>8, <3>1, CutParts
  <2> QED
    BY <1>2, <1>4, <1>8, <2>1, ConcatProperties
<1>10. Texts3'
  BY <1>1, <1>3, <1>4, <1>5, <1>9 DEF Texts3
<1>11. CASE Composing
  <2>1. \A i \in 1..n : putOff[i].do = "end"
    BY <1>3, <1>11, NoneWaits DEF Composing
  <2>2. \A i \in 1..Len(putOff') : i # Len(putOff') => putOff'[i].do = "end"
    BY <1>5, <1>6, <2>1
  <2>3. /\ putOff'[Len(putOff')].start <= Len(value')
        /\ meant' = sent' \o Cut(value', putOff'[Len(putOff')].start, Len(value'))
    <3>1. meant' = sent \o Cut(value', position.start, Len(value'))
      BY <1>2, <1>8, <1>11 DEF Composing
    <3>2. putOff'[n + 1].start <= Len(value')
      BY <1>4, <1>5, <1>8
    <3>3. meant' = sent' \o Cut(value', putOff'[n + 1].start, Len(value'))
      BY <1>1, <1>5, <3>1
    <3> QED
      BY <1>5, <3>2, <3>3
  <2>4. ASSUME late' = FALSE
        PROVE  /\ Len(putOff') = 1
               /\ position'.start = putOff'[1].start /\ position'.end = putOff'[1].end
               /\ position'.end = Len(value')
    <3>1. adds = FALSE /\ ~Typed!Waits("end")
      BY <1>1, <2>4
    <3>2. n = 0
      <4>1. \A i \in 1..n : putOff[i].do # "end"
        BY <1>3, <3>1, NoneWaits
      <4>2. 1 \notin 1..n
        BY <2>1, <4>1
      <4> QED
        BY <1>6, <4>2
    <3>3. position.end = Len(value)
      BY <1>6, <1>11, <3>2 DEF Composing
    <3> HIDE DEF n
    <3> QED
      BY <1>1, <1>4, <1>5, <3>1, <3>2, <3>3
  <2>5. Len(putOff') >= 1 /\ putOff'[Len(putOff')].do = "send"
    BY <1>5, <1>6
  <2>6. Sending'
    <3>1. ToSend(Len(putOff))'
      BY <2>3 DEF ToSend
    <3> QED
      BY <1>1, <2>2, <2>4, <2>5, <3>1 DEF Sending
  <2> QED
    BY <1>10, <2>6 DEF Phases
<1>12. CASE Both
  <2>1. n >= 2 /\ 1 \in 1..n /\ 2 \in 1..n /\ putOff'[1] = putOff[1] /\ n + 1 >= 3
    BY <1>5, <1>6, <1>12 DEF Both
  <2>2. late' = TRUE
    <3>1. putOff[2].do = "end"
      BY <1>12, <2>1 DEF Both
    <3>2. Typed!Waits("end")
      BY <1>3, <2>1, <3>1, TextParts DEF Typed!Waits
    <3> QED
      BY <1>1, <3>2
  <2>3. \A i \in 1..Len(putOff') : i # 1 /\ i # Len(putOff') => putOff'[i].do = "end"
    <3>1. \A i \in 1..n : i # 1 => putOff[i].do = "end"
      BY <1>12 DEF Both
    <3> QED
      BY <1>5, <1>6, <3>1
  <2>4. /\ putOff[1].end = position.start /\ putOff[1].start <= putOff[1].end
        /\ putOff[1].start \in Nat
        /\ meant = sent \o Cut(value, putOff[1].start, position.start)
    BY <1>3, <1>8, <1>12, <2>1, TextParts DEF Both
  <2>5. Cut(value, putOff[1].start, position.start) = Cut(value', putOff[1].start, position.start)
    <3>1. CASE adds = FALSE
      BY <1>4, <3>1
    <3>2. CASE adds = TRUE
      <4> DEFINE m == putOff[1].start
                 k == position.start
                 x == Typed!NewSign
      <4>1. m \in Nat /\ k \in Nat /\ x \in Nat /\ m <= k /\ k <= Len(value) /\ value \in Seq(Nat)
        BY <1>4, <1>8, <2>4
      <4>2. value' = Append(value, x)
        BY <1>1, <3>2
      <4> HIDE DEF m, k, x
      <4>3. Cut(Append(value, x), m, k) = Cut(value, m, k)
        BY <4>1, CutKept
      <4>4. Cut(value', m, k) = Cut(value, m, k)
        BY <4>2, <4>3
      <4> QED
        BY <4>4 DEF m, k
    <3> QED
      BY <3>1, <3>2
  <2>6. meant' = sent \o Cut(value', putOff[1].start, Len(value'))
    <3> DEFINE m == putOff[1].start
               k == position.start
    <3>4. m \in Nat /\ k \in Nat /\ m <= k /\ k <= Len(value') /\ Len(value') \in Nat /\ Len(value') <= Len(value')
      BY <1>4, <1>8, <2>4
    <3> HIDE DEF m, k
    <3>1. Cut(value', m, k) \in Seq(Nat) /\ Cut(value', k, Len(value')) \in Seq(Nat)
      BY <1>4, <3>4, CutParts
    <3>2. Cut(value', m, k) \o Cut(value', k, Len(value')) = Cut(value', m, Len(value'))
      <4>1. \A v \in Seq(Nat) : k <= Len(v) => Cut(v, m, k) \o Cut(v, k, Len(v)) = Cut(v, m, Len(v))
        <5> SUFFICES ASSUME NEW v \in Seq(Nat), k <= Len(v)
                     PROVE  Cut(v, m, k) \o Cut(v, k, Len(v)) = Cut(v, m, Len(v))
          OBVIOUS
        <5>1. Len(v) \in Nat /\ Len(v) <= Len(v)
          BY LenProperties
        <5> QED
          BY <3>4, <5>1, CutJoined
      <4> QED
        BY <1>4, <3>4, <4>1
    <3>3. meant' = (sent \o Cut(value', m, k)) \o Cut(value', k, Len(value'))
      BY <1>2, <1>8, <2>4, <2>5 DEF m, k
    <3>5. meant' = sent \o Cut(value', m, Len(value'))
      <4> DEFINE y == Cut(value', m, k)
                 z == Cut(value', k, Len(value'))
      <4>1. \A x \in Seq(Nat) : (x \o y) \o z = x \o (y \o z)
        BY <3>1, ConcatAssociative
      <4>2. meant' = (sent \o y) \o z /\ y \o z = Cut(value', m, Len(value'))
        BY <3>2, <3>3
      <4> HIDE DEF y, z
      <4> QED
        BY <1>4, <4>1, <4>2
    <3> QED
      BY <3>5 DEF m
  <2>7. ToSend(1)'
    <3>1. putOff'[1].start <= Len(value')
      <4>1. putOff[1].start \in Nat /\ position.start \in Nat /\ Len(value') \in Nat
            /\ putOff[1].start <= position.start /\ position.start <= Len(value')
        BY <1>4, <1>8, <2>4
      <4> QED
        BY <2>1, <4>1
    <3> QED
      BY <1>1, <2>1, <2>6, <3>1 DEF ToSend
  <2>8. Twice'
    BY <1>1, <1>5, <1>12, <2>1, <2>2, <2>3, <2>7 DEF Both, Twice
  <2> QED
    BY <1>10, <2>8 DEF Phases
<1> QED
  BY <1>7, <1>11, <1>12

LEMMA InsertComposed == ASSUME ComposedInv, ~hurried', Typed!Insert PROVE Texts3' /\ Phases'
<1>1. /\ composed = Typed!NotComposing
      /\ putOff' = IF isSendingComposition THEN putOff ELSE Append(putOff, Typed!Diff(value))
      /\ value' = Append(value, Typed!NewSign) /\ signs' = Typed!NewSign /\ meant' = Append(meant, Typed!NewSign)
      /\ UNCHANGED <<composed, isComposing, isSendingComposition, position, sent, late>>
  BY DEF Typed!Insert
<1>2. Texts3 /\ Phases /\ putOff = <<>>
  BY DEF Typed!Insert, ComposedInv
<1>3. Len(putOff) = 0
  BY <1>2, EmptySeq
<1>4. Idle
  BY <1>1, <1>2, <1>3 DEF Phases, Inserted, Composing, Sending, Both, Twice, Typed!NotComposing
<1>5. /\ value \in Seq(Nat) /\ Typed!NewSign \in Nat /\ value' \in Seq(Nat) /\ signs' \in Nat
      /\ meant' \in Seq(Nat)
  BY <1>1, <1>2, TextParts DEF Texts3
<1>6. putOff' = Append(putOff, Typed!Diff(value))
  BY <1>1, <1>4 DEF Idle
<1>7. Typed!Diff(value) \in Waiting /\ Typed!Diff(value).do = "diff" /\ Typed!Diff(value).old = value
  BY <1>5, WaitingParts
<1>8. putOff' \in Seq(Waiting) /\ Len(putOff') = 1 /\ putOff'[1] = Typed!Diff(value)
  <2>1. Len(putOff) + 1 = 1
    BY <1>3
  <2> QED
    BY <1>2, <1>6, <1>7, <2>1, OneMore
<1>9. Texts3'
  BY <1>1, <1>2, <1>5, <1>8 DEF Texts3
<1>10. Inserted'
  BY <1>1, <1>4, <1>5, <1>7, <1>8 DEF Idle, Inserted
<1> QED
  BY <1>9, <1>10 DEF Phases

(* What String.substring gives.                                            *)
LEMMA SubstringIsCut ==
  ASSUME value \in Seq(Nat), NEW m \in Nat, NEW n \in Nat, m <= n, n <= Len(value)
  PROVE  Typed!Substring(m, n) = Cut(value, m, n)
<1>1. Len(value) \in Nat
  BY LenProperties
<1>2. CASE m = n
  <2>1. ~(m < n) /\ (IF m < Len(value) THEN m ELSE Len(value)) = n
    BY <1>1, <1>2
  <2> QED
    BY <1>2, <2>1 DEF Typed!Substring, Cut
<1>3. CASE m < n
  <2>1. (IF n < Len(value) THEN n ELSE Len(value)) = n
    BY <1>1
  <2> QED
    BY <1>3, <2>1 DEF Typed!Substring, Cut
<1> QED
  BY <1>2, <1>3

LEMMA KeyComposed == ASSUME ComposedInv, ~hurried', Typed!Key PROVE Texts3' /\ Phases'
<1>1. Texts3 /\ Phases /\ ~late /\ ~Typed!Waits("end") /\ ~Typed!Waits("diff") /\ ~hurried
  BY DEF Typed!Key, Typed!Hurries, ComposedInv
<1>2. /\ composed = Typed!NotComposing
      /\ signs' = Typed!NewSign /\ meant' = Append(meant, Typed!NewSign)
      /\ UNCHANGED <<value, composed, position, putOff, late>>
  BY DEF Typed!Key
<1>3. \A i \in 1..Len(putOff) : putOff[i].do # "end" /\ putOff[i].do # "diff"
  BY <1>1, NoneWaits
<1>4. Typed!NewSign \in Nat /\ meant \in Seq(Nat) /\ sent \in Seq(Nat) /\ value \in Seq(Nat) /\ Len(value) \in Nat
  BY <1>1, TextParts DEF Texts3
<1>5. late = FALSE
  BY <1>1 DEF Texts3
<1>6. Idle \/ Sending
  <2>1. ~Inserted
    <3> SUFFICES ASSUME Inserted PROVE FALSE
      OBVIOUS
    <3>1. 1 \in 1..Len(putOff) /\ putOff[1].do = "diff"
      BY DEF Inserted
    <3> QED
      BY <1>3, <3>1
  <2>2. ~Composing /\ ~Both
    BY <1>1, <1>2, TextParts DEF Composing, Both, Typed!NotComposing
  <2>3. ~Twice
    BY <1>5 DEF Twice
  <2> QED
    BY <1>1, <2>1, <2>2, <2>3 DEF Phases
<1>7. CASE Idle
  <2>1. /\ sent' = Append(sent, Typed!NewSign) /\ isComposing' = FALSE /\ isSendingComposition' = FALSE
    BY <1>7 DEF Typed!Key, Idle
  <2>2. Texts3'
    BY <1>1, <1>2, <1>4, <2>1 DEF Texts3
  <2>3. Idle'
    BY <1>2, <1>7, <2>1 DEF Idle
  <2> QED
    BY <2>2, <2>3 DEF Phases
<1>8. CASE Sending
  <2>1. /\ isComposing' = FALSE /\ isSendingComposition' = FALSE
        /\ sent' = Append(sent \o Typed!Substring(position.start, position.end), Typed!NewSign)
    BY <1>8 DEF Typed!Key, Typed!FinalizeNow, Sending
  <2>2. /\ Len(putOff) = 1 /\ putOff[1].do = "send"
        /\ position.start \in Nat /\ position.start <= Len(value) /\ position.end = Len(value)
        /\ meant = sent \o Cut(value, position.start, Len(value))
    BY <1>1, <1>5, <1>8, TextParts DEF Sending, ToSend
  <2>3. Typed!Substring(position.start, position.end) = Cut(value, position.start, Len(value))
    <3>1. Len(value) <= Len(value)
      BY <1>4
    <3>2. Typed!Substring(position.start, Len(value)) = Cut(value, position.start, Len(value))
      BY <1>4, <2>2, <3>1, SubstringIsCut
    <3> QED
      BY <2>2, <3>2
  <2>4. sent' = Append(meant, Typed!NewSign)
    BY <2>1, <2>2, <2>3
  <2>5. Texts3'
    BY <1>1, <1>2, <1>4, <2>4 DEF Texts3
  <2>6. Idle'
    BY <1>2, <1>5, <2>1, <2>2, <2>4 DEF Idle
  <2> QED
    BY <2>5, <2>6 DEF Phases
<1> QED
  BY <1>6, <1>7, <1>8

LEMMA BlurComposed == ASSUME ComposedInv, ~hurried', Typed!Blur PROVE Texts3' /\ Phases'
<1>1. /\ composed = Typed!NotComposing /\ value' = <<>>
      /\ UNCHANGED <<composed, isComposing, isSendingComposition, position, putOff, signs, meant, sent, late>>
  BY DEF Typed!Blur, Typed!helperVars
<1>2. Texts3 /\ Phases /\ putOff = <<>>
  BY DEF Typed!Blur, ComposedInv
<1>3. Len(putOff) = 0
  BY <1>2, EmptySeq
<1>4. Idle
  BY <1>1, <1>2, <1>3 DEF Phases, Inserted, Composing, Sending, Both, Twice, Typed!NotComposing
<1>5. value' \in Seq(Nat)
  BY <1>1, EmptySeq
<1>6. Texts3'
  BY <1>1, <1>2, <1>5 DEF Texts3
<1>7. Idle'
  BY <1>1, <1>4 DEF Idle
<1> QED
  BY <1>6, <1>7 DEF Phases

(* What a callback sends.                                                  *)
LEMMA SentParts ==
  ASSUME NEW t, isComposing \in BOOLEAN, isSendingComposition \in BOOLEAN
  PROVE  /\ t.do = "end" => Typed!Sent(t) = <<>>
         /\ t.do = "diff" /\ isComposing => Typed!Sent(t) = <<>>
         /\ t.do = "send" /\ ~isSendingComposition => Typed!Sent(t) = <<>>
         /\ t.do = "diff" /\ ~isComposing => Typed!Sent(t) = Typed!Replaced(value, t.old)
         /\ t.do = "send" /\ isSendingComposition /\ ~isComposing => Typed!Sent(t) = Typed!From(t.start)
         /\ t.do = "send" /\ isSendingComposition /\ isComposing => Typed!Sent(t) = Typed!Substring(t.start, t.end)
BY DEF Typed!Sent

(* The sign that was added is what is found to be new.                     *)
LEMMA ReplacedIsNew ==
  ASSUME NEW old \in Seq(Nat), NEW x \in Nat
  PROVE  Typed!Replaced(Append(old, x), old) = <<x>>
<1> DEFINE new == Append(old, x)
<1>1. Len(old) \in Nat
  BY LenProperties
<1>2. new \in Seq(Nat) /\ Len(new) = Len(old) + 1 /\ new[Len(old) + 1] = x /\ \A i \in 1..Len(old) : new[i] = old[i]
  BY <1>1, AppendProperties
<1> HIDE DEF new
<1>3. Cut(new, 0, Len(old)) = old
  <2> DEFINE n == Len(old)
  <2>1. n \in Nat /\ 0 \in Nat /\ 0 <= n /\ n <= Len(new) /\ n - 0 = n /\ \A i \in 1..n : 0 + i = i
    BY <1>1, <1>2
  <2>2. Len(old) = n /\ \A i \in 1..n : new[i] = old[i]
    BY <1>2
  <2> HIDE DEF n
  <2>3. /\ Cut(new, 0, n) \in Seq(Nat) /\ Len(Cut(new, 0, n)) = n - 0
        /\ \A i \in 1..(n - 0) : Cut(new, 0, n)[i] = new[0 + i]
    BY <1>2, <2>1, CutParts
  <2>4. \A i \in 1..n : Cut(new, 0, n)[i] = old[i]
    BY <2>1, <2>2, <2>3
  <2>5. Cut(new, 0, n) = old
    BY <2>1, <2>2, <2>3, <2>4, SeqEqual
  <2> QED
    BY <2>5 DEF n
<1>4. Cut(new, Len(old), Len(new)) = <<x>>
  <2> DEFINE m == Len(old)
             n == Len(new)
  <2>1. m \in Nat /\ n \in Nat /\ m <= n /\ n <= n /\ n - m = 1 /\ m + 1 = n
    BY <1>1, <1>2
  <2>2. n <= Len(new) /\ new[m + 1] = x
    BY <1>2, <2>1
  <2> HIDE DEF m, n
  <2>3. /\ Cut(new, m, n) \in Seq(Nat) /\ Len(Cut(new, m, n)) = n - m
        /\ \A i \in 1..(n - m) : Cut(new, m, n)[i] = new[m + i]
    BY <1>2, <2>1, <2>2, CutParts
  <2>4. <<x>> \in Seq(Nat) /\ Len(<<x>>) = 1 /\ <<x>>[1] = x
    OBVIOUS
  <2>5. \A i \in 1..1 : Cut(new, m, n)[i] = <<x>>[i]
    BY <2>1, <2>2, <2>3, <2>4
  <2>6. Cut(new, m, n) = <<x>>
    BY <2>1, <2>3, <2>4, <2>5, SeqEqual
  <2> QED
    BY <2>6 DEF m, n
<1>5. Len(old) <= Len(new) /\ SubSeq(new, 1, Len(old)) = old /\ SubSeq(new, Len(old) + 1, Len(new)) = <<x>>
  <2>1. 0 + 1 = 1 /\ Len(old) <= Len(new)
    BY <1>1, <1>2
  <2> QED
    BY <1>3, <1>4, <2>1 DEF Cut
<1>6. Typed!Replaced(new, old) = <<x>>
  BY <1>5 DEF Typed!Replaced
<1> QED
  BY <1>6 DEF new
LEMMA TimerComposed == ASSUME ComposedInv, ~hurried', Typed!Timer PROVE Texts3' /\ Phases'
<1> DEFINE n == Len(putOff)
           h == putOff[1]
<1>1. /\ putOff # <<>> /\ putOff' = Tail(putOff)
      /\ sent' = sent \o Typed!Sent(Head(putOff))
      /\ position' = IF Head(putOff).do = "end" THEN [position EXCEPT !.end = Len(value)] ELSE position
      /\ isSendingComposition' = (isSendingComposition /\ Head(putOff).do # "send")
      /\ late' = (late /\ Head(putOff).do # "send")
      /\ UNCHANGED <<value, composed, isComposing, signs, meant, hurried>>
  BY DEF Typed!Timer
<1>2. Texts3 /\ Phases
  BY <1>1 DEF ComposedInv
<1>3. n \in Nat /\ n >= 1
  <2>1. putOff \in Seq(Waiting) /\ n \in Nat
    BY <1>2, TextParts DEF Texts3
  <2> QED
    BY <1>1, <2>1, EmptySeq
<1>4. /\ Head(putOff) = h /\ 1 \in 1..n
      /\ putOff' \in Seq(Waiting) /\ Len(putOff') = n - 1
      /\ \A i \in 1..(n - 1) : putOff'[i] = putOff[i + 1] /\ i + 1 \in 1..n
  <2>1. putOff \in Seq(Waiting)
    BY <1>2 DEF Texts3
  <2> QED
    BY <1>1, <1>3, <2>1, HeadTailProperties
<1>5. /\ sent' = sent \o Typed!Sent(h)
      /\ position' = IF h.do = "end" THEN [position EXCEPT !.end = Len(value)] ELSE position
      /\ isSendingComposition' = (isSendingComposition /\ h.do # "send")
      /\ late' = (late /\ h.do # "send")
  BY <1>1, <1>4
<1>6. /\ value \in Seq(Nat) /\ Len(value) \in Nat /\ sent \in Seq(Nat) /\ meant \in Seq(Nat)
      /\ h.start \in Nat /\ h.end \in Nat /\ position \in [start : Nat, end : Nat] /\ late \in BOOLEAN
      /\ Len(value) <= Len(value)
  BY <1>2, <1>4, TextParts DEF Texts3
<1>7. isComposing \in BOOLEAN /\ isSendingComposition \in BOOLEAN
  BY <1>2 DEF Phases, Idle, Inserted, Composing, Sending, Both, Twice
<1>8. position' \in [start : Nat, end : Nat] /\ position'.start = position.start
      /\ (h.do = "end" => position'.end = Len(value))
      /\ (h.do # "end" => position' = position)
  BY <1>5, <1>6
<1>9. ASSUME sent' \in Seq(Nat) PROVE Texts3'
  BY <1>1, <1>2, <1>4, <1>5, <1>6, <1>8, <1>9 DEF Texts3
<1>10. \A s \in Seq(Nat) : s \o <<>> = s
  OBVIOUS
<1>11. ASSUME Typed!Sent(h) = <<>> PROVE sent' = sent /\ Texts3'
  BY <1>5, <1>6, <1>9, <1>10, <1>11
<1>12. ASSUME h.do = "send", isSendingComposition = TRUE, isComposing = FALSE, ToSend(1) PROVE sent' = meant /\ Texts3'
  <2>1. Typed!Sent(h) = Typed!From(h.start)
    BY <1>7, <1>12, SentParts
  <2>2. sent' = meant
    BY <1>5, <1>12, <2>1 DEF Typed!From, ToSend, Cut
  <2> QED
    BY <1>6, <1>9, <2>2
<1> HIDE DEF h
<1>13. CASE Idle
  <2>1. Typed!Sent(h) = <<>>
    <3>1. h.do = "end" \/ h.do = "send"
      BY <1>4, <1>13 DEF Idle, h
    <3> QED
      BY <1>7, <1>13, <3>1, SentParts DEF Idle
  <2>2. \A i \in 1..Len(putOff') : putOff'[i].do = "end" \/ (putOff'[i].do = "send" /\ i = Len(putOff'))
    <3>1. \A i \in 1..n : putOff[i].do = "end" \/ (putOff[i].do = "send" /\ i = n)
      BY <1>13 DEF Idle
    <3>2. \A i \in 1..(n - 1) : i + 1 = n => i = n - 1
      BY <1>3
    <3> HIDE DEF n
    <3> QED
      BY <1>4, <3>1, <3>2
  <2>3. Idle'
    BY <1>1, <1>5, <1>11, <1>13, <2>1, <2>2 DEF Idle
  <2> QED
    BY <1>11, <2>1, <2>3 DEF Phases
<1>14. CASE Inserted
  <2>1. n = 1 /\ h.do = "diff" /\ isComposing = FALSE
    BY <1>14 DEF Inserted, h
  <2>2. PICK x \in Nat : value = Append(h.old, x) /\ meant = Append(sent, x)
    BY <1>14 DEF Inserted, h
  <2>3. h.old \in Seq(Nat)
    BY <1>2, <1>4, TextParts DEF h
  <2>4. Typed!Sent(h) = <<x>>
    <3>1. Typed!Sent(h) = Typed!Replaced(value, h.old)
      BY <1>7, <2>1, SentParts
    <3>2. Typed!Replaced(Append(h.old, x), h.old) = <<x>>
      BY <2>3, ReplacedIsNew
    <3> QED
      BY <2>2, <3>1, <3>2
  <2>5. sent' = meant
    <3>1. \A s \in Seq(Nat) : s \o <<x>> = Append(s, x)
      OBVIOUS
    <3> QED
      BY <1>5, <1>6, <2>2, <2>4, <3>1
  <2>6. Texts3'
    BY <1>6, <1>9, <2>5
  <2>7. Len(putOff') = 0 /\ \A i \in 1..Len(putOff') : FALSE
    BY <1>4, <2>1
  <2>8. Idle'
    BY <1>1, <1>5, <1>14, <2>5, <2>7 DEF Idle, Inserted
  <2> QED
    BY <2>6, <2>8 DEF Phases
<1>15. CASE Composing
  <2>1. \A i \in 1..n :
            \/ putOff[i].do = "end"
            \/ putOff[i].do = "diff" /\ (i = 1 \/ (i = 2 /\ putOff[1].do = "send"))
            \/ putOff[i].do = "send" /\ i = 1 /\ n >= 2 /\ putOff[2].do = "diff"
    BY <1>15 DEF Composing
  <2>2. Typed!Sent(h) = <<>>
    <3>1. h.do = "end" \/ h.do = "diff" \/ h.do = "send"
      BY <1>4, <2>1 DEF h
    <3> QED
      BY <1>7, <1>15, <3>1, SentParts DEF Composing
  <2>3. \A i \in 1..(n - 1) : putOff'[i].do = "end" \/ (putOff'[i].do = "diff" /\ i = 1)
    <3>1. \A i \in 1..(n - 1) : i + 1 # 1 /\ (i + 1 = 2 => i = 1)
      BY <1>3
    <3> HIDE DEF n
    <3> QED
      BY <1>4, <2>1, <3>1
  <2>4. \A i \in 1..Len(putOff') :
            \/ putOff'[i].do = "end"
            \/ putOff'[i].do = "diff" /\ (i = 1 \/ (i = 2 /\ putOff'[1].do = "send"))
            \/ putOff'[i].do = "send" /\ i = 1 /\ Len(putOff') >= 2 /\ putOff'[2].do = "diff"
    BY <1>4, <2>3
  <2>5. (\A i \in 1..Len(putOff') : putOff'[i].do # "end") => position'.end = Len(value')
    <3> SUFFICES ASSUME \A i \in 1..Len(putOff') : putOff'[i].do # "end", h.do # "end"
                 PROVE  position'.end = Len(value)
      BY <1>1, <1>8
    <3>1. \A i \in 1..n : i = 1 \/ (i - 1 \in 1..(n - 1) /\ (i - 1) + 1 = i)
      BY <1>3
    <3>2. ASSUME NEW i \in 1..n PROVE putOff[i].do # "end"
      <4>1. CASE i = 1
        BY <4>1 DEF h
      <4>2. CASE i - 1 \in 1..(n - 1) /\ (i - 1) + 1 = i
        <5>1. putOff'[i - 1] = putOff[i] /\ i - 1 \in 1..Len(putOff')
          BY <1>4, <4>2
        <5> QED
          BY <5>1
      <4> QED
        BY <3>1, <4>1, <4>2
    <3> QED
      BY <1>8, <1>15, <3>2 DEF Composing
  <2>6. isSendingComposition' = FALSE /\ late' = FALSE /\ isComposing' = TRUE /\ meant' = sent'
    BY <1>1, <1>5, <1>11, <1>15, <2>2 DEF Composing
  <2>7. composed' \in 1..Len(value') /\ position'.start = Len(value') - composed'
    BY <1>1, <1>8, <1>15 DEF Composing
  <2>8. Composing'
    BY <2>4, <2>5, <2>6, <2>7 DEF Composing
  <2> QED
    BY <1>11, <2>2, <2>8 DEF Phases
<1>16. CASE Sending /\ n = 1
  <2>1. h.do = "send" /\ isSendingComposition = TRUE /\ isComposing = FALSE /\ ToSend(1)
    BY <1>16 DEF Sending, h
  <2>2. sent' = meant /\ Texts3'
    BY <1>12, <2>1
  <2>3. Len(putOff') = 0 /\ \A i \in 1..Len(putOff') : FALSE
    BY <1>4, <1>16
  <2>4. isSendingComposition' = FALSE /\ late' = FALSE
    BY <1>5, <2>1
  <2>5. Idle'
    BY <1>1, <1>16, <2>2, <2>3, <2>4 DEF Idle, Sending
  <2> QED
    BY <2>2, <2>5 DEF Phases
<1>17. CASE Sending /\ n # 1
  <2>1. n - 1 >= 1 /\ n - 1 \in 1..(n - 1) /\ (n - 1) + 1 = n /\ 1 # n
    <3>1. \A k \in Nat : k >= 1 /\ k # 1 => k - 1 >= 1 /\ k - 1 \in 1..(k - 1) /\ (k - 1) + 1 = k /\ 1 # k
      OBVIOUS
    <3>2. n # 1
      BY <1>17
    <3> HIDE DEF n
    <3> QED
      BY <1>3, <3>1, <3>2
  <2>2. h.do = "end" /\ isSendingComposition = TRUE /\ late = TRUE
    BY <1>4, <1>6, <1>17, <2>1 DEF Sending, h
  <2>3. Typed!Sent(h) = <<>>
    BY <1>7, <2>2, SentParts
  <2>4. sent' = sent /\ Texts3' /\ isSendingComposition' = TRUE /\ late' = TRUE
    BY <1>5, <1>11, <2>2, <2>3
  <2>5. putOff'[n - 1] = putOff[n]
    BY <1>4, <2>1
  <2>6. \A i \in 1..(n - 1) : i # n - 1 => putOff'[i].do = "end"
    <3>1. \A i \in 1..(n - 1) : i # n - 1 => i + 1 # n
      BY <1>3
    <3>2. \A i \in 1..n : i # n => putOff[i].do = "end"
      BY <1>17 DEF Sending
    <3> HIDE DEF n
    <3> QED
      BY <1>4, <3>1, <3>2
  <2>7. /\ putOff[n].do = "send" /\ putOff[n].start <= Len(value)
        /\ meant = sent \o Cut(value, putOff[n].start, Len(value))
    BY <1>17 DEF Sending, ToSend
  <2>8. ToSend(Len(putOff))'
    BY <1>1, <1>4, <2>4, <2>5, <2>7 DEF ToSend
  <2>9. Sending'
    BY <1>1, <1>4, <1>17, <2>1, <2>4, <2>5, <2>6, <2>7, <2>8 DEF Sending
  <2> QED
    BY <2>4, <2>9 DEF Phases
<1>18. CASE Both
  <2>1. /\ h.do = "send" /\ isSendingComposition = TRUE /\ isComposing = TRUE /\ late = FALSE /\ n >= 2
        /\ h.start <= h.end /\ composed \in 1..Len(value) /\ h.end = Len(value) - composed
        /\ meant = sent \o Cut(value, h.start, h.end)
    BY <1>18 DEF Both, h
  <2>2. h.end <= Len(value)
    BY <1>6, <2>1
  <2>3. Typed!Sent(h) = Cut(value, h.start, h.end)
    <3>1. Typed!Sent(h) = Typed!Substring(h.start, h.end)
      BY <1>7, <2>1, SentParts
    <3> QED
      BY <1>6, <2>1, <2>2, <3>1, SubstringIsCut
  <2>4. sent' = meant /\ Texts3'
    BY <1>5, <1>6, <1>9, <2>1, <2>3
  <2>5. isSendingComposition' = FALSE /\ late' = FALSE /\ isComposing' = TRUE
    BY <1>1, <1>5, <2>1
  <2>6. \A i \in 1..(n - 1) : putOff'[i].do = "end"
    <3>1. \A i \in 1..(n - 1) : i + 1 # 1
      BY <1>3
    <3> QED
      BY <1>4, <1>18, <3>1 DEF Both
  <2>7. 1 \in 1..(n - 1)
    BY <1>3, <2>1
  <2>8. composed' \in 1..Len(value') /\ position'.start = Len(value') - composed'
    BY <1>1, <1>8, <1>18 DEF Both
  <2>9. ~(\A i \in 1..Len(putOff') : putOff'[i].do # "end") /\ \A i \in 1..Len(putOff') : putOff'[i].do = "end"
    BY <1>4, <2>6, <2>7
  <2>10. Composing'
    BY <1>1, <2>4, <2>5, <2>8, <2>9 DEF Composing
  <2> QED
    BY <2>4, <2>10 DEF Phases
<1>19. CASE Twice
  <2>1. h.do = "send" /\ isSendingComposition = TRUE /\ isComposing = FALSE /\ ToSend(1)
    BY <1>19 DEF Twice, h
  <2>2. sent' = meant /\ Texts3' /\ isSendingComposition' = FALSE /\ late' = FALSE
    BY <1>5, <1>12, <2>1
  <2>3. \A i \in 1..Len(putOff') : putOff'[i].do = "end" \/ (putOff'[i].do = "send" /\ i = Len(putOff'))
    <3>1. \A i \in 1..(n - 1) : i + 1 # 1 /\ (i + 1 = n => i = n - 1)
      BY <1>3
    <3>2. putOff[n].do = "send" /\ \A i \in 1..n : i # 1 /\ i # n => putOff[i].do = "end"
      BY <1>19 DEF Twice
    <3> HIDE DEF n
    <3> QED
      BY <1>4, <3>1, <3>2
  <2>4. Idle'
    BY <1>1, <1>19, <2>2, <2>3 DEF Idle, Twice
  <2> QED
    BY <2>2, <2>4 DEF Phases
<1> QED
  BY <1>2, <1>13, <1>14, <1>15, <1>16, <1>17, <1>18, <1>19 DEF Phases

(* What is sent is the beginning of what was to be sent.                   *)
LEMMA JoinedBegins ==
  ASSUME NEW x \in Seq(Nat), NEW y \in Seq(Nat)
  PROVE  Len(x) <= Len(x \o y) /\ SubSeq(x \o y, 1, Len(x)) = x
<1> DEFINE w == x \o y
           n == Len(x)
<1>1. n \in Nat /\ Len(y) \in Nat
  BY LenProperties
<1>2. w \in Seq(Nat) /\ Len(w) = n + Len(y) /\ \A i \in 1..n : w[i] = x[i]
  BY <1>1, ConcatProperties
<1>3. 0 \in Nat /\ 0 <= n /\ n <= Len(w) /\ 0 + 1 = 1 /\ n - 0 = n /\ \A i \in 1..n : 0 + i = i
  BY <1>1, <1>2
<1>4. Len(x) = n
  OBVIOUS
<1> HIDE DEF w, n
<1>5. /\ Cut(w, 0, n) \in Seq(Nat) /\ Len(Cut(w, 0, n)) = n - 0
      /\ \A i \in 1..(n - 0) : Cut(w, 0, n)[i] = w[0 + i]
  BY <1>1, <1>2, <1>3, CutParts
<1>6. Cut(w, 0, n) = x
  <2>1. \A i \in 1..n : Cut(w, 0, n)[i] = x[i]
    BY <1>2, <1>3, <1>5
  <2> QED
    BY <1>3, <1>4, <1>5, <2>1, SeqEqual
<1>7. n <= Len(w) /\ SubSeq(w, 1, n) = x
  BY <1>3, <1>6 DEF Cut
<1> QED
  BY <1>7 DEF w, n

LEMMA ComposedHolds == ComposedInv => Typed!ComposedOnce
<1> SUFFICES ASSUME ComposedInv, ~hurried
             PROVE  /\ Len(sent) <= Len(meant) /\ sent = SubSeq(meant, 1, Len(sent))
                    /\ putOff = <<>> /\ composed = Typed!NotComposing => sent = meant
  BY DEF Typed!ComposedOnce
<1>1. Texts3 /\ Phases
  BY DEF ComposedInv
<1>2. /\ Len(value) \in Nat /\ Len(putOff) \in Nat /\ sent \in Seq(Nat) /\ value \in Seq(Nat)
      /\ \A i \in 1..Len(putOff) : putOff[i].start \in Nat /\ putOff[i].end \in Nat
  BY <1>1, TextParts DEF Texts3
<1>3. PICK y \in Seq(Nat) : meant = sent \o y
  <2>1. CASE Idle \/ Composing
    <3>1. <<>> \in Seq(Nat) /\ \A s \in Seq(Nat) : s = s \o <<>>
      OBVIOUS
    <3>2. meant = sent \o <<>>
      BY <1>2, <2>1, <3>1 DEF Idle, Composing
    <3> QED
      BY <3>1, <3>2
  <2>2. CASE Inserted
    <3>1. PICK x \in Nat : meant = Append(sent, x)
      BY <2>2 DEF Inserted
    <3>2. <<x>> \in Seq(Nat) /\ \A s \in Seq(Nat) : Append(s, x) = s \o <<x>>
      OBVIOUS
    <3> QED
      BY <1>2, <3>1, <3>2
  <2>3. ASSUME NEW k \in 1..Len(putOff), ToSend(k) PROVE \E y \in Seq(Nat) : meant = sent \o y
    <3>1. putOff[k].start <= Len(value) /\ meant = sent \o Cut(value, putOff[k].start, Len(value))
          /\ putOff[k].start \in Nat /\ Len(value) <= Len(value)
      BY <1>2, <2>3 DEF ToSend
    <3>2. Cut(value, putOff[k].start, Len(value)) \in Seq(Nat)
      BY <1>2, <3>1, CutParts
    <3> QED
      BY <3>1, <3>2
  <2>4. CASE Sending
    <3>1. Len(putOff) \in 1..Len(putOff) /\ ToSend(Len(putOff))
      BY <1>2, <2>4 DEF Sending
    <3> QED
      BY <2>3, <3>1
  <2>5. CASE Both
    <3>1. /\ 1 \in 1..Len(putOff) /\ putOff[1].start <= putOff[1].end /\ composed \in 1..Len(value)
          /\ putOff[1].end = Len(value) - composed
          /\ meant = sent \o Cut(value, putOff[1].start, putOff[1].end)
      BY <1>2, <2>5 DEF Both
    <3>2. putOff[1].end <= Len(value) /\ putOff[1].start \in Nat /\ putOff[1].end \in Nat
      BY <1>2, <3>1
    <3>3. Cut(value, putOff[1].start, putOff[1].end) \in Seq(Nat)
      BY <1>2, <3>1, <3>2, CutParts
    <3> QED
      BY <3>1, <3>3
  <2>6. CASE Twice
    <3>1. 1 \in 1..Len(putOff) /\ ToSend(1)
      BY <1>2, <2>6 DEF Twice
    <3> QED
      BY <2>3, <3>1
  <2> QED
    BY <1>1, <2>1, <2>2, <2>4, <2>5, <2>6 DEF Phases
<1>4. Len(sent) <= Len(meant) /\ sent = SubSeq(meant, 1, Len(sent))
  BY <1>2, <1>3, JoinedBegins
<1>5. ASSUME putOff = <<>>, composed = Typed!NotComposing PROVE sent = meant
  <2>1. Len(putOff) = 0
    BY <1>5, EmptySeq
  <2>2. Idle
    BY <1>1, <1>2, <1>5, <2>1 DEF Phases, Inserted, Composing, Sending, Both, Twice, Typed!NotComposing
  <2> QED
    BY <2>2 DEF Idle
<1> QED
  BY <1>4, <1>5
-----------------------------------------------------------------------------
(* The selection.                                                          *)

LEMMA SmallestIn == ASSUME NEW T \in SUBSET Nat, T # {} PROVE \E x \in T : \A y \in T : x <= y
<1> DEFINE R == OpToRel(<, Nat)
<1>1. IsWellFoundedOn(R, Nat)
  BY NatLessThanWellFounded
<1>2. PICK x \in T : \A y \in T : <<y, x>> \notin R
  <2> HIDE DEF R
  <2> QED
    BY <1>1, WFMin
<1>3. \A y \in T : ~(y < x)
  BY <1>2 DEF OpToRel
<1> QED
  BY <1>3

LEMMA LeastParts ==
  ASSUME NEW S \in SUBSET Int, S # {}, NEW lo \in Int, \A x \in S : lo <= x
  PROVE  LeastOf(S) \in S /\ \A y \in S : LeastOf(S) <= y
<1> DEFINE T == {x - lo : x \in S}
<1>1. \A x \in S : x \in Int /\ x - lo \in Nat
  OBVIOUS
<1>2. T \in SUBSET Nat /\ T # {}
  BY <1>1
<1>3. \E t \in T : \A u \in T : t <= u
  <2> HIDE DEF T
  <2> QED
    BY <1>2, SmallestIn
<1>4. PICK x \in S : \A y \in S : x - lo <= y - lo
  BY <1>3
<1>5. \A y \in S : x <= y
  BY <1>1, <1>4
<1> QED
  BY <1>5 DEF LeastOf

LEMMA GreatestParts ==
  ASSUME NEW S \in SUBSET Int, S # {}, NEW hi \in Int, \A x \in S : x <= hi
  PROVE  GreatestOf(S) \in S /\ \A y \in S : GreatestOf(S) >= y
<1> DEFINE T == {hi - x : x \in S}
<1>1. \A x \in S : x \in Int /\ hi - x \in Nat
  OBVIOUS
<1>2. T \in SUBSET Nat /\ T # {}
  BY <1>1
<1>3. \E t \in T : \A u \in T : t <= u
  <2> HIDE DEF T
  <2> QED
    BY <1>2, SmallestIn
<1>4. PICK x \in S : \A y \in S : hi - x <= hi - y
  BY <1>3
<1>5. \A y \in S : x >= y
  BY <1>1, <1>4
<1> QED
  BY <1>5 DEF GreatestOf

LEMMA LeastIn ==
  ASSUME NEW lo \in Int, NEW hi \in Int, NEW S \in SUBSET (lo..hi), S # {}
  PROVE  LeastOf(S) \in lo..hi
<1>1. S \in SUBSET Int /\ \A x \in S : lo <= x
  OBVIOUS
<1>2. LeastOf(S) \in S
  BY <1>1, LeastParts
<1> QED
  BY <1>2

LEMMA GreatestIn ==
  ASSUME NEW lo \in Int, NEW hi \in Int, NEW S \in SUBSET (lo..hi), S # {}
  PROVE  GreatestOf(S) \in lo..hi
<1>1. S \in SUBSET Int /\ \A x \in S : x <= hi
  OBVIOUS
<1>2. GreatestOf(S) \in S
  BY <1>1, GreatestParts
<1> QED
  BY <1>2

(* Rows of cells, one after another.                                       *)
LEMMA ColsParts ==
  ASSUME NEW n \in Nat
  PROVE  /\ n \div Cols \in Nat /\ n % Cols \in 0..(Cols - 1)
         /\ n = ((n \div Cols) * Cols) + (n % Cols)
BY SelectionAssumption

LEMMA RowBefore ==
  ASSUME NEW m \in Int, NEW n \in Int, NEW x \in Int, m * Cols + x <= n * Cols
  PROVE  /\ x > 0 => m < n
         /\ x >= 0 => m <= n
<1>1. ASSUME n <= m PROVE n * Cols <= m * Cols
  <2>1. PICK d : d = m - n
    OBVIOUS
  <2>2. d \in Nat /\ m = n + d
    BY <1>1, <2>1
  <2>3. d * Cols \in Nat /\ (n + d) * Cols = n * Cols + d * Cols /\ n * Cols \in Int
    BY <2>2, SelectionAssumption
  <2> QED
    BY <2>2, <2>3
<1>2. ASSUME n < m PROVE n * Cols + Cols <= m * Cols
  <2>1. PICK d : d = m - n - 1
    OBVIOUS
  <2>2. d \in Nat /\ m = n + 1 + d
    BY <1>2, <2>1
  <2>3. d * Cols \in Nat /\ (n + 1 + d) * Cols = n * Cols + Cols + d * Cols /\ n * Cols \in Int
    BY <2>2, SelectionAssumption
  <2>4. PICK n1, n2 : n1 = n * Cols /\ n2 = d * Cols
    OBVIOUS
  <2>5. n1 \in Int /\ n2 \in Nat /\ m * Cols = n1 + Cols + n2 /\ Cols \in Nat
    BY <2>2, <2>3, <2>4, SelectionAssumption
  <2> QED
    BY <2>4, <2>5
<1>3. m * Cols \in Int /\ n * Cols \in Int
  BY SelectionAssumption
<1> QED
  BY <1>1, <1>2, <1>3, SelectionAssumption

(* Places of the array, as the list goes round.                            *)
LEMMA RoundParts ==
  ASSUME NEW k \in Nat, k < 2 * MaxLines
  PROVE  k % MaxLines = IF k < MaxLines THEN k ELSE k - MaxLines
<1>1. MaxLines \in Nat \ {0}
  BY SelectionAssumption
<1>2. k % MaxLines \in 0..(MaxLines - 1) /\ k = ((k \div MaxLines) * MaxLines) + (k % MaxLines) /\ k \div MaxLines \in Nat
  BY <1>1
<1>3. PICK q, r : q = k \div MaxLines /\ r = k % MaxLines
  OBVIOUS
<1>4. q \in Nat /\ r \in 0..(MaxLines - 1) /\ k = q * MaxLines + r
  BY <1>2, <1>3
<1>5. q = 0 \/ q = 1
  <2>1. SUFFICES ASSUME q >= 2 PROVE FALSE
    BY <1>4
  <2>2. PICK d \in Nat : q = 2 + d
    <3>1. q - 2 \in Nat /\ q = 2 + (q - 2)
      BY <1>4, <2>1
    <3> QED
      BY <3>1
  <2>3. d * MaxLines \in Nat /\ q * MaxLines = 2 * MaxLines + d * MaxLines
    BY <1>1, <2>2
  <2> QED
    BY <1>1, <1>4, <2>3
<1>6. CASE q = 0
  <2>1. k = r
    BY <1>1, <1>4, <1>6
  <2>2. k < MaxLines
    BY <1>1, <1>4, <2>1
  <2> QED
    BY <1>3, <2>1, <2>2
<1>7. CASE q = 1
  <2>1. k = MaxLines + r
    BY <1>1, <1>4, <1>7
  <2>2. k >= MaxLines /\ k - MaxLines = r
    BY <1>1, <1>4, <2>1
  <2> QED
    BY <1>1, <1>3, <2>2
<1> QED
  BY <1>5, <1>6, <1>7

-----------------------------------------------------------------------------
(* Words: where they start, how long they are.                             *)
LEMMA WordFromRange ==
  ASSUME NEW row \in Int, NEW col \in 0..(Cols - 1)
  PROVE  WordFrom(row, col) \in 0..col
<1> DEFINE S == { s \in 0..col : \A c \in s..(col - 1) :
                    IF IsBlank(Cell(row, col)) THEN IsBlank(Cell(row, c)) ELSE Cell(row, c) \notin Separators }
<1>1. col \in Int /\ col \in 0..col /\ col..(col - 1) = {}
  BY SelectionAssumption
<1>2. col \in S
  BY <1>1
<1>3. S \in SUBSET (0..col) /\ S # {} /\ 0 \in Int
  BY <1>1, <1>2
<1>4. WordFrom(row, col) = LeastOf(S)
  BY DEF WordFrom
<1> HIDE DEF S
<1> QED
  BY <1>1, <1>3, <1>4, LeastIn

LEMMA WordToRange ==
  ASSUME NEW row \in Int, NEW col \in 0..(Cols - 1)
  PROVE  WordTo(row, col) \in col..(Cols - 1)
<1> DEFINE S == { e \in col..(Cols - 1) : \A c \in (col + 1)..e :
                    IF IsBlank(Cell(row, col)) THEN IsBlank(Cell(row, c)) ELSE Cell(row, c) \notin Separators }
<1>1. col \in Int /\ col \in col..(Cols - 1) /\ (col + 1)..col = {} /\ Cols - 1 \in Int
  BY SelectionAssumption
<1>2. col \in S
  BY <1>1
<1>3. S \in SUBSET (col..(Cols - 1)) /\ S # {}
  BY <1>1, <1>2
<1>4. WordTo(row, col) = GreatestOf(S)
  BY DEF WordTo
<1> HIDE DEF S
<1> QED
  BY <1>1, <1>3, <1>4, GreatestIn

LEMMA RowsAboveRange ==
  ASSUME NEW row \in Nat
  PROVE  RowsAbove(row) \in 0..(MaxLines + row)
<1> DEFINE S == { k \in 0..(MaxLines + row) : \A i \in 1..k :
                    /\ GoesOn(row - i + 1) /\ ~IsBlank(Cell(row - i, Cols - 1))
                    /\ i < k => WordFrom(row - i, Cols - 1) = 0 }
<1>1. MaxLines + row \in Nat /\ 1..0 = {}
  BY SelectionAssumption
<1>2. 0 \in S
  BY <1>1
<1>3. S \in SUBSET (0..(MaxLines + row)) /\ S # {} /\ 0 \in Int
  BY <1>1, <1>2
<1>4. RowsAbove(row) = GreatestOf(S)
  BY DEF RowsAbove
<1> HIDE DEF S
<1> QED
  BY <1>1, <1>3, <1>4, GreatestIn

LEMMA RowsBelowRange ==
  ASSUME NEW row \in Nat, count \in Nat, row < count
  PROVE  RowsBelow(row) \in 0..(count - 1 - row)
<1>1. PICK d : d = count - 1 - row
  OBVIOUS
<1> DEFINE S == { k \in 0..d : \A i \in 1..k :
                    /\ GoesOn(row + i) /\ ~IsBlank(Cell(row + i, 0))
                    /\ i < k => WordTo(row + i, 0) = Cols - 1 }
<1>2. d \in Nat /\ 1..0 = {}
  BY <1>1
<1>3. 0 \in S
  BY <1>2
<1>4. S \in SUBSET (0..d) /\ S # {} /\ 0 \in Int
  BY <1>3
<1>5. RowsBelow(row) = GreatestOf(S)
  BY <1>1 DEF RowsBelow
<1> HIDE DEF S
<1>6. 0 \in Int /\ d \in Int
  BY <1>2
<1>7. GreatestOf(S) \in 0..d
  BY <1>4, <1>6, GreatestIn
<1> QED
  BY <1>1, <1>5, <1>7

LEMMA AboveRange ==
  ASSUME NEW row \in Nat
  PROVE  Above(row) \in Nat
<1>1. PICK k : k = RowsAbove(row)
  OBVIOUS
<1>2. k \in Nat
  BY <1>1, RowsAboveRange
<1>3. CASE k = 0
  BY <1>1, <1>3 DEF Above
<1>4. CASE k # 0
  <2>1. PICK r : r = row - k
    OBVIOUS
  <2>2. r \in Int /\ Cols - 1 \in 0..(Cols - 1)
    BY <1>2, <2>1, SelectionAssumption
  <2>3. PICK w : w = WordFrom(r, Cols - 1)
    OBVIOUS
  <2>4. w \in 0..(Cols - 1)
    BY <2>2, <2>3, WordFromRange
  <2>5. PICK j \in Nat : k = j + 1
    <3>1. k - 1 \in Nat /\ k = (k - 1) + 1
      BY <1>2, <1>4
    <3> QED
      BY <3>1
  <2>6. j * Cols \in Nat /\ k * Cols = j * Cols + Cols
    BY <2>5, SelectionAssumption
  <2>7. k * Cols - w \in Nat
    BY <2>4, <2>6, SelectionAssumption
  <2> QED
    BY <1>1, <1>4, <2>1, <2>3, <2>7 DEF Above
<1> QED
  BY <1>3, <1>4

LEMMA BelowRange ==
  ASSUME NEW row \in Nat, count \in Nat, row < count
  PROVE  /\ Below(row) \in Nat
         /\ (row + 1) * Cols + Below(row) <= count * Cols
<1>1. PICK k : k = RowsBelow(row)
  OBVIOUS
<1>2. k \in 0..(count - 1 - row)
  BY <1>1, RowsBelowRange
<1>3. Below(row) \in Nat /\ Below(row) <= k * Cols
  <2>1. CASE k = 0
    BY <1>1, <2>1, SelectionAssumption DEF Below
  <2>2. CASE k # 0
    <3>1. PICK r : r = row + k
      OBVIOUS
    <3>2. r \in Int /\ 0 \in 0..(Cols - 1)
      BY <1>2, <3>1, SelectionAssumption
    <3>3. PICK w : w = WordTo(r, 0)
      OBVIOUS
    <3>4. w \in 0..(Cols - 1)
      BY <3>2, <3>3, WordToRange
    <3>5. PICK j \in Nat : k = j + 1
      <4>1. k - 1 \in Nat /\ k = (k - 1) + 1
        BY <1>2, <2>2
      <4> QED
        BY <4>1
    <3>6. PICK n1 : n1 = j * Cols
      OBVIOUS
    <3>7. n1 \in Nat /\ k * Cols = n1 + Cols /\ k - 1 = j
      BY <3>5, <3>6, SelectionAssumption
    <3>8. Below(row) = (k - 1) * Cols + w + 1
      BY <1>1, <2>2, <3>1, <3>3 DEF Below
    <3>9. Below(row) = n1 + w + 1
      BY <3>6, <3>7, <3>8
    <3> QED
      BY <3>4, <3>7, <3>9, SelectionAssumption
  <2> QED
    BY <2>1, <2>2
<1>4. PICK d \in Nat : count = (row + 1) + k + d
  <2>1. count - (row + 1) - k \in Nat /\ count = (row + 1) + k + (count - (row + 1) - k)
    BY <1>2
  <2> QED
    BY <2>1
<1>5. PICK n1, n2, e : n1 = (row + 1) * Cols /\ n2 = k * Cols /\ e = d * Cols
  OBVIOUS
<1>6. n1 \in Nat /\ n2 \in Nat /\ e \in Nat
  BY <1>2, <1>4, <1>5, SelectionAssumption
<1>7. count * Cols = n1 + n2 + e
  <2>1. ((row + 1) + k + d) * Cols = (row + 1) * Cols + k * Cols + d * Cols
    BY <1>2, SelectionAssumption
  <2> QED
    BY <1>4, <1>5, <2>1
<1> QED
  BY <1>3, <1>5, <1>6, <1>7

(* A row of the buffer; what _getWordAt finds there starts in a column, at *)
(* or above the row, and ends within the buffer.                           *)
LEMMA WordAtParts ==
  ASSUME count \in Nat, NEW col \in 0..Cols, NEW row \in Nat, row < count, NEW blanksToo \in BOOLEAN,
         WordAt(<<col, row>>, blanksToo) # None
  PROVE  \E x \in 0..(Cols - 1), y \in Int, n \in Nat :
            /\ WordAt(<<col, row>>, blanksToo) = [start |-> <<x, y>>, length |-> n]
            /\ y <= row /\ n > 0 /\ y * Cols + x + n <= count * Cols
<1> DEFINE word == WordAt(<<col, row>>, blanksToo)
<1>1. PICK p : p = <<col, row>>
  OBVIOUS
<1>2. p[1] = col /\ p[2] = row
  BY <1>1
<1>3. PICK from, to : from = WordFrom(row, col) /\ to = WordTo(row, col)
  OBVIOUS
<1>4. PICK over, under : /\ over = (IF from = 0 THEN Above(row) ELSE 0)
                         /\ under = (IF to = Cols - 1 THEN Below(row) ELSE 0)
  OBVIOUS
<1>5. PICK start : start = from - over
  OBVIOUS
<1>6. PICK up : up = IF start >= 0 THEN 0 ELSE (Cols - 1 - start) \div Cols
  OBVIOUS
<1>7. col < Cols /\ word = [start |-> <<start + up * Cols, row - up>>, length |-> (to - from + 1) + over + under]
  <2>1. word = WordAt(p, blanksToo)
    BY <1>1
  <2>2. ~(col >= Cols \/ ~Exists(row) \/ (~blanksToo /\ IsBlank(Cell(row, col))))
    BY <1>2, <2>1 DEF WordAt
  <2>3. word = [start |-> <<start + up * Cols, row - up>>, length |-> (to - from + 1) + over + under]
    BY <1>2, <1>3, <1>4, <1>5, <1>6, <2>1, <2>2 DEF WordAt
  <2> QED
    BY <2>2, <2>3, SelectionAssumption
<1>8. from \in 0..col /\ to \in col..(Cols - 1)
  <2>1. col \in 0..(Cols - 1) /\ row \in Int
    BY <1>7, SelectionAssumption
  <2> QED
    BY <1>3, <2>1, WordFromRange, WordToRange
<1>9. over \in Nat /\ under \in Nat
  BY <1>4, AboveRange, BelowRange
<1>10. PICK R, C : R = row * Cols /\ C = count * Cols
  OBVIOUS
<1>11. R \in Nat /\ C \in Nat /\ R + Cols <= C /\ (row + 1) * Cols = R + Cols
  <2>1. R \in Nat /\ C \in Nat /\ (row + 1) * Cols = R + Cols
    BY <1>10, SelectionAssumption
  <2>2. Below(row) \in Nat /\ (row + 1) * Cols + Below(row) <= C
    BY <1>10, BelowRange
  <2> QED
    BY <2>1, <2>2, SelectionAssumption
<1>12. R + to + 1 + under <= C
  <2>1. CASE to = Cols - 1
    <3>1. (row + 1) * Cols + Below(row) <= C /\ under = Below(row)
      BY <1>4, <1>10, <2>1, BelowRange
    <3> QED
      BY <1>8, <1>9, <1>11, <2>1, <3>1, SelectionAssumption
  <2>2. CASE to # Cols - 1
    <3>1. under = 0
      BY <1>4, <2>2
    <3> QED
      BY <1>8, <1>11, <3>1, SelectionAssumption
  <2> QED
    BY <2>1, <2>2
<1>13. start \in Int /\ start <= col
  BY <1>5, <1>8, <1>9
<1>14. up \in Nat /\ start + up * Cols \in 0..(Cols - 1)
  <2>1. CASE start >= 0
    BY <1>6, <1>7, <1>13, <2>1, SelectionAssumption
  <2>2. CASE start < 0
    <3>1. PICK z : z = Cols - 1 - start
      OBVIOUS
    <3>2. z \in Nat
      BY <1>13, <2>2, <3>1, SelectionAssumption
    <3>3. up = z \div Cols
      BY <1>6, <1>13, <2>2, <3>1
    <3>4. PICK m : m = z % Cols
      OBVIOUS
    <3>5. up \in Nat /\ m \in 0..(Cols - 1) /\ z = up * Cols + m
      BY <3>2, <3>3, <3>4, ColsParts
    <3>6. PICK n1 : n1 = up * Cols
      OBVIOUS
    <3>7. n1 \in Nat
      BY <3>5, <3>6, SelectionAssumption
    <3>8. start + n1 = Cols - 1 - m
      BY <1>13, <3>1, <3>5, <3>6, <3>7, SelectionAssumption
    <3> QED
      BY <3>5, <3>6, <3>8, SelectionAssumption
  <2> QED
    BY <1>13, <2>1, <2>2
<1>15. PICK x, y, n, u : x = start + up * Cols /\ y = row - up /\ n = (to - from + 1) + over + under /\ u = up * Cols
  OBVIOUS
<1>16. x \in 0..(Cols - 1) /\ y \in Int /\ y <= row /\ n \in Nat /\ n > 0 /\ u \in Nat /\ x = start + u
  BY <1>8, <1>9, <1>14, <1>15, SelectionAssumption
<1>17. y * Cols = R - u
  <2>1. (row - up) * Cols = row * Cols - up * Cols
    BY <1>14, SelectionAssumption
  <2> QED
    BY <1>10, <1>15, <2>1
<1>18. y * Cols + x + n <= count * Cols
  <2>1. x + n = u + to + 1 + under
    BY <1>5, <1>8, <1>9, <1>13, <1>15, <1>16
  <2>2. R - u + (u + to + 1 + under) <= C
    BY <1>8, <1>9, <1>11, <1>12, <1>16
  <2>3. y * Cols + x + n = R - u + (u + to + 1 + under)
    BY <1>8, <1>9, <1>11, <1>16, <1>17, <2>1
  <2> QED
    BY <1>10, <2>2, <2>3
<1>19. word = [start |-> <<x, y>>, length |-> n]
  BY <1>7, <1>15
<1> HIDE DEF word
<1>20. \E n1 \in 0..(Cols - 1), n2 \in Int, k \in Nat :
            /\ word = [start |-> <<n1, n2>>, length |-> k]
            /\ n2 <= row /\ k > 0 /\ n2 * Cols + n1 + k <= count * Cols
  BY <1>16, <1>18, <1>19
<1> QED
  BY <1>20 DEF word

-----------------------------------------------------------------------------
(* Selections.  A place that was made by the user is on a row of the       *)
(* buffer, and the length of a selection ends within it.                   *)
Spots == {None} \cup ((0..Cols) \X Int)
Selections == [start : Spots, end : Spots, length : Nat, all : BOOLEAN]

StartIn(s, n) == s.start = None \/ (s.start[2] <= n - 1 /\ s.start[2] * Cols + s.start[1] + s.length <= n * Cols)
EndIn(s, n) == s.end = None \/ s.end[2] <= n - 1
Made(s, t, n) ==
    /\ (t.start = s.start /\ t.length = s.length) \/ StartIn(t, n)
    /\ t.end = s.end \/ EndIn(t, n)

LEMMA SpotParts ==
  /\ None \in Spots
  /\ \A x \in 0..Cols, y \in Int : <<x, y>> \in Spots /\ <<x, y>> # None /\ <<x, y>>[1] = x /\ <<x, y>>[2] = y
  /\ \A p \in Spots : p # None => p[1] \in 0..Cols /\ p[2] \in Int /\ p = <<p[1], p[2]>>
BY SelectionAssumption DEF Spots, None

LEMMA SetStart ==
  ASSUME NEW s \in Selections, NEW p \in Spots, NEW n \in Nat
  PROVE  /\ [s EXCEPT !.start = p, !.length = n] \in Selections
         /\ [s EXCEPT !.start = p, !.length = n].start = p
         /\ [s EXCEPT !.start = p, !.length = n].end = s.end
         /\ [s EXCEPT !.start = p, !.length = n].length = n
         /\ [s EXCEPT !.start = p, !.length = n].all = s.all
BY DEF Selections

LEMMA SetEnd ==
  ASSUME NEW s \in Selections, NEW p \in Spots
  PROVE  /\ [s EXCEPT !.end = p] \in Selections
         /\ [s EXCEPT !.end = p].start = s.start
         /\ [s EXCEPT !.end = p].end = p
         /\ [s EXCEPT !.end = p].length = s.length
         /\ [s EXCEPT !.end = p].all = s.all
BY DEF Selections

LEMMA SetColumn ==
  ASSUME NEW s \in Selections, s.end # None, NEW x \in 0..Cols
  PROVE  /\ [s EXCEPT !.end[1] = x] \in Selections
         /\ [s EXCEPT !.end[1] = x].start = s.start
         /\ [s EXCEPT !.end[1] = x].end # None
         /\ [s EXCEPT !.end[1] = x].end[2] = s.end[2]
         /\ [s EXCEPT !.end[1] = x].length = s.length
         /\ [s EXCEPT !.end[1] = x].all = s.all
<1>1. s.end \in Spots
  BY DEF Selections
<1>2. PICK u \in 0..Cols, v \in Int : s.end = <<u, v>>
  BY <1>1, SpotParts
<1>3. [s EXCEPT !.end[1] = x] = [s EXCEPT !.end = <<x, v>>]
  <2>1. [s.end EXCEPT ![1] = x] = <<x, v>>
    BY <1>2
  <2> QED
    BY <2>1
<1>4. <<x, v>> \in Spots /\ <<x, v>> # None /\ <<x, v>>[2] = v /\ s.end[2] = v
  BY <1>2, SpotParts
<1>5. PICK q : q = <<x, v>>
  OBVIOUS
<1>6. q \in Spots /\ q # None /\ q[2] = s.end[2] /\ [s EXCEPT !.end[1] = x] = [s EXCEPT !.end = q]
  BY <1>3, <1>4, <1>5
<1>7. PICK t : t = [s EXCEPT !.end = q]
  OBVIOUS
<1>8. t \in Selections /\ t.start = s.start /\ t.end = q /\ t.length = s.length /\ t.all = s.all
  BY <1>6, <1>7, SetEnd
<1>9. [s EXCEPT !.end[1] = x] = t
  BY <1>6, <1>7
<1> QED
  BY <1>6, <1>8, <1>9

LEMMA NothingSelected == NoSelection \in Selections /\ NoSelection.start = None /\ NoSelection.end = None
                         /\ NoSelection.length = 0 /\ NoSelection.all = FALSE
BY SpotParts DEF NoSelection, Selections

LEMMA SelectedWordParts ==
  ASSUME NEW s \in Selections, count \in Nat, NEW col \in 0..Cols, NEW row \in Nat, row < count, NEW blanksToo \in BOOLEAN
  PROVE  /\ SelectedWord(s, <<col, row>>, blanksToo) \in Selections
         /\ SelectedWord(s, <<col, row>>, blanksToo).end = s.end
         /\ s.start # None => SelectedWord(s, <<col, row>>, blanksToo).start # None
         /\ Made(s, SelectedWord(s, <<col, row>>, blanksToo), count)
<1>1. PICK p : p = <<col, row>>
  OBVIOUS
<1>2. PICK word : word = WordAt(p, blanksToo)
  OBVIOUS
<1>3. CASE word = None
  BY <1>1, <1>2, <1>3 DEF SelectedWord, Made
<1>4. CASE word # None
  <2>1. \E x \in 0..(Cols - 1), y \in Int, n \in Nat :
            /\ word = [start |-> <<x, y>>, length |-> n]
            /\ y <= row /\ n > 0 /\ y * Cols + x + n <= count * Cols
    <3>1. word = WordAt(<<col, row>>, blanksToo)
      BY <1>1, <1>2
    <3>2. WordAt(<<col, row>>, blanksToo) # None
      BY <1>4, <3>1
    <3>3. \E x \in 0..(Cols - 1), y \in Int, n \in Nat :
            /\ WordAt(<<col, row>>, blanksToo) = [start |-> <<x, y>>, length |-> n]
            /\ y <= row /\ n > 0 /\ y * Cols + x + n <= count * Cols
      BY <3>2, WordAtParts
    <3> QED
      BY <3>1, <3>3
  <2>2. PICK x \in 0..(Cols - 1), y \in Int, n \in Nat :
            /\ word = [start |-> <<x, y>>, length |-> n]
            /\ y <= row /\ n > 0 /\ y * Cols + x + n <= count * Cols
    BY <2>1
  <2>3. PICK q : q = <<x, y>>
    OBVIOUS
  <2>4. q \in Spots /\ q # None /\ q[1] = x /\ q[2] = y /\ word.start = q /\ word.length = n
    BY <2>2, <2>3, SpotParts, SelectionAssumption
  <2>5. PICK t : t = [s EXCEPT !.start = q, !.length = n]
    OBVIOUS
  <2>6. SelectedWord(s, p, blanksToo) = t
    BY <1>2, <1>4, <2>4, <2>5 DEF SelectedWord
  <2>7. t \in Selections /\ t.start = q /\ t.end = s.end /\ t.length = n
    BY <2>2, <2>4, <2>5 DEF Selections
  <2>8. StartIn(t, count)
    BY <2>2, <2>4, <2>7 DEF StartIn
  <2> QED
    BY <1>1, <2>4, <2>6, <2>7, <2>8 DEF Made
<1> QED
  BY <1>3, <1>4

LEMMA ExtendedParts ==
  ASSUME NEW s \in Selections, count \in Nat, NEW col \in 0..Cols, NEW row \in Nat, row < count, s.end = <<col, row>>
  PROVE  /\ ExtendedToWord(s) \in Selections
         /\ ExtendedToWord(s).start = s.start /\ ExtendedToWord(s).length = s.length
         /\ ExtendedToWord(s).end # None /\ ExtendedToWord(s).end[2] <= count - 1
         /\ ExtendedToWord(s).all = s.all
<1>1. PICK word : word = WordAt(s.end, TRUE)
  OBVIOUS
<1>2. PICK past : past = word.start[1] + word.length
  OBVIOUS
<1>3. PICK down : down = IF past > Cols THEN (past - 1) \div Cols ELSE 0
  OBVIOUS
<1>4. CASE word = None
  <2>1. ExtendedToWord(s) = s
    BY <1>1, <1>4 DEF ExtendedToWord
  <2>2. s.end # None /\ s.end[2] = row
    BY SpotParts
  <2>3. PICK t : t = ExtendedToWord(s)
    OBVIOUS
  <2>4. t = s
    BY <2>1, <2>3
  <2>5. /\ t \in Selections /\ t.start = s.start /\ t.length = s.length /\ t.end # None /\ t.end[2] <= count - 1
    BY <2>2, <2>4
  <2>6. t.all = s.all
    BY <2>4, Zenon
  <2> QED
    BY <2>3, <2>5, <2>6
<1>5. CASE word # None
  <2>1. \E x \in 0..(Cols - 1), y \in Int, n \in Nat :
            /\ word = [start |-> <<x, y>>, length |-> n]
            /\ y <= row /\ n > 0 /\ y * Cols + x + n <= count * Cols
    <3>1. word = WordAt(<<col, row>>, TRUE)
      BY <1>1
    <3>2. WordAt(<<col, row>>, TRUE) # None /\ TRUE \in BOOLEAN
      BY <1>5, <3>1
    <3>3. \E x \in 0..(Cols - 1), y \in Int, n \in Nat :
            /\ WordAt(<<col, row>>, TRUE) = [start |-> <<x, y>>, length |-> n]
            /\ y <= row /\ n > 0 /\ y * Cols + x + n <= count * Cols
      BY <3>2, WordAtParts
    <3> QED
      BY <3>1, <3>3
  <2>2. PICK x \in 0..(Cols - 1), y \in Int, n \in Nat :
            /\ word = [start |-> <<x, y>>, length |-> n]
            /\ y <= row /\ n > 0 /\ y * Cols + x + n <= count * Cols
    BY <2>1
  <2>3. PICK q : q = <<x, y>>
    OBVIOUS
  <2>4. q \in Spots /\ q # None /\ q[1] = x /\ q[2] = y /\ word.start = q /\ word.length = n
    BY <2>2, <2>3, SpotParts, SelectionAssumption
  <2>5. CASE AreReversed(s)
    <3>1. ExtendedToWord(s) = [s EXCEPT !.end = q]
      BY <1>1, <1>5, <2>4, <2>5 DEF ExtendedToWord
    <3>2. q[2] <= count - 1
      BY <2>2, <2>4
    <3> QED
      BY <2>4, <3>1, <3>2, SetEnd
  <2>6. CASE ~AreReversed(s)
    <3>1. past = x + n /\ past \in Nat /\ past > 0
      BY <1>2, <2>2, <2>4
    <3>2. PICK d : d = down * Cols
      OBVIOUS
    <3>3. down \in Nat /\ d \in Nat /\ past - d \in 0..Cols /\ past - d > 0
      <4>1. CASE past > Cols
        <5>1. PICK z : z = past - 1
          OBVIOUS
        <5>2. z \in Nat /\ past = z + 1
          BY <3>1, <5>1
        <5>3. PICK m : m = z % Cols
          OBVIOUS
        <5>4. down = z \div Cols
          BY <1>3, <4>1, <5>1
        <5>5. down \in Nat /\ m \in 0..(Cols - 1) /\ z = down * Cols + m
          BY <5>2, <5>3, <5>4, ColsParts
        <5>6. d \in Nat /\ z = d + m
          BY <3>2, <5>5, SelectionAssumption
        <5> QED
          BY <5>2, <5>5, <5>6, SelectionAssumption
      <4>2. CASE past <= Cols
        BY <1>3, <3>1, <3>2, <4>2, SelectionAssumption
      <4> QED
        BY <3>1, <4>1, <4>2, SelectionAssumption
    <3>4. PICK u, v : u = past - d /\ v = y + down
      OBVIOUS
    <3>5. u \in 0..Cols /\ u > 0 /\ v \in Int
      BY <3>3, <3>4
    <3>6. v * Cols + u <= count * Cols
      <4>1. (y + down) * Cols = y * Cols + down * Cols /\ y * Cols \in Int
        BY <3>3, SelectionAssumption
      <4>2. PICK Y : Y = y * Cols
        OBVIOUS
      <4>3. v * Cols = Y + d /\ Y \in Int
        BY <3>2, <3>4, <4>1, <4>2
      <4>4. v * Cols + u = Y + past
        BY <3>1, <3>3, <3>4, <4>3
      <4>5. Y + past = y * Cols + x + n
        BY <3>1, <4>2, <4>3
      <4> QED
        BY <2>2, <4>4, <4>5
    <3>7. v < count
      BY <3>5, <3>6, RowBefore
    <3>8. ExtendedToWord(s) = [s EXCEPT !.end = <<past - down * Cols, word.start[2] + down>>]
      BY <1>1, <1>2, <1>3, <1>5, <2>6 DEF ExtendedToWord
    <3>9. ExtendedToWord(s) = [s EXCEPT !.end = <<u, v>>]
      BY <2>4, <3>2, <3>4, <3>8
    <3>10. PICK e : e = <<u, v>>
      OBVIOUS
    <3>11. e \in Spots /\ e # None /\ e[2] = v
      BY <3>5, <3>10, SpotParts
    <3>12. v <= count - 1
      BY <3>5, <3>7
    <3> QED
      BY <3>9, <3>10, <3>11, <3>12, SetEnd
  <2> QED
    BY <2>5, <2>6
<1> QED
  BY <1>4, <1>5

-----------------------------------------------------------------------------
(* What is always so of the selection and of the drag.  Held: unless the   *)
(* terminal was cleared under it, a selection lies above the end of the    *)
(* buffer, and unless it slid, below its start, with all of its length.    *)
SelTypes ==
    /\ slots = [i \in 0..(MaxLines - 1) |-> slots[i]]
    /\ first \in 0..(MaxLines - 1) /\ count \in Rows..MaxLines /\ ydisp \in 0..(count - Rows)
    /\ sel \in Selections /\ mode \in 0..3 /\ drag \in {-1, 0, 1} /\ timers \in Nat
    /\ enabled \in BOOLEAN /\ current \in BOOLEAN /\ listening \in BOOLEAN /\ held \in BOOLEAN /\ frame \in BOOLEAN
    /\ slid \in BOOLEAN /\ cleared \in BOOLEAN /\ unreleased \in BOOLEAN /\ emptied \in BOOLEAN /\ failed \in BOOLEAN

Dragged ==
    /\ current => timers > 0
    /\ ~unreleased => /\ timers = (IF current THEN 1 ELSE 0)
                      /\ listening = current
                      /\ listening => held
                      /\ ~emptied /\ listening => (mode = LineMode => sel.start # None) /\ (drag # 0 => sel.end # None)
                      /\ failed => emptied

Low(s, n) == (s.start # None => s.start[2] <= n - 1) /\ (s.end # None => s.end[2] <= n - 1)
Inside(s, n) ==
    /\ s.start # None => s.start[2] >= 0 /\ s.start[2] * Cols + s.start[1] + s.length <= n * Cols
    /\ s.end # None => s.end[2] >= 0

Held ==
    /\ ~cleared => Low(sel, count)
    /\ ~cleared /\ ~slid => Inside(sel, count)
    /\ CopiedIsChosen

SelInv == SelTypes /\ Dragged /\ HighlightIsSelection /\ Held

LEMMA PlaceParts ==
  ASSUME SelTypes, NEW p \in Places
  PROVE  /\ p[1] \in 0..Cols /\ p[2] \in Nat /\ p[2] < count /\ p = <<p[1], p[2]>> /\ p \in Spots /\ p # None
         /\ p[2] <= count - 1
<1>1. p \in (0..Cols) \X (ydisp..(ydisp + Rows - 1)) /\ ydisp \in 0..(count - Rows) /\ count \in Nat
  BY SelectionAssumption DEF SelTypes, Places
<1>2. PICK x \in 0..Cols, y \in ydisp..(ydisp + Rows - 1) : p = <<x, y>>
  BY <1>1
<1>3. y \in Nat /\ y < count /\ y <= count - 1
  BY <1>1, SelectionAssumption
<1>4. y \in Int /\ x \in 0..Cols
  BY <1>3
<1>5. p \in Spots /\ p # None /\ p[1] = x /\ p[2] = y
  BY <1>2, <1>4, SpotParts
<1> QED
  BY <1>2, <1>3, <1>5

(* Whoever makes or moves a selection puts its places into the buffer.     *)
LEMMA HeldRemade ==
  ASSUME SelTypes, Held, Remade, sel' \in Selections, slid' \in BOOLEAN, cleared' \in BOOLEAN,
         count' = count /\ Made(sel, sel', count)
  PROVE  Held'
<1>1. CopiedIsChosen'
  BY DEF Remade, CopiedIsChosen
<1>2. ASSUME ~cleared' PROVE Low(sel, count)'
  <2>1. ~cleared \/ ~(SameStart \/ SameEnd)
    BY <1>2 DEF Remade
  <2>2. sel'.start # None => sel'.start[2] <= count - 1
    <3>1. CASE sel'.start = sel.start /\ sel'.length = sel.length
      BY <2>1, <3>1 DEF SameStart, Held, Low
    <3>2. CASE StartIn(sel', count)
      BY <3>2 DEF StartIn
    <3> QED
      BY <3>1, <3>2 DEF Made
  <2>3. sel'.end # None => sel'.end[2] <= count - 1
    <3>1. CASE sel'.end = sel.end
      BY <2>1, <3>1 DEF SameEnd, Held, Low
    <3>2. CASE EndIn(sel', count)
      BY <3>2 DEF EndIn
    <3> QED
      BY <3>1, <3>2 DEF Made
  <2> QED
    BY <2>2, <2>3 DEF Low
<1>3. ASSUME ~cleared', ~slid' PROVE Inside(sel, count)'
  <2>1. ~OutOfBuffer(sel') /\ ~(slid /\ SameStart)
    BY <1>3 DEF Remade
  <2>2. ~cleared \/ ~SameStart
    BY <1>3 DEF Remade
  <2>3. sel'.start \in Spots /\ sel'.end \in Spots
    BY DEF Selections
  <2>4. (sel'.start # None => sel'.start[2] >= 0) /\ (sel'.end # None => sel'.end[2] >= 0)
    BY <2>1, <2>3, SpotParts DEF OutOfBuffer
  <2>5. sel'.start # None => sel'.start[2] * Cols + sel'.start[1] + sel'.length <= count * Cols
    <3>1. CASE sel'.start = sel.start /\ sel'.length = sel.length
      <4>1. ~slid /\ ~cleared
        BY <2>1, <2>2, <3>1 DEF SameStart
      <4> QED
        BY <3>1, <4>1 DEF Held, Inside
    <3>2. CASE StartIn(sel', count)
      BY <3>2 DEF StartIn
    <3> QED
      BY <3>1, <3>2 DEF Made
  <2> QED
    BY <2>4, <2>5 DEF Inside
<1> QED
  BY <1>1, <1>2, <1>3 DEF Held

LEMMA HeldNothing ==
  ASSUME Remade, sel' = NoSelection
  PROVE  Held'
<1>1. CopiedIsChosen'
  BY DEF Remade, CopiedIsChosen
<1>2. Low(sel, count)' /\ Inside(sel, count)'
  BY NothingSelected DEF Low, Inside
<1> QED
  BY <1>1, <1>2 DEF Held

LEMMA HeldSame ==
  ASSUME Held, UNCHANGED <<slots, first, count, sel, mode, chosen, slid, cleared>>
  PROVE  Held'
<1>1. CopiedIsChosen'
  BY DEF Held, CopiedIsChosen, Selected, FinalStart, FinalEnd, AreReversed, ybase, Exists, Line
<1> QED
  BY <1>1 DEF Held, Low, Inside

LEMMA HighlightSame ==
  ASSUME UNCHANGED <<count, sel, mode>>
  PROVE  Highlight' = Highlight
BY DEF Highlight, FinalStart, FinalEnd, AreReversed, ybase

-----------------------------------------------------------------------------
(* The steps.                                                              *)
LEMMA InitSelection == Init => SelInv
<1> SUFFICES ASSUME Init PROVE SelInv
  OBVIOUS
<1>1. sel = NoSelection /\ sel \in Selections
  BY NothingSelected DEF Init
<1>2. SelTypes
  <2>1. slots = [i \in 0..(MaxLines - 1) |-> slots[i]]
    BY DEF Init
  <2>2. first \in 0..(MaxLines - 1) /\ count \in Rows..MaxLines /\ ydisp \in 0..(count - Rows)
    <3>1. first = 0 /\ count = Rows /\ ydisp = 0
      BY DEF Init
    <3> QED
      BY <3>1, SelectionAssumption
  <2>3. mode \in 0..3 /\ drag \in {-1, 0, 1} /\ timers \in Nat
    <3>1. mode = NormalMode /\ drag = 0 /\ timers = 0
      BY DEF Init
    <3> QED
      BY <3>1 DEF NormalMode
  <2>4. /\ enabled = TRUE /\ current = FALSE /\ listening = FALSE /\ held = FALSE /\ frame = FALSE
        /\ slid = FALSE /\ cleared = FALSE /\ unreleased = FALSE /\ emptied = FALSE /\ failed = FALSE
    BY DEF Init
  <2> QED
    BY <1>1, <2>1, <2>2, <2>3, <2>4 DEF SelTypes
<1>3. Dragged
  BY DEF Init, Dragged
<1>4. HighlightIsSelection
  <2>1. sel.start = None /\ sel.end = None /\ sel.all = FALSE /\ ~AreReversed(sel)
    BY <1>1, NothingSelected DEF AreReversed
  <2>2. FinalStart(sel) = None
    BY <2>1 DEF FinalStart
  <2>3. FinalEnd(sel) = None
    BY <2>1 DEF FinalEnd
  <2>4. (mode = ColumnMode) = FALSE /\ shown = <<None, None, FALSE>>
    <3>1. mode = NormalMode /\ shown = <<None, None, FALSE>>
      BY DEF Init
    <3> QED
      BY <3>1 DEF NormalMode, ColumnMode
  <2> QED
    BY <2>2, <2>3, <2>4 DEF HighlightIsSelection, Highlight
<1>5. CopiedIsChosen
  BY <1>1, NothingSelected DEF Init, CopiedIsChosen, Selected, FinalStart, AreReversed
<1>6. Held
  BY <1>1, <1>5, NothingSelected DEF Held, Low, Inside
<1> QED
  BY <1>2, <1>3, <1>4, <1>6 DEF SelInv

LEMMA SelectedLineParts ==
  ASSUME SelTypes, NEW s \in Selections, NEW row \in Nat, row < count
  PROVE  /\ SelectedLine(s, row) \in Selections
         /\ SelectedLine(s, row).start # None /\ SelectedLine(s, row).end # None
         /\ Made(s, SelectedLine(s, row), count)
<1>1. PICK n1, n2 : n1 = WrappedFirst(row) /\ n2 = WrappedLast(row)
  OBVIOUS
<1>2. n1 \in 0..row
  <2> DEFINE S == { r \in 0..row : \A k \in (r + 1)..row : Line(k).wrapped }
  <2>1. (row + 1)..row = {} /\ row \in 0..row
    OBVIOUS
  <2>2. row \in S
    BY <2>1
  <2>3. S \in SUBSET (0..row) /\ S # {}
    BY <2>2
  <2>4. n1 = LeastOf(S)
    BY <1>1 DEF WrappedFirst
  <2> HIDE DEF S
  <2>5. 0 \in Int /\ row \in Int
    OBVIOUS
  <2> QED
    BY <2>3, <2>4, <2>5, LeastIn
<1>3. n2 \in row..(count - 1)
  <2>1. PICK d : d = count - 1
    OBVIOUS
  <2> DEFINE S == { r \in row..d : \A k \in (row + 1)..r : Line(k).wrapped }
  <2>2. (row + 1)..row = {} /\ row \in row..d /\ d \in Int
    BY <2>1, SelectionAssumption DEF SelTypes
  <2>3. row \in S
    BY <2>2
  <2>4. S \in SUBSET (row..d) /\ S # {} /\ row \in Int
    BY <2>3
  <2>5. n2 = GreatestOf(S)
    BY <1>1, <2>1 DEF WrappedLast
  <2> HIDE DEF S
  <2>6. GreatestOf(S) \in row..d
    BY <2>2, <2>4, GreatestIn
  <2> QED
    BY <2>1, <2>5, <2>6
<1>4. PICK p, q : p = <<0, n1>> /\ q = <<Cols, n2>>
  OBVIOUS
<1>5. p \in Spots /\ p # None /\ p[1] = 0 /\ p[2] = n1 /\ q \in Spots /\ q # None /\ q[2] = n2
  BY <1>2, <1>3, <1>4, SpotParts, SelectionAssumption
<1>6. PICK t : t = [s EXCEPT !.start = p, !.end = q, !.length = 0]
  OBVIOUS
<1>7. t \in Selections /\ t.start = p /\ t.end = q /\ t.length = 0
  BY <1>5, <1>6 DEF Selections
<1>8. SelectedLine(s, row) = t
  BY <1>1, <1>4, <1>6 DEF SelectedLine
<1>9. n1 <= count - 1 /\ n2 <= count - 1 /\ n1 \in Nat /\ count \in Nat
  BY <1>2, <1>3, SelectionAssumption DEF SelTypes
<1>10. n1 * Cols <= count * Cols
  <2>1. PICK d \in Nat : count = n1 + d
    <3>1. count - n1 \in Nat /\ count = n1 + (count - n1)
      BY <1>9
    <3> QED
      BY <3>1
  <2>2. (n1 + d) * Cols = n1 * Cols + d * Cols /\ n1 * Cols \in Nat /\ d * Cols \in Nat
    BY <1>9, SelectionAssumption
  <2> QED
    BY <2>1, <2>2
<1>11. StartIn(t, count)
  <2>1. n1 * Cols \in Nat
    BY <1>9, SelectionAssumption
  <2> QED
    BY <1>5, <1>7, <1>9, <1>10, <2>1 DEF StartIn
<1>12. EndIn(t, count)
  BY <1>5, <1>7, <1>9 DEF EndIn
<1> QED
  BY <1>5, <1>7, <1>8, <1>11, <1>12 DEF Made

LEMMA TypesNext ==
  ASSUME SelTypes, UNCHANGED <<slots, first, count>>, ydisp' \in 0..(count - Rows),
         sel' \in Selections, mode' \in 0..3, drag' \in {-1, 0, 1}, timers' \in Nat,
         enabled' \in BOOLEAN, current' \in BOOLEAN, listening' \in BOOLEAN, held' \in BOOLEAN, frame' \in BOOLEAN,
         slid' \in BOOLEAN, cleared' \in BOOLEAN, unreleased' \in BOOLEAN, emptied' \in BOOLEAN, failed' \in BOOLEAN
  PROVE  SelTypes'
BY DEF SelTypes

(* The button goes down.                                                   *)
LEMMA DownSelection ==
  ASSUME SelInv, NEW p \in Places, NEW shift \in BOOLEAN, NEW alt \in BOOLEAN, NEW n \in 1..3, MouseDown(p, shift, alt, n)
  PROVE  SelInv'
<1>1. SelTypes /\ Dragged /\ HighlightIsSelection /\ Held
  BY DEF SelInv
<1>2. UNCHANGED <<bufferVars, enabled, shown>> /\ Remade /\ AddedListeners
  BY DEF MouseDown
<1>3. /\ ~(held /\ unreleased) /\ held' = TRUE /\ drag' = 0 /\ frame' = TRUE
      /\ sel' = Clicked(p, shift, n) /\ mode' = ClickMode(shift, alt, n)
      /\ emptied' = (shift /\ enabled /\ sel.start = None) /\ failed' = FALSE /\ unreleased' = (unreleased \/ held)
  BY DEF MouseDown
<1>4. sel \in Selections /\ count \in Nat /\ p[1] \in 0..Cols /\ p[2] \in Nat /\ p[2] < count /\ p = <<p[1], p[2]>>
      /\ p \in Spots /\ p # None /\ p[2] <= count - 1
  BY <1>1, PlaceParts, SelectionAssumption DEF SelTypes
<1>5. sel' \in Selections /\ Made(sel, sel', count) /\ (~emptied' /\ mode' = LineMode => sel'.start # None)
  <2>1. CASE shift /\ enabled
    <3>1. sel' = IF sel.start = None THEN sel ELSE [sel EXCEPT !.end = p]
      BY <1>3, <2>1 DEF Clicked
    <3>2. sel' \in Selections /\ sel'.start = sel.start /\ sel'.length = sel.length /\ (sel'.end = sel.end \/ sel'.end = p)
      BY <1>4, <3>1, SetEnd
    <3> QED
      BY <1>3, <1>4, <2>1, <3>2 DEF Made, EndIn
  <2>2. CASE ~(shift /\ enabled) /\ n = 1
    <3>1. PICK t : t = [start |-> p, end |-> None, length |-> 0, all |-> FALSE]
      OBVIOUS
    <3>2. sel' = t
      BY <1>3, <2>2, <3>1 DEF Clicked
    <3>3. t \in Selections /\ t.start = p /\ t.end = None /\ t.length = 0
      BY <1>4, <3>1, SpotParts DEF Selections
    <3>4. StartIn(t, count)
      <4>1. PICK n1, r, c : n1 = p[2] * Cols /\ r = p[2] /\ c = count * Cols
        OBVIOUS
      <4>2. n1 \in Nat /\ c \in Nat /\ (r + 1) * Cols = n1 + Cols /\ r \in Nat /\ r + 1 \in Nat /\ r + 1 <= count
        BY <1>4, <4>1, SelectionAssumption
      <4>3. (r + 1) * Cols <= c
        <5>1. PICK d \in Nat : count = (r + 1) + d
          <6>1. count - (r + 1) \in Nat /\ count = (r + 1) + (count - (r + 1))
            BY <1>4, <4>2
          <6> QED
            BY <6>1
        <5>2. ((r + 1) + d) * Cols = (r + 1) * Cols + d * Cols /\ (r + 1) * Cols \in Nat /\ d * Cols \in Nat
          BY <4>2, SelectionAssumption
        <5> QED
          BY <4>1, <5>1, <5>2
      <4> QED
        BY <1>4, <3>3, <4>1, <4>2, <4>3, SelectionAssumption DEF StartIn
    <3>5. p # None
      BY <1>4
    <3> QED
      BY <3>2, <3>3, <3>4, <3>5 DEF Made, EndIn
  <2>3. CASE ~(shift /\ enabled) /\ n = 2
    <3>1. sel' = SelectedWord(sel, p, TRUE)
      <4>1. sel' = Clicked(p, shift, 2)
        BY <1>3, <2>3
      <4>2. 2 # 1
        OBVIOUS
      <4> QED
        BY <2>3, <4>1, <4>2, Zenon DEF Clicked
    <3>2. mode' # LineMode
      BY <1>3, <2>3 DEF ClickMode, LineMode
    <3>3. PICK c, r : c = p[1] /\ r = p[2]
      OBVIOUS
    <3>4. c \in 0..Cols /\ r \in Nat /\ r < count /\ p = <<c, r>> /\ TRUE \in BOOLEAN
      BY <1>4, <3>3
    <3>5. SelectedWord(sel, <<c, r>>, TRUE) \in Selections /\ Made(sel, SelectedWord(sel, <<c, r>>, TRUE), count)
      BY <1>4, <3>4, SelectedWordParts
    <3> QED
      BY <3>1, <3>2, <3>4, <3>5
  <2>4. CASE ~(shift /\ enabled) /\ n = 3
    <3>1. sel' = SelectedLine(sel, p[2])
      BY <1>3, <2>4 DEF Clicked
    <3> QED
      BY <1>1, <1>4, <3>1, SelectedLineParts
  <2> QED
    BY <2>1, <2>2, <2>3, <2>4
<1>6. mode' \in 0..3
  BY <1>1, <1>3 DEF ClickMode, SelTypes, ColumnMode, NormalMode
<1>7. slid' \in BOOLEAN /\ cleared' \in BOOLEAN /\ emptied' \in BOOLEAN /\ unreleased' \in BOOLEAN
  BY <1>1, <1>2, <1>3 DEF Remade, SelTypes
<1>8. SelTypes'
  <2>1. listening' = TRUE /\ current' = TRUE /\ timers' \in Nat
    BY <1>1, <1>2 DEF SelTypes, AddedListeners
  <2>2. UNCHANGED <<slots, first, count, ydisp>> /\ UNCHANGED enabled
    BY <1>2 DEF bufferVars
  <2> QED
    BY <1>1, <1>3, <1>5, <1>6, <1>7, <2>1, <2>2, TypesNext DEF SelTypes
<1>9. Dragged'
  <2>1. timers \in Nat
    BY <1>1 DEF SelTypes
  <2>2. listening' = TRUE /\ timers' = timers + 1 /\ current' = TRUE
    BY <1>2 DEF AddedListeners
  <2>3. ASSUME ~unreleased' PROVE timers = 0
    <3>1. held \in BOOLEAN /\ unreleased \in BOOLEAN /\ current \in BOOLEAN /\ listening \in BOOLEAN
      BY <1>1 DEF SelTypes
    <3>2. ~unreleased /\ ~held
      BY <1>3, <2>3, <3>1
    <3>3. timers = (IF current THEN 1 ELSE 0) /\ listening = current /\ (listening => held)
      BY <1>1, <3>2 DEF Dragged
    <3> QED
      BY <3>1, <3>2, <3>3
  <2> QED
    BY <1>3, <1>5, <2>1, <2>2, <2>3 DEF Dragged
<1>10. HighlightIsSelection'
  BY <1>3 DEF HighlightIsSelection
<1>11. Held'
  BY <1>1, <1>2, <1>5, <1>7, HeldRemade DEF bufferVars
<1> QED
  BY <1>8, <1>9, <1>10, <1>11 DEF SelInv

LEMMA MoveToParts ==
  ASSUME SelTypes, NEW p \in Places, NEW amount \in {-1, 0, 1}, sel.start # None \/ mode # LineMode
  PROVE  /\ MoveTo(p, amount) \in Selections
         /\ MoveTo(p, amount).start = sel.start /\ MoveTo(p, amount).length = sel.length
         /\ MoveTo(p, amount).end # None /\ MoveTo(p, amount).end[2] <= count - 1
         /\ MoveTo(p, amount).all = sel.all
<1>1. sel \in Selections /\ count \in Nat /\ p[1] \in 0..Cols /\ p[2] \in Nat /\ p[2] < count /\ p = <<p[1], p[2]>>
      /\ p \in Spots /\ p # None /\ p[2] <= count - 1
  BY PlaceParts, SelectionAssumption DEF SelTypes
<1>2. PICK at : at = [sel EXCEPT !.end = p]
  OBVIOUS
<1>3. at \in Selections /\ at.start = sel.start /\ at.end = p /\ at.length = sel.length /\ at.all = sel.all
  BY <1>1, <1>2, SetEnd
<1>4. PICK edge : edge = IF p[2] < sel.start[2] THEN 0 ELSE Cols
  OBVIOUS
<1>5. edge \in 0..Cols /\ 0 \in 0..Cols /\ Cols \in 0..Cols
  BY <1>4, SelectionAssumption
<1>6. PICK line, word : line = [at EXCEPT !.end[1] = edge] /\ word = ExtendedToWord(at)
  OBVIOUS
<1> DEFINE grown == CASE mode = LineMode -> line [] mode = WordMode -> word [] OTHER -> at
<1>7. grown \in Selections /\ grown.start = sel.start /\ grown.length = sel.length
      /\ grown.end # None /\ grown.end[2] <= count - 1 /\ grown.all = sel.all
  <2>1. CASE mode = LineMode
    <3>1. grown = line
      BY <2>1 DEF LineMode, WordMode
    <3>2. at.end # None
      BY <1>1, <1>3
    <3>3. /\ [at EXCEPT !.end[1] = edge] \in Selections
          /\ [at EXCEPT !.end[1] = edge].start = at.start
          /\ [at EXCEPT !.end[1] = edge].end # None
          /\ [at EXCEPT !.end[1] = edge].end[2] = at.end[2]
          /\ [at EXCEPT !.end[1] = edge].length = at.length
          /\ [at EXCEPT !.end[1] = edge].all = at.all
      BY <1>3, <1>5, <3>2, SetColumn
    <3>4. line \in Selections /\ line.start = at.start /\ line.end # None /\ line.end[2] = at.end[2] /\ line.length = at.length
          /\ line.all = at.all
      BY <1>6, <3>3
    <3> HIDE DEF grown
    <3> QED
      BY <1>1, <1>3, <3>1, <3>4
  <2>2. CASE mode = WordMode
    <3>1. grown = word /\ word = ExtendedToWord(at)
      BY <1>6, <2>2 DEF LineMode, WordMode
    <3>2. at.end = <<p[1], p[2]>>
      BY <1>1, <1>3
    <3> QED
      BY <1>1, <1>3, <3>1, <3>2, ExtendedParts
  <2>3. CASE mode # LineMode /\ mode # WordMode
    <3>1. grown = at
      BY <1>6, <2>3
    <3> QED
      BY <1>1, <1>3, <3>1
  <2> QED
    BY <2>1, <2>2, <2>3
<1>8. MoveTo(p, amount) = CASE mode = ColumnMode \/ amount = 0 -> grown
                            [] mode # ColumnMode /\ amount > 0 -> [grown EXCEPT !.end[1] = Cols]
                            [] OTHER -> [grown EXCEPT !.end[1] = 0]
  BY <1>2, <1>4, <1>6 DEF MoveTo
<1> HIDE DEF grown
<1>9. CASE mode = ColumnMode \/ amount = 0
  <2>1. MoveTo(p, amount) = grown
    BY <1>8, <1>9
  <2> QED
    BY <1>7, <2>1
<1>10. CASE mode # ColumnMode /\ amount > 0
  <2>1. MoveTo(p, amount) = [grown EXCEPT !.end[1] = Cols]
    BY <1>8, <1>10
  <2> QED
    BY <1>5, <1>7, <2>1, SetColumn
<1>11. CASE mode # ColumnMode /\ amount < 0
  <2>1. MoveTo(p, amount) = [grown EXCEPT !.end[1] = 0]
    BY <1>8, <1>11
  <2> QED
    BY <1>5, <1>7, <2>1, SetColumn
<1> QED
  BY <1>9, <1>10, <1>11

LEMMA ScrolledToRange ==
  ASSUME SelTypes, NEW n \in Int
  PROVE  ScrolledTo(n) \in 0..(count - Rows)
<1>1. ydisp \in 0..(count - Rows) /\ count \in Int /\ Rows \in Int
  BY SelectionAssumption DEF SelTypes
<1>2. PICK k : k = IF ydisp + n > ybase THEN ybase ELSE ydisp + n
  OBVIOUS
<1>3. k \in Int /\ k <= count - Rows
  BY <1>1, <1>2 DEF ybase
<1>4. ScrolledTo(n) = IF k < 0 THEN 0 ELSE k
  BY <1>2 DEF ScrolledTo
<1> QED
  BY <1>1, <1>3, <1>4

(* The drag goes on as it did; the drag is over.                           *)
LEMMA DraggedSame ==
  ASSUME SelTypes, Dragged, UNCHANGED <<timers, current, listening, held, unreleased, failed, mode, drag>>,
         emptied' \in BOOLEAN, emptied => emptied',
         ~emptied' => (sel.start # None => sel'.start # None) /\ (sel.end # None => sel'.end # None)
  PROVE  Dragged'
<1>1. current' => timers' > 0
  BY DEF Dragged
<1>2. ASSUME ~unreleased'
      PROVE  /\ timers' = (IF current' THEN 1 ELSE 0) /\ listening' = current' /\ (listening' => held')
             /\ (failed' => emptied')
  BY <1>2 DEF Dragged
<1>3. ASSUME ~unreleased', ~emptied', listening'
      PROVE  (mode' = LineMode => sel'.start # None) /\ (drag' # 0 => sel'.end # None)
  <2>1. ~emptied /\ listening /\ ~unreleased
    BY <1>3
  <2>2. (mode = LineMode => sel.start # None) /\ (drag # 0 => sel.end # None)
    BY <2>1 DEF Dragged
  <2> QED
    BY <1>3, <2>2
<1> QED
  BY <1>1, <1>2, <1>3 DEF Dragged

LEMMA DraggedOff ==
  ASSUME SelTypes, Dragged, RemovedListeners, UNCHANGED <<unreleased, failed, emptied>>
  PROVE  Dragged' /\ timers' \in Nat /\ listening' \in BOOLEAN /\ current' \in BOOLEAN
<1>1. listening' = FALSE /\ current' = FALSE /\ timers' = (IF current THEN timers - 1 ELSE timers)
  BY DEF RemovedListeners
<1>2. timers \in Nat /\ (current => timers > 0)
  BY DEF SelTypes, Dragged
<1>3. timers' \in Nat
  BY <1>1, <1>2
<1>4. ~unreleased => timers = (IF current THEN 1 ELSE 0) /\ (failed => emptied)
  BY DEF Dragged
<1>5. Dragged'
  <2>1. ASSUME ~unreleased' PROVE timers' = 0 /\ (failed' => emptied')
    BY <1>1, <1>2, <1>4, <2>1
  <2> QED
    BY <1>1, <2>1 DEF Dragged
<1> QED
  BY <1>1, <1>3, <1>5

LEMMA RemadeTypes ==
  ASSUME SelTypes, Remade
  PROVE  slid' \in BOOLEAN /\ cleared' \in BOOLEAN
BY DEF Remade, SelTypes

(* The mouse moves, also beyond the screen.                                *)
LEMMA MoveSelection ==
  ASSUME SelInv, NEW p \in Places, NEW amount \in {-1, 0, 1}, MouseMove(p, amount)
  PROVE  SelInv'
<1>1. SelTypes /\ Dragged /\ HighlightIsSelection /\ Held
  BY DEF SelInv
<1>2. /\ listening /\ UNCHANGED <<slots, first, count, ydisp>>
      /\ UNCHANGED <<mode, enabled, timers, current, listening, held, shown>>
  BY DEF MouseMove, bufferVars
<1>3. /\ ydisp \in 0..(count - Rows) /\ sel \in Selections /\ mode \in 0..3 /\ timers \in Nat /\ drag \in {-1, 0, 1}
      /\ enabled \in BOOLEAN /\ current \in BOOLEAN /\ listening \in BOOLEAN /\ held \in BOOLEAN /\ frame \in BOOLEAN
      /\ slid \in BOOLEAN /\ cleared \in BOOLEAN /\ unreleased \in BOOLEAN /\ emptied \in BOOLEAN /\ failed \in BOOLEAN
  BY <1>1 DEF SelTypes
<1>4. p \in Spots /\ p # None
  BY <1>1, PlaceParts
<1>5. CASE mode = LineMode /\ sel.start = None
  <2>1. failed' = TRUE /\ sel' = [sel EXCEPT !.end = p] /\ UNCHANGED <<drag, frame, chosen, slid, cleared, unreleased, emptied>>
    BY <1>5 DEF MouseMove
  <2>2. sel' \in Selections /\ sel'.start = None /\ sel'.end = p /\ sel'.all = sel.all
    BY <1>3, <1>4, <1>5, <2>1, SetEnd
  <2>3. SelTypes'
    BY <1>1, <1>2, <1>3, <2>1, <2>2, TypesNext
  <2>4. unreleased \/ emptied
    BY <1>1, <1>2, <1>5 DEF Dragged
  <2>5. Dragged'
    BY <1>1, <1>2, <1>5, <2>1, <2>4 DEF Dragged
  <2>6. HighlightIsSelection'
    BY <2>1 DEF HighlightIsSelection
  <2>7. CopiedIsChosen'
    BY <2>2 DEF CopiedIsChosen, Selected, FinalStart, AreReversed
  <2>8. p[2] <= count - 1 /\ p[2] >= 0
    BY <1>1, PlaceParts
  <2>9. Low(sel, count)' /\ Inside(sel, count)'
    BY <1>2, <2>2, <2>8 DEF Low, Inside
  <2>10. Held'
    BY <2>7, <2>9 DEF Held
  <2> QED
    BY <2>3, <2>5, <2>6, <2>10 DEF SelInv
<1>6. CASE ~(mode = LineMode /\ sel.start = None)
  <2>1. sel' = MoveTo(p, amount) /\ drag' = amount /\ frame' = (frame \/ Moved(sel.end, sel'.end)) /\ Remade
        /\ UNCHANGED <<unreleased, failed, emptied>>
    BY <1>6 DEF MouseMove, Chose
  <2>2. sel' \in Selections /\ sel'.start = sel.start /\ sel'.length = sel.length /\ sel'.end # None /\ sel'.end[2] <= count - 1
        /\ sel'.all = sel.all
    BY <1>1, <1>6, <2>1, MoveToParts
  <2>3. slid' \in BOOLEAN /\ cleared' \in BOOLEAN
    BY <1>1, <2>1, RemadeTypes
  <2>4. frame' \in BOOLEAN
    BY <1>3, <2>1 DEF Moved
  <2>5. SelTypes'
    BY <1>1, <1>2, <1>3, <2>1, <2>2, <2>3, <2>4, TypesNext
  <2>6. Dragged'
    <3>1. mode' = LineMode => sel'.start # None
      BY <1>2, <1>6, <2>2
    <3>2. current' => timers' > 0
      BY <1>1, <1>2 DEF Dragged
    <3>3. ASSUME ~unreleased'
          PROVE  /\ timers' = (IF current' THEN 1 ELSE 0) /\ listening' = current' /\ (listening' => held')
                 /\ (failed' => emptied')
      BY <1>1, <1>2, <2>1, <3>3 DEF Dragged
    <3> QED
      BY <2>2, <3>1, <3>2, <3>3 DEF Dragged
  <2>7. HighlightIsSelection'
    <3>1. SUFFICES ASSUME ~frame', ~failed' PROVE shown' = Highlight'
      BY DEF HighlightIsSelection
    <3>2. ~frame /\ ~failed /\ sel'.end = sel.end
      BY <1>3, <2>1, <3>1 DEF Moved
    <3>4. sel' = sel
      BY <1>3, <2>2, <3>2 DEF Selections
    <3>5. Highlight' = Highlight
      BY <1>2, <3>4, HighlightSame
    <3> QED
      BY <1>1, <1>2, <3>2, <3>5 DEF HighlightIsSelection
  <2>8. Made(sel, sel', count)
    BY <2>2 DEF Made, EndIn
  <2>9. Held'
    BY <1>1, <1>2, <2>1, <2>2, <2>3, <2>8, HeldRemade
  <2> QED
    BY <2>5, <2>6, <2>7, <2>9 DEF SelInv
<1> QED
  BY <1>5, <1>6

(* The drag scrolls.                                                       *)
LEMMA DragScrollSelection ==
  ASSUME SelInv, DragScroll
  PROVE  SelInv'
<1>1. SelTypes /\ Dragged /\ HighlightIsSelection /\ Held
  BY DEF SelInv
<1>2. /\ timers > 0 /\ drag # 0 /\ ydisp' = ScrolledTo(drag) /\ UNCHANGED <<slots, first, count>>
      /\ UNCHANGED <<mode, enabled, drag, timers, current, listening, held, shown>>
  BY DEF DragScroll, ScrollLines, mouseVars
<1>3. /\ ydisp \in 0..(count - Rows) /\ sel \in Selections /\ mode \in 0..3 /\ timers \in Nat /\ drag \in {-1, 0, 1}
      /\ enabled \in BOOLEAN /\ current \in BOOLEAN /\ listening \in BOOLEAN /\ held \in BOOLEAN /\ frame \in BOOLEAN
      /\ slid \in BOOLEAN /\ cleared \in BOOLEAN /\ unreleased \in BOOLEAN /\ emptied \in BOOLEAN /\ failed \in BOOLEAN
  BY <1>1 DEF SelTypes
<1>4. ydisp' \in 0..(count - Rows)
  <2>1. drag \in Int
    BY <1>3
  <2> QED
    BY <1>1, <1>2, <2>1, ScrolledToRange
<1>5. CASE sel.end = None
  <2>1. failed' = TRUE /\ frame' = (frame \/ ydisp' # ydisp) /\ UNCHANGED <<sel, chosen, slid, cleared, unreleased, emptied>>
    BY <1>5 DEF DragScroll
  <2>2. SelTypes'
    BY <1>1, <1>2, <1>3, <1>4, <2>1, TypesNext
  <2>3. unreleased \/ emptied
    <3>1. SUFFICES ASSUME ~unreleased, ~emptied PROVE FALSE
      OBVIOUS
    <3>2. timers = (IF current THEN 1 ELSE 0) /\ listening = current /\ (listening => (drag # 0 => sel.end # None))
      BY <1>1, <3>1 DEF Dragged
    <3> QED
      BY <1>2, <1>3, <1>5, <3>2
  <2>4. Dragged'
    BY <1>1, <1>2, <1>5, <2>1, <2>3 DEF Dragged
  <2>5. HighlightIsSelection'
    BY <2>1 DEF HighlightIsSelection
  <2>6. Held'
    BY <1>1, <1>2, <2>1, HeldSame
  <2> QED
    BY <2>2, <2>4, <2>5, <2>6 DEF SelInv
<1>6. CASE sel.end # None
  <2>1. sel' = DragScrolled /\ frame' = TRUE /\ Remade /\ UNCHANGED <<unreleased, failed, emptied>>
    BY <1>6 DEF DragScroll, Chose
  <2>2. PICK row : row = IF drag < 0 THEN ydisp' ELSE LeastOf({ydisp' + Rows, count - 1})
    OBVIOUS
  <2>3. row \in Int /\ row <= count - 1
    <3>1. count \in Int /\ ydisp' \in Int /\ ydisp' <= count - 1 /\ ydisp' + Rows \in Int /\ count - 1 \in Int
      BY <1>1, <1>4, SelectionAssumption DEF SelTypes
    <3>2. CASE drag < 0
      BY <2>2, <3>1, <3>2
    <3>3. CASE ~(drag < 0)
      <4>1. PICK S : S = {ydisp' + Rows, count - 1}
        OBVIOUS
      <4>2. PICK lo \in Int : \A x \in S : lo <= x
        <5>1. \A x \in S : (IF ydisp' + Rows <= count - 1 THEN ydisp' + Rows ELSE count - 1) <= x
          BY <3>1, <4>1
        <5>2. (IF ydisp' + Rows <= count - 1 THEN ydisp' + Rows ELSE count - 1) \in Int
          BY <3>1
        <5> QED
          BY <5>1, <5>2
      <4>3. S \in SUBSET Int /\ S # {}
        BY <3>1, <4>1
      <4>4. LeastOf(S) \in S /\ \A y \in S : LeastOf(S) <= y
        BY <4>2, <4>3, LeastParts
      <4>5. row = LeastOf(S) /\ count - 1 \in S
        BY <2>2, <3>3, <4>1
      <4> QED
        BY <4>3, <4>4, <4>5
    <3> QED
      BY <3>2, <3>3
  <2>4. PICK col : col = CASE mode = ColumnMode -> sel.end[1]
                           [] mode # ColumnMode /\ drag > 0 -> Cols
                           [] OTHER -> 0
    OBVIOUS
  <2>5. col \in 0..Cols
    <3>1. sel.end[1] \in 0..Cols /\ Cols \in 0..Cols /\ 0 \in 0..Cols
      BY <1>3, <1>6, SpotParts, SelectionAssumption DEF Selections
    <3>2. CASE mode = ColumnMode
      BY <2>4, <3>1, <3>2
    <3>3. CASE mode # ColumnMode /\ drag > 0
      BY <2>4, <3>1, <3>3
    <3>4. CASE mode # ColumnMode /\ ~(drag > 0)
      BY <2>4, <3>1, <3>4
    <3> QED
      BY <3>2, <3>3, <3>4
  <2>6. PICK q : q = <<col, row>>
    OBVIOUS
  <2>7. q \in Spots /\ q # None /\ q[2] = row
    BY <2>3, <2>5, <2>6, SpotParts
  <2>8. sel' = [sel EXCEPT !.end = q]
    BY <2>1, <2>2, <2>4, <2>6 DEF DragScrolled
  <2>9. sel' \in Selections /\ sel'.start = sel.start /\ sel'.end = q /\ sel'.length = sel.length
    BY <1>3, <2>7, <2>8, SetEnd
  <2>10. Made(sel, sel', count)
    BY <2>3, <2>7, <2>9 DEF Made, EndIn
  <2>11. slid' \in BOOLEAN /\ cleared' \in BOOLEAN
    BY <1>1, <2>1, RemadeTypes
  <2>12. SelTypes'
    BY <1>1, <1>2, <1>3, <1>4, <2>1, <2>9, <2>11, TypesNext
  <2>13. Dragged'
    BY <1>1, <1>2, <1>3, <2>1, <2>7, <2>9, DraggedSame
  <2>14. HighlightIsSelection'
    BY <2>1 DEF HighlightIsSelection
  <2>15. Held'
    BY <1>1, <1>2, <2>1, <2>9, <2>10, <2>11, HeldRemade
  <2> QED
    BY <2>12, <2>13, <2>14, <2>15 DEF SelInv
<1> QED
  BY <1>5, <1>6

(* The button goes up.                                                     *)
LEMMA UpSelection ==
  ASSUME SelInv, MouseUp
  PROVE  SelInv'
<1>1. SelTypes /\ Dragged /\ HighlightIsSelection /\ Held
  BY DEF SelInv
<1>2. /\ held = TRUE /\ held' = FALSE /\ IF listening THEN RemovedListeners ELSE UNCHANGED <<timers, current, listening>>
      /\ UNCHANGED <<bufferVars, sel, mode, enabled, drag, frame, shown, historyVars>>
  BY DEF MouseUp
<1>3. /\ ydisp \in 0..(count - Rows) /\ sel \in Selections /\ mode \in 0..3 /\ timers \in Nat /\ drag \in {-1, 0, 1}
      /\ enabled \in BOOLEAN /\ current \in BOOLEAN /\ listening \in BOOLEAN /\ held \in BOOLEAN /\ frame \in BOOLEAN
      /\ slid \in BOOLEAN /\ cleared \in BOOLEAN /\ unreleased \in BOOLEAN /\ emptied \in BOOLEAN /\ failed \in BOOLEAN
  BY <1>1 DEF SelTypes
<1>4. UNCHANGED <<slots, first, count, ydisp>> /\ UNCHANGED <<chosen, slid, cleared, unreleased, emptied, failed>>
  BY <1>2 DEF bufferVars, historyVars
<1>5. Dragged' /\ timers' \in Nat /\ listening' \in BOOLEAN /\ current' \in BOOLEAN
  <2>1. CASE listening
    <3>1. RemovedListeners
      BY <1>2, <2>1
    <3> QED
      BY <1>1, <1>4, <3>1, DraggedOff
  <2>2. CASE ~listening
    <3>1. UNCHANGED <<timers, current, listening>>
      BY <1>2, <2>2
    <3>2. current' => timers' > 0
      BY <1>1, <3>1 DEF Dragged
    <3>3. ASSUME ~unreleased'
          PROVE timers' = (IF current' THEN 1 ELSE 0) /\ listening' = current' /\ (failed' => emptied')
      BY <1>1, <1>4, <3>1, <3>3 DEF Dragged
    <3> QED
      BY <1>3, <2>2, <3>1, <3>2, <3>3 DEF Dragged
  <2> QED
    BY <2>1, <2>2
<1>6. SelTypes'
  BY <1>1, <1>2, <1>3, <1>4, <1>5, TypesNext
<1>7. HighlightIsSelection'
  <2>1. Highlight' = Highlight
    BY <1>2, <1>4, HighlightSame
  <2> QED
    BY <1>1, <1>2, <1>4, <2>1 DEF HighlightIsSelection
<1>8. Held'
  BY <1>1, <1>2, <1>4, HeldSame
<1> QED
  BY <1>5, <1>6, <1>7, <1>8 DEF SelInv

(* A call that makes a selection, which lies in the buffer, and that may   *)
(* end the drag.                                                           *)
LEMMA CallSelection ==
  ASSUME SelInv, Remade, UNCHANGED <<slots, first, count, mode, drag, held, shown, unreleased, failed>>, frame' = TRUE,
         ydisp' \in 0..(count - Rows), enabled' \in BOOLEAN, emptied' \in BOOLEAN,
         sel' \in Selections, Made(sel, sel', count),
         \/ /\ UNCHANGED <<timers, current, listening>> /\ (emptied => emptied')
            /\ ~emptied' => (sel.start # None => sel'.start # None) /\ (sel.end # None => sel'.end # None)
         \/ RemovedListeners /\ UNCHANGED emptied
  PROVE  SelInv'
<1>1. SelTypes /\ Dragged /\ HighlightIsSelection /\ Held
  BY DEF SelInv
<1>2. /\ mode \in 0..3 /\ timers \in Nat /\ drag \in {-1, 0, 1}
      /\ current \in BOOLEAN /\ listening \in BOOLEAN /\ held \in BOOLEAN /\ unreleased \in BOOLEAN /\ failed \in BOOLEAN
  BY <1>1 DEF SelTypes
<1>3. slid' \in BOOLEAN /\ cleared' \in BOOLEAN
  BY <1>1, RemadeTypes
<1>4. Dragged' /\ timers' \in Nat /\ listening' \in BOOLEAN /\ current' \in BOOLEAN
  <2>1. CASE /\ UNCHANGED <<timers, current, listening>> /\ (emptied => emptied')
             /\ ~emptied' => (sel.start # None => sel'.start # None) /\ (sel.end # None => sel'.end # None)
    <3>1. Dragged'
      BY <1>1, <2>1, DraggedSame
    <3> QED
      BY <1>2, <2>1, <3>1
  <2>2. CASE RemovedListeners /\ UNCHANGED emptied
    BY <1>1, <2>2, DraggedOff
  <2> QED
    BY <2>1, <2>2
<1>5. SelTypes'
  BY <1>1, <1>2, <1>3, <1>4, TypesNext
<1>6. HighlightIsSelection'
  BY DEF HighlightIsSelection
<1>7. Held'
  BY <1>1, <1>3, HeldRemade
<1> QED
  BY <1>4, <1>5, <1>6, <1>7 DEF SelInv

LEMMA MadeNothing ==
  ASSUME sel' = NoSelection
  PROVE  sel' \in Selections /\ Made(sel, sel', count)
BY NothingSelected DEF Made, StartIn, EndIn

LEMMA TypeSelection ==
  ASSUME SelInv, Type \/ Disable
  PROVE  SelInv'
<1>1. SelTypes
  BY DEF SelInv
<1>2. ydisp \in 0..(count - Rows) /\ enabled \in BOOLEAN /\ emptied \in BOOLEAN /\ ybase - ydisp \in Int
  BY <1>1, SelectionAssumption DEF SelTypes, ybase
<1>3. ClearSelection /\ UNCHANGED <<slots, first, count, mode, drag, held, shown>>
      /\ (ydisp' = ScrolledTo(ybase - ydisp) \/ UNCHANGED ydisp) /\ (enabled' = FALSE \/ UNCHANGED enabled)
  BY DEF Type, Disable, ScrollLines, bufferVars
<1>4. sel' = NoSelection /\ RemovedListeners /\ frame' = TRUE /\ Remade /\ UNCHANGED <<unreleased, failed, emptied>>
  BY <1>3 DEF ClearSelection, Chose
<1>5. ydisp' \in 0..(count - Rows) /\ enabled' \in BOOLEAN /\ emptied' \in BOOLEAN
  BY <1>1, <1>2, <1>3, <1>4, ScrolledToRange
<1>6. sel' \in Selections /\ Made(sel, sel', count)
  BY <1>4, MadeNothing
<1> QED
  BY <1>3, <1>4, <1>5, <1>6, CallSelection

LEMMA RightSelection ==
  ASSUME SelInv, NEW p \in Places, RightClick(p)
  PROVE  SelInv'
<1>1. SelTypes
  BY DEF SelInv
<1>2. ydisp \in 0..(count - Rows) /\ enabled \in BOOLEAN /\ emptied \in BOOLEAN /\ sel \in Selections /\ count \in Nat
  BY <1>1, SelectionAssumption DEF SelTypes
<1>3. UNCHANGED <<slots, first, count, ydisp>> /\ UNCHANGED <<enabled, mode, drag, held, shown, timers, current, listening>>
      /\ Remade /\ UNCHANGED <<unreleased, failed>> /\ frame' = TRUE /\ emptied' = (emptied \/ sel.end # None)
  BY DEF RightClick, bufferVars, mouseVars, Chose
<1>4. PICK c, r : c = p[1] /\ r = p[2]
  OBVIOUS
<1>5. c \in 0..Cols /\ r \in Nat /\ r < count /\ p = <<c, r>> /\ FALSE \in BOOLEAN
  BY <1>1, <1>4, PlaceParts
<1>6. PICK t : t = SelectedWord(sel, p, FALSE)
  OBVIOUS
<1>7. t \in Selections /\ t.end = sel.end /\ (sel.start # None => t.start # None) /\ Made(sel, t, count)
  <2>1. /\ SelectedWord(sel, <<c, r>>, FALSE) \in Selections /\ SelectedWord(sel, <<c, r>>, FALSE).end = sel.end
        /\ sel.start # None => SelectedWord(sel, <<c, r>>, FALSE).start # None
        /\ Made(sel, SelectedWord(sel, <<c, r>>, FALSE), count)
    BY <1>2, <1>5, SelectedWordParts
  <2> QED
    BY <1>5, <1>6, <2>1
<1>8. sel' = [t EXCEPT !.end = None]
  BY <1>6 DEF RightClick
<1>9. sel' \in Selections /\ sel'.start = t.start /\ sel'.end = None /\ sel'.length = t.length
  BY <1>7, <1>8, SetEnd, SpotParts
<1>10. Made(sel, sel', count)
  BY <1>7, <1>9 DEF Made, StartIn, EndIn
<1>11. /\ emptied' \in BOOLEAN /\ (emptied => emptied')
       /\ ~emptied' => (sel.start # None => sel'.start # None) /\ (sel.end # None => sel'.end # None)
  BY <1>2, <1>3, <1>7, <1>9
<1>12. UNCHANGED <<timers, current, listening>>
  BY <1>3
<1> QED
  BY <1>2, <1>3, <1>9, <1>10, <1>11, <1>12, CallSelection

LEMMA AllSelection ==
  ASSUME SelInv, SelectAll
  PROVE  SelInv'
<1>1. SelTypes
  BY DEF SelInv
<1>2. ydisp \in 0..(count - Rows) /\ enabled \in BOOLEAN /\ emptied \in BOOLEAN /\ sel \in Selections
  BY <1>1 DEF SelTypes
<1>3. UNCHANGED <<slots, first, count, ydisp>> /\ UNCHANGED <<enabled, mode, drag, held, shown, timers, current, listening>>
      /\ Remade /\ UNCHANGED <<unreleased, failed, emptied>> /\ frame' = TRUE
  BY DEF SelectAll, bufferVars, mouseVars, Chose
<1>4. sel' = [sel EXCEPT !.all = TRUE]
  BY DEF SelectAll
<1>5. sel' \in Selections /\ sel'.start = sel.start /\ sel'.end = sel.end /\ sel'.length = sel.length
  BY <1>2, <1>4 DEF Selections
<1>6. Made(sel, sel', count)
  BY <1>5 DEF Made
<1> QED
  BY <1>2, <1>3, <1>5, <1>6, CallSelection

LEMMA RowFits ==
  ASSUME NEW n1 \in Nat, NEW n \in Nat, n1 < n
  PROVE  n1 * Cols + Cols <= n * Cols /\ n1 * Cols \in Nat
<1>1. PICK d \in Nat : n = n1 + 1 + d
  <2>1. n - n1 - 1 \in Nat /\ n = n1 + 1 + (n - n1 - 1)
    OBVIOUS
  <2> QED
    BY <2>1
<1>2. (n1 + 1 + d) * Cols = n1 * Cols + Cols + d * Cols /\ n1 * Cols \in Nat /\ d * Cols \in Nat
  BY SelectionAssumption
<1> QED
  BY <1>1, <1>2, SelectionAssumption

LEMMA LinesSelection ==
  ASSUME SelInv, NEW n1 \in 0..(count - 1), NEW n2 \in 0..(count - 1), SelectLines(n1, n2)
  PROVE  SelInv'
<1>1. SelTypes
  BY DEF SelInv
<1>2. ydisp \in 0..(count - Rows) /\ enabled \in BOOLEAN /\ emptied \in BOOLEAN /\ sel \in Selections /\ count \in Nat
  BY <1>1, SelectionAssumption DEF SelTypes
<1>3. UNCHANGED <<slots, first, count, ydisp>> /\ UNCHANGED <<enabled, mode, drag, held, shown, timers, current, listening>>
      /\ Remade /\ UNCHANGED <<unreleased, failed, emptied>> /\ frame' = TRUE
  BY DEF SelectLines, bufferVars, mouseVars, Chose
<1>4. PICK p, q : p = <<0, n1>> /\ q = <<Cols, n2>>
  OBVIOUS
<1>5. p \in Spots /\ p # None /\ p[1] = 0 /\ p[2] = n1 /\ q \in Spots /\ q # None /\ q[2] = n2
  BY <1>2, <1>4, SpotParts, SelectionAssumption
<1>6. sel' = [NoSelection EXCEPT !.start = p, !.end = q]
  BY <1>4 DEF SelectLines
<1>7. sel' \in Selections /\ sel'.start = p /\ sel'.end = q /\ sel'.length = 0
  BY <1>5, <1>6, NothingSelected DEF Selections
<1>8. n1 * Cols + Cols <= count * Cols /\ n1 * Cols \in Nat
  BY <1>2, RowFits
<1>9. StartIn(sel', count)
  <2>1. PICK x, y : x = n1 * Cols /\ y = count * Cols
    OBVIOUS
  <2>2. x + 0 + 0 <= y /\ n1 <= count - 1
    BY <1>2, <1>8, <2>1, SelectionAssumption
  <2> QED
    BY <1>5, <1>7, <2>1, <2>2 DEF StartIn
<1>10. EndIn(sel', count)
  BY <1>2, <1>5, <1>7 DEF EndIn
<1>11. Made(sel, sel', count) /\ sel'.start # None /\ sel'.end # None
  BY <1>5, <1>7, <1>9, <1>10 DEF Made
<1> QED
  BY <1>2, <1>3, <1>7, <1>11, CallSelection

LEMMA SetSelectionSelection ==
  ASSUME SelInv, NEW p \in Places, NEW n \in 1..(Cols + 1), SetSelection(p, n)
  PROVE  SelInv'
<1>1. SelTypes
  BY DEF SelInv
<1>2. ydisp \in 0..(count - Rows) /\ enabled \in BOOLEAN /\ emptied \in BOOLEAN /\ n \in Nat
  BY <1>1, SelectionAssumption DEF SelTypes
<1>3. UNCHANGED <<slots, first, count, ydisp>> /\ UNCHANGED <<enabled, mode, drag, held, shown>> /\ RemovedListeners
      /\ Remade /\ UNCHANGED <<unreleased, failed, emptied>> /\ frame' = TRUE
  BY DEF SetSelection, bufferVars, Chose
<1>4. p \in Spots /\ p[2] <= count - 1 /\ p[2] * Cols + p[1] + n <= count * Cols
  BY <1>1, PlaceParts DEF SetSelection
<1>5. sel' = [NoSelection EXCEPT !.start = p, !.length = n]
  BY DEF SetSelection
<1>6. sel' \in Selections /\ sel'.start = p /\ sel'.end = None /\ sel'.length = n
  BY <1>2, <1>4, <1>5, NothingSelected DEF Selections
<1>7. Made(sel, sel', count)
  BY <1>4, <1>6 DEF Made, StartIn, EndIn
<1> QED
  BY <1>2, <1>3, <1>6, <1>7, CallSelection

(* The program asks for the mouse no more; the user scrolls; a frame comes. *)
LEMMA OtherSelection ==
  ASSUME SelInv, Enable \/ (\E n \in {-1, 1} : Scroll(n)) \/ Refresh
  PROVE  SelInv'
<1>1. SelTypes /\ Dragged /\ HighlightIsSelection /\ Held
  BY DEF SelInv
<1>2. /\ ydisp \in 0..(count - Rows) /\ sel \in Selections /\ mode \in 0..3 /\ timers \in Nat /\ drag \in {-1, 0, 1}
      /\ enabled \in BOOLEAN /\ current \in BOOLEAN /\ listening \in BOOLEAN /\ held \in BOOLEAN /\ frame \in BOOLEAN
      /\ slid \in BOOLEAN /\ cleared \in BOOLEAN /\ unreleased \in BOOLEAN /\ emptied \in BOOLEAN /\ failed \in BOOLEAN
  BY <1>1 DEF SelTypes
<1>3. /\ UNCHANGED <<slots, first, count>> /\ UNCHANGED <<chosen, slid, cleared, unreleased, emptied, failed>>
      /\ UNCHANGED <<sel, mode, drag, timers, current, listening, held>>
  BY DEF Enable, Scroll, Refresh, ScrollLines, bufferVars, mouseVars, historyVars
<1>4. ydisp' \in 0..(count - Rows) /\ enabled' \in BOOLEAN /\ frame' \in BOOLEAN
  <2>1. CASE Enable
    BY <1>2, <2>1 DEF Enable, bufferVars
  <2>2. ASSUME NEW n \in {-1, 1}, Scroll(n) PROVE ydisp' \in 0..(count - Rows) /\ enabled' \in BOOLEAN /\ frame' \in BOOLEAN
    <3>1. n \in Int /\ ydisp' = ScrolledTo(n) /\ UNCHANGED enabled /\ frame' = (frame \/ ydisp' # ydisp)
      BY <2>2 DEF Scroll, ScrollLines
    <3> QED
      BY <1>1, <1>2, <3>1, ScrolledToRange
  <2>3. CASE Refresh
    BY <1>2, <2>3 DEF Refresh, bufferVars
  <2> QED
    BY <2>1, <2>2, <2>3
<1>5. SelTypes'
  BY <1>1, <1>2, <1>3, <1>4, TypesNext
<1>6. Dragged'
  BY <1>1, <1>2, <1>3, DraggedSame
<1>7. Highlight' = Highlight
  BY <1>3, HighlightSame
<1>8. HighlightIsSelection'
  <2>1. shown' = Highlight \/ (UNCHANGED shown /\ (~frame' => ~frame))
    BY <1>2 DEF Enable, Scroll, Refresh
  <2> QED
    BY <1>1, <1>3, <1>7, <2>1 DEF HighlightIsSelection
<1>9. Held'
  BY <1>1, <1>3, HeldSame
<1> QED
  BY <1>5, <1>6, <1>8, <1>9 DEF SelInv

(* The program changes to the other buffer, or clears this one.            *)
LEMMA ActivateSelection ==
  ASSUME SelInv, Activate
  PROVE  SelInv'
<1>1. SelTypes /\ Dragged
  BY DEF SelInv
<1>2. /\ mode \in 0..3 /\ timers \in Nat /\ drag \in {-1, 0, 1} /\ held \in BOOLEAN /\ enabled \in BOOLEAN
      /\ unreleased \in BOOLEAN /\ failed \in BOOLEAN /\ emptied \in BOOLEAN
  BY <1>1 DEF SelTypes
<1>3. /\ first' = 0 /\ count' = Rows /\ ydisp' = 0 /\ UNCHANGED <<mode, enabled, drag, held, shown>> /\ ClearSelection
  BY DEF Activate
<1>4. sel' = NoSelection /\ RemovedListeners /\ frame' = TRUE /\ Remade /\ UNCHANGED <<unreleased, failed, emptied>>
  BY <1>3 DEF ClearSelection, Chose
<1>5. slots' = [i \in 0..(MaxLines - 1) |-> slots'[i]]
  BY DEF Activate
<1>6. first' \in 0..(MaxLines - 1) /\ count' \in Rows..MaxLines /\ ydisp' \in 0..(count' - Rows)
  BY <1>3, SelectionAssumption
<1>7. slid' \in BOOLEAN /\ cleared' \in BOOLEAN /\ sel' \in Selections
  BY <1>1, <1>4, RemadeTypes, NothingSelected
<1>8. Dragged' /\ timers' \in Nat /\ listening' \in BOOLEAN /\ current' \in BOOLEAN
  BY <1>1, <1>4, DraggedOff
<1>9. SelTypes'
  BY <1>2, <1>3, <1>4, <1>5, <1>6, <1>7, <1>8 DEF SelTypes
<1>10. HighlightIsSelection'
  BY <1>4 DEF HighlightIsSelection
<1>11. Held'
  BY <1>4, HeldNothing
<1> QED
  BY <1>8, <1>9, <1>10, <1>11 DEF SelInv

LEMMA ClearSelectionInv ==
  ASSUME SelInv, Clear
  PROVE  SelInv'
<1>1. SelTypes /\ Dragged /\ HighlightIsSelection /\ Held
  BY DEF SelInv
<1>2. /\ ydisp \in 0..(count - Rows) /\ sel \in Selections /\ mode \in 0..3 /\ timers \in Nat /\ drag \in {-1, 0, 1}
      /\ enabled \in BOOLEAN /\ current \in BOOLEAN /\ listening \in BOOLEAN /\ held \in BOOLEAN /\ frame \in BOOLEAN
      /\ slid \in BOOLEAN /\ cleared \in BOOLEAN /\ unreleased \in BOOLEAN /\ emptied \in BOOLEAN /\ failed \in BOOLEAN
      /\ first \in 0..(MaxLines - 1)
  BY <1>1 DEF SelTypes
<1>3. /\ count' = Rows /\ ydisp' = 0 /\ frame' = TRUE /\ cleared' = (cleared \/ sel.start # None \/ sel.end # None)
      /\ UNCHANGED <<first, sel, mode, enabled, drag, timers, current, listening, held>>
      /\ UNCHANGED <<chosen, slid, unreleased, emptied, failed>>
  BY DEF Clear, mouseVars
<1>4. slots' = [i \in 0..(MaxLines - 1) |-> slots'[i]]
  <2> DEFINE blank(r) == [id |-> -(inputs * Rows + r), cells |-> [c \in 1..Cols |-> ""], wrapped |-> FALSE]
             line(i) == CASE i = first -> Line(count - 1)
                          [] \E r \in 1..Rows - 1 : i = (first + r) % MaxLines ->
                                blank((i - first + MaxLines) % MaxLines)
                          [] OTHER -> slots[i]
  <2>1. slots' = [i \in 0..(MaxLines - 1) |-> line(i)]
    BY DEF Clear
  <2> HIDE DEF line
  <2> QED
    BY <2>1
<1>5. first' \in 0..(MaxLines - 1) /\ count' \in Rows..MaxLines /\ ydisp' \in 0..(count' - Rows)
  BY <1>2, <1>3, SelectionAssumption
<1>6. cleared' \in BOOLEAN
  BY <1>2, <1>3
<1>7. SelTypes'
  BY <1>2, <1>3, <1>4, <1>5, <1>6 DEF SelTypes
<1>8. Dragged'
  BY <1>1, <1>2, <1>3, DraggedSame
<1>9. HighlightIsSelection'
  BY <1>3 DEF HighlightIsSelection
<1>10. ASSUME ~cleared' PROVE sel'.start = None /\ sel'.end = None
  BY <1>3, <1>10
<1>11. CopiedIsChosen'
  <2>1. SUFFICES ASSUME ~cleared', ~sel'.all PROVE Selected(sel, mode)' = {}
    BY DEF CopiedIsChosen
  <2>2. sel'.start = None /\ ~AreReversed(sel)'
    BY <1>10, <2>1 DEF AreReversed
  <2> QED
    BY <2>1, <2>2 DEF Selected, FinalStart
<1>12. Held'
  BY <1>10, <1>11 DEF Held, Low, Inside
<1> QED
  BY <1>7, <1>8, <1>9, <1>12 DEF SelInv

-----------------------------------------------------------------------------
(* The program writes a line.  From and To are the ends of a selection     *)
(* that is not of everything, InCells its cells.                           *)
PastEnd(s) == LET past == s.start[1] + s.length
              IN  IF past > Cols THEN <<past % Cols, s.start[2] + past \div Cols>> ELSE <<past, s.start[2]>>
From(s) == IF AreReversed(s) THEN s.end ELSE s.start
To(s) == IF s.end = None \/ AreReversed(s) THEN PastEnd(s)
         ELSE IF s.length # 0 /\ s.end[2] = s.start[2] /\ s.start[1] + s.length > s.end[1]
              THEN <<s.start[1] + s.length, s.end[2]>> ELSE s.end
InCells(s, m, c, r) ==
    /\ c \in 0..(Cols - 1) /\ r \in From(s)[2]..To(s)[2]
    /\ IF m = ColumnMode THEN c >= From(s)[1] /\ c < To(s)[1]
       ELSE (r = From(s)[2] => c >= From(s)[1]) /\ (r = To(s)[2] => c < To(s)[1])

LEMMA PastEndParts ==
  ASSUME NEW s \in Selections, s.start # None
  PROVE  \/ /\ s.start[1] + s.length <= Cols /\ PastEnd(s) = <<s.start[1] + s.length, s.start[2]>>
            /\ s.start[1] + s.length \in Nat
         \/ \E q \in Nat, m \in 0..(Cols - 1) :
               /\ PastEnd(s) = <<m, s.start[2] + q>>
               /\ s.start[1] + s.length = q * Cols + m
<1>1. s.start[1] \in 0..Cols /\ s.start[2] \in Int /\ s.length \in Nat
  BY SpotParts DEF Selections
<1>2. PICK past : past = s.start[1] + s.length
  OBVIOUS
<1>3. past \in Nat
  BY <1>1, <1>2, SelectionAssumption
<1>4. PICK q, m : q = past \div Cols /\ m = past % Cols
  OBVIOUS
<1>5. q \in Nat /\ m \in 0..(Cols - 1) /\ past = q * Cols + m
  BY <1>3, <1>4, ColsParts
<1>6. PastEnd(s) = IF past > Cols THEN <<m, s.start[2] + q>> ELSE <<past, s.start[2]>>
  BY <1>2, <1>4 DEF PastEnd
<1>7. CASE past > Cols
  BY <1>2, <1>5, <1>6, <1>7
<1>8. CASE past <= Cols
  BY <1>2, <1>3, <1>6, <1>8, SelectionAssumption
<1> QED
  BY <1>3, <1>7, <1>8, SelectionAssumption

LEMMA EndsParts ==
  ASSUME NEW s \in Selections, s.start # None
  PROVE  /\ From(s) # None /\ From(s) \in Spots
         /\ \E x \in Nat, y \in Int : To(s) = <<x, y>>
<1>1. s.start \in Spots /\ s.end \in Spots
  BY DEF Selections
<1>2. From(s) # None /\ From(s) \in Spots
  BY <1>1 DEF From, AreReversed
<1>3. s.start[1] \in Nat /\ s.start[2] \in Int /\ s.length \in Nat
  BY <1>1, SpotParts DEF Selections
<1>4. \E x \in Nat, y \in Int : PastEnd(s) = <<x, y>>
  <2>1. CASE /\ s.start[1] + s.length <= Cols /\ PastEnd(s) = <<s.start[1] + s.length, s.start[2]>>
             /\ s.start[1] + s.length \in Nat
    BY <1>3, <2>1
  <2>2. ASSUME NEW q \in Nat, NEW m \in 0..(Cols - 1), PastEnd(s) = <<m, s.start[2] + q>>
        PROVE  \E x \in Nat, y \in Int : PastEnd(s) = <<x, y>>
    <3>1. m \in Nat /\ s.start[2] + q \in Int
      BY <1>3, SelectionAssumption
    <3> QED
      BY <2>2, <3>1
  <2> QED
    BY <2>1, <2>2, PastEndParts
<1>5. CASE s.end = None \/ AreReversed(s)
  <2>1. To(s) = PastEnd(s)
    BY <1>5 DEF To
  <2>2. PICK x \in Nat, y \in Int : PastEnd(s) = <<x, y>>
    BY <1>4
  <2>3. To(s) = <<x, y>>
    BY <2>1, <2>2
  <2> QED
    BY <1>2, <2>3
<1>6. CASE ~(s.end = None \/ AreReversed(s))
  <2>1. s.end[1] \in Nat /\ s.end[2] \in Int /\ s.end = <<s.end[1], s.end[2]>>
    BY <1>1, <1>6, SpotParts
  <2>2. To(s) = <<s.start[1] + s.length, s.end[2]>> \/ To(s) = <<s.end[1], s.end[2]>>
    BY <1>6, <2>1 DEF To
  <2>3. PICK p, u, v : p = s.start[1] + s.length /\ u = s.end[1] /\ v = s.end[2]
    OBVIOUS
  <2>4. p \in Nat /\ u \in Nat /\ v \in Int
    BY <1>3, <2>1, <2>3
  <2>5. To(s) = <<p, v>> \/ To(s) = <<u, v>>
    BY <2>2, <2>3
  <2> QED
    BY <1>2, <2>4, <2>5
<1> QED
  BY <1>2, <1>5, <1>6

LEMMA FinalsParts ==
  ASSUME NEW s \in Selections, ~s.all, s.start # None
  PROVE  FinalStart(s) = From(s) /\ FinalEnd(s) = To(s) /\ From(s) # None /\ To(s) # None
<1>1. FinalStart(s) = From(s)
  BY DEF FinalStart, From
<1>2. FinalEnd(s) = To(s)
  <2>1. CASE s.end = None \/ AreReversed(s)
    <3>1. FinalEnd(s) = PastEnd(s)
      BY <2>1 DEF FinalEnd, PastEnd
    <3> QED
      BY <2>1, <3>1 DEF To
  <2>2. CASE ~(s.end = None \/ AreReversed(s))
    BY <2>2 DEF FinalEnd, To
  <2> QED
    BY <2>1, <2>2
<1>3. From(s) # None /\ To(s) # None
  BY EndsParts DEF None
<1> QED
  BY <1>1, <1>2, <1>3

(* The cells of a selection are on rows of the buffer.                     *)
LEMMA CellsInBuffer ==
  ASSUME NEW s \in Selections, s.start # None, NEW n \in Nat, Low(s, n), Inside(s, n), NEW m, NEW c, NEW r, InCells(s, m, c, r)
  PROVE  r \in 0..(n - 1) /\ From(s)[2] >= 0 /\ r >= From(s)[2]
<1>1. s.start \in Spots /\ s.end \in Spots /\ s.length \in Nat
  BY DEF Selections
<1>2. PICK x \in 0..Cols, y \in Int : s.start = <<x, y>>
  BY <1>1, SpotParts
<1>3. y >= 0 /\ y <= n - 1 /\ y * Cols + x + s.length <= n * Cols
  BY <1>2 DEF Low, Inside
<1>4. s.end # None => s.end[2] \in Int /\ s.end[2] >= 0 /\ s.end[2] <= n - 1
  BY <1>1, SpotParts DEF Low, Inside
<1>5. From(s)[2] \in Int /\ From(s)[2] >= 0
  BY <1>2, <1>3, <1>4 DEF From, AreReversed
<1>6. PICK u \in Nat, v \in Int : To(s) = <<u, v>>
  BY EndsParts
<1>7. c \in 0..(Cols - 1) /\ r \in From(s)[2]..v /\ (r = v => c < u)
  BY <1>6 DEF InCells
<1>8. r \in Int /\ r >= 0 /\ r <= v
  BY <1>5, <1>6, <1>7
<1>9. v <= n - 1 \/ (u = 0 /\ v <= n)
  <2>1. CASE s.end = None \/ AreReversed(s)
    <3>1. To(s) = PastEnd(s)
      BY <2>1 DEF To
    <3>2. CASE PastEnd(s) = <<s.start[1] + s.length, s.start[2]>>
      BY <1>2, <1>3, <1>6, <3>1, <3>2
    <3>3. ASSUME NEW q \in Nat, NEW k \in 0..(Cols - 1), PastEnd(s) = <<k, s.start[2] + q>>, s.start[1] + s.length = q * Cols + k
          PROVE  v <= n - 1 \/ (u = 0 /\ v <= n)
      <4>1. u = k /\ v = y + q
        BY <1>2, <1>6, <3>1, <3>3
      <4>2. PICK n1, n2, d : n1 = y * Cols /\ n2 = q * Cols /\ d = n * Cols
        OBVIOUS
      <4>3. (y + q) * Cols = y * Cols + q * Cols /\ n1 \in Int /\ n2 \in Int /\ d \in Int
        BY <4>2, SelectionAssumption
      <4>4. v * Cols = n1 + n2
        BY <4>1, <4>2, <4>3
      <4>5. x + s.length = n2 + k /\ n1 + x + s.length <= d /\ x \in Int /\ k \in Int
        BY <1>2, <1>3, <3>3, <4>2, SelectionAssumption
      <4>6. n1 + n2 + k <= d
        BY <1>1, <4>3, <4>5
      <4>7. v * Cols + k <= n * Cols
        BY <4>2, <4>4, <4>6
      <4>8. (k > 0 => v < n) /\ (k >= 0 => v <= n)
        BY <4>5, <4>7, RowBefore
      <4>9. k > 0 \/ k = 0
        BY SelectionAssumption
      <4> QED
        BY <4>1, <4>8, <4>9
    <3> QED
      BY <3>2, <3>3, PastEndParts
  <2>2. CASE ~(s.end = None \/ AreReversed(s))
    <3>1. v = s.end[2]
      BY <1>6, <2>2 DEF To
    <3> QED
      BY <1>4, <2>2, <3>1
  <2> QED
    BY <2>1, <2>2
<1>10. r <= n - 1
  BY <1>7, <1>8, <1>9, SelectionAssumption
<1> QED
  BY <1>5, <1>7, <1>8, <1>10

(* A selection that keeps its start and its end is lowered as a whole.     *)
LEMMA LoweredCells ==
  ASSUME NEW s \in Selections, s.start # None, NEW t \in Selections,
         t.start = Lowered(s.start), t.end = Lowered(s.end), t.length = s.length,
         NEW m, NEW c, NEW r \in Int, InCells(t, m, c, r)
  PROVE  InCells(s, m, c, r + 1)
<1>1. s.start \in Spots /\ s.end \in Spots /\ s.length \in Nat
  BY DEF Selections
<1>2. PICK x \in 0..Cols, y \in Int : s.start = <<x, y>>
  BY <1>1, SpotParts
<1>3. t.start = <<x, y - 1>> /\ t.start # None
  BY <1>2, SpotParts DEF Lowered
<1>4. s.end = None => t.end = None
  BY DEF Lowered
<1>5. s.end # None => t.end = <<s.end[1], s.end[2] - 1>> /\ s.end[1] \in 0..Cols /\ s.end[2] \in Int /\ t.end # None
                      /\ t.end[1] = s.end[1] /\ t.end[2] = s.end[2] - 1
  BY <1>1, SpotParts DEF Lowered
<1>6. AreReversed(t) = AreReversed(s)
  <2>1. CASE s.end = None
    BY <1>4, <2>1 DEF AreReversed
  <2>2. CASE s.end # None
    BY <1>2, <1>3, <1>5, <2>2 DEF AreReversed
  <2> QED
    BY <2>1, <2>2
<1>7. From(t) # None /\ From(t)[1] = From(s)[1] /\ From(t)[2] = From(s)[2] - 1 /\ From(s)[2] \in Int
  <2>1. CASE AreReversed(s)
    BY <1>5, <1>6, <2>1 DEF From, AreReversed
  <2>2. CASE ~AreReversed(s)
    BY <1>2, <1>3, <1>6, <2>2 DEF From
  <2> QED
    BY <2>1, <2>2
<1>8. PICK past, q, k : past = x + s.length /\ q = past \div Cols /\ k = past % Cols
  OBVIOUS
<1>9. past \in Nat /\ q \in Nat
  <2>1. past \in Nat
    BY <1>1, <1>8, SelectionAssumption
  <2> QED
    BY <1>8, <2>1, ColsParts
<1>10. To(t)[1] = To(s)[1] /\ To(t)[2] = To(s)[2] - 1 /\ To(s)[2] \in Int
  <2>1. CASE s.end = None \/ AreReversed(s)
    <3>1. To(s) = PastEnd(s) /\ To(t) = PastEnd(t)
      BY <1>4, <1>6, <2>1 DEF To
    <3>2. PastEnd(s) = IF past > Cols THEN <<k, y + q>> ELSE <<past, y>>
      BY <1>2, <1>8 DEF PastEnd
    <3>3. PastEnd(t) = IF past > Cols THEN <<k, y - 1 + q>> ELSE <<past, y - 1>>
      BY <1>3, <1>8 DEF PastEnd
    <3>4. PICK n1, n2 : n1 = y + q /\ n2 = y - 1 + q
      OBVIOUS
    <3>5. n1 \in Int /\ n2 = n1 - 1
      BY <1>9, <3>4
    <3>6. CASE past > Cols
      <4>1. To(s) = <<k, n1>> /\ To(t) = <<k, n2>>
        BY <3>1, <3>2, <3>3, <3>4, <3>6
      <4> QED
        BY <3>5, <4>1
    <3>7. CASE ~(past > Cols)
      <4>1. To(s) = <<past, y>> /\ To(t) = <<past, y - 1>>
        BY <3>1, <3>2, <3>3, <3>7
      <4> QED
        BY <4>1
    <3> QED
      BY <3>6, <3>7
  <2>2. CASE ~(s.end = None \/ AreReversed(s))
    <3>1. ~(t.end = None \/ AreReversed(t))
      BY <1>5, <1>6, <2>2
    <3>2. To(s) = IF s.length # 0 /\ s.end[2] = y /\ past > s.end[1] THEN <<past, s.end[2]>> ELSE s.end
      BY <1>2, <1>8, <2>2 DEF To
    <3>3. To(t) = IF s.length # 0 /\ t.end[2] = y - 1 /\ past > t.end[1] THEN <<past, t.end[2]>> ELSE t.end
      BY <1>3, <1>8, <3>1 DEF To
    <3>4. t.end[2] = y - 1 <=> s.end[2] = y
      BY <1>5, <2>2
    <3> QED
      BY <1>5, <2>2, <3>2, <3>3, <3>4
  <2> QED
    BY <2>1, <2>2
<1>11. PICK n1, n2 : n1 = From(s)[2] /\ n2 = To(s)[2]
  OBVIOUS
<1>12. c \in 0..(Cols - 1) /\ r \in (n1 - 1)..(n2 - 1) /\ n1 \in Int /\ n2 \in Int
  BY <1>7, <1>10, <1>11 DEF InCells
<1>13. r + 1 \in n1..n2 /\ (r + 1 = n1 <=> r = n1 - 1) /\ (r + 1 = n2 <=> r = n2 - 1)
  BY <1>12
<1>14. From(t)[2] = n1 - 1 /\ To(t)[2] = n2 - 1
  BY <1>7, <1>10, <1>11
<1> QED
  BY <1>7, <1>10, <1>11, <1>12, <1>13, <1>14 DEF InCells

(* One that loses its start keeps the cells of the rows that are left, if  *)
(* it has an end of its own right of where it starts.                      *)
LEMMA CutCells ==
  ASSUME NEW s \in Selections, s.start # None, s.start[2] = 0, s.end # None => s.end[2] >= 1, s.length = 0,
         NEW t \in Selections, t.start = <<s.start[1], 0>>, t.end = Lowered(s.end), t.length = 0, ~AreReversed(t),
         NEW m, NEW c, NEW r \in Int, InCells(t, m, c, r)
  PROVE  InCells(s, m, c, r + 1) /\ r >= 0
<1>1. s.start \in Spots /\ s.end \in Spots
  BY DEF Selections
<1>2. PICK x \in 0..Cols : s.start = <<x, 0>>
  BY <1>1, SpotParts
<1>3. t.start = <<x, 0>> /\ From(t) = <<x, 0>>
  BY <1>2 DEF From
<1>4. s.end # None
  <2>1. SUFFICES ASSUME s.end = None PROVE FALSE
    OBVIOUS
  <2>2. t.end = None
    BY <2>1 DEF Lowered
  <2>3. To(t) = PastEnd(t) /\ x + 0 = x /\ ~(x > Cols)
    BY <2>2, SelectionAssumption DEF To
  <2>4. To(t) = <<x, 0>>
    BY <1>3, <2>3 DEF PastEnd
  <2>5. c \in 0..(Cols - 1) /\ r \in 0..0 /\ (IF m = ColumnMode THEN c >= x /\ c < x ELSE (r = 0 => c >= x) /\ (r = 0 => c < x))
    BY <1>3, <2>4 DEF InCells
  <2> QED
    BY <2>5
<1>5. PICK u \in 0..Cols, v \in Int : s.end = <<u, v>>
  BY <1>1, <1>4, SpotParts
<1>6. v >= 1 /\ t.end = <<u, v - 1>> /\ t.end # None
  BY <1>4, <1>5, SpotParts DEF Lowered
<1>7. ~AreReversed(s)
  BY <1>2, <1>5, <1>6 DEF AreReversed
<1>8. From(s) = <<x, 0>> /\ To(s) = <<u, v>> /\ To(t) = <<u, v - 1>>
  BY <1>2, <1>4, <1>5, <1>6, <1>7 DEF From, To
<1>9. c \in 0..(Cols - 1) /\ r \in 0..(v - 1)
      /\ IF m = ColumnMode THEN c >= x /\ c < u ELSE (r = 0 => c >= x) /\ (r = v - 1 => c < u)
  BY <1>3, <1>8 DEF InCells
<1>10. r + 1 \in 0..v /\ r + 1 # 0 /\ (r + 1 = v <=> r = v - 1) /\ r >= 0
  BY <1>9
<1> QED
  BY <1>8, <1>9, <1>10 DEF InCells

(* What is copied, as cells.                                               *)
LEMMA SelectedCells ==
  ASSUME sel \in Selections, ~sel.all
  PROVE  /\ sel.start = None => Selected(sel, mode) = {}
         /\ sel.start # None =>
              \A c \in 0..(Cols - 1), r \in Int :
                 InCells(sel, mode, c, r) /\ Line(r) # None => <<Line(r).id, c>> \in Selected(sel, mode)
<1>1. CASE sel.start = None
  BY <1>1 DEF Selected, FinalStart, AreReversed
<1>2. CASE sel.start # None
  <2>1. FinalStart(sel) = From(sel) /\ FinalEnd(sel) = To(sel) /\ From(sel) # None /\ To(sel) # None
    BY <1>2, FinalsParts
  <2>2. ASSUME NEW c \in 0..(Cols - 1), NEW r \in Int, InCells(sel, mode, c, r), Line(r) # None
        PROVE  <<Line(r).id, c>> \in Selected(sel, mode)
    <3>1. PICK p : p = <<c, r>>
      OBVIOUS
    <3>2. p[1] = c /\ p[2] = r /\ p \in (0..Cols - 1) \X (From(sel)[2]..To(sel)[2])
      BY <2>2, <3>1 DEF InCells
    <3>3. IF mode = ColumnMode THEN p[1] >= From(sel)[1] /\ p[1] < To(sel)[1]
          ELSE (p[2] = From(sel)[2] => p[1] >= From(sel)[1]) /\ (p[2] = To(sel)[2] => p[1] < To(sel)[1])
      BY <2>2, <3>2 DEF InCells
    <3>4. Exists(p[2])
      BY <2>2, <3>2 DEF Exists
    <3> DEFINE cells == { q \in (0..Cols - 1) \X (From(sel)[2]..To(sel)[2]) :
                            Exists(q[2]) /\ IF mode = ColumnMode THEN q[1] >= From(sel)[1] /\ q[1] < To(sel)[1]
                                            ELSE (q[2] = From(sel)[2] => q[1] >= From(sel)[1])
                                                 /\ (q[2] = To(sel)[2] => q[1] < To(sel)[1]) }
    <3>5. p \in cells
      BY <3>2, <3>3, <3>4
    <3>6. Selected(sel, mode) = {<<Line(q[2]).id, q[1]>> : q \in cells}
      BY <2>1 DEF Selected
    <3> HIDE DEF cells
    <3>7. <<Line(p[2]).id, p[1]>> \in Selected(sel, mode)
      BY <3>5, <3>6
    <3> QED
      BY <3>2, <3>7
  <2> QED
    BY <1>2, <2>2
<1> QED
  BY <1>1, <1>2

LEMMA SelectedNext ==
  ASSUME sel' \in Selections, ~sel'.all
  PROVE  /\ sel'.start = None => Selected(sel, mode)' = {}
         /\ sel'.start # None =>
              \A e \in Selected(sel, mode)' :
                 \E c \in 0..(Cols - 1), r \in Int :
                    InCells(sel', mode', c, r) /\ Line(r)' # None /\ e = <<Line(r)'.id, c>>
<1>1. CASE sel'.start = None
  <2>1. FinalStart(sel)' = None
    BY <1>1 DEF FinalStart, AreReversed
  <2> QED
    BY <1>1, <2>1 DEF Selected
<1>2. CASE sel'.start # None
  <2>1. FinalStart(sel)' = From(sel)' /\ FinalEnd(sel)' = To(sel)' /\ From(sel)' # None /\ To(sel)' # None
    <3>1. FinalStart(sel') = From(sel') /\ From(sel') # None /\ To(sel') # None
      BY <1>2, FinalsParts
    <3>2. FinalEnd(sel)' = To(sel)'
      <4>1. CASE sel'.end = None \/ AreReversed(sel')
        <5>1. FinalEnd(sel)' = PastEnd(sel)'
          BY <1>2, <4>1 DEF FinalEnd, PastEnd
        <5> QED
          BY <4>1, <5>1 DEF To
      <4>2. CASE ~(sel'.end = None \/ AreReversed(sel'))
        BY <1>2, <4>2 DEF FinalEnd, To
      <4> QED
        BY <4>1, <4>2
    <3> QED
      BY <3>1, <3>2
  <2>2. SUFFICES ASSUME NEW e \in Selected(sel, mode)'
                 PROVE  \E c \in 0..(Cols - 1), r \in Int :
                           InCells(sel', mode', c, r) /\ Line(r)' # None /\ e = <<Line(r)'.id, c>>
    BY <1>2
  <2> DEFINE cells == { q \in (0..Cols - 1) \X (From(sel)[2]..To(sel)[2]) :
                          Exists(q[2]) /\ IF mode = ColumnMode THEN q[1] >= From(sel)[1] /\ q[1] < To(sel)[1]
                                          ELSE (q[2] = From(sel)[2] => q[1] >= From(sel)[1])
                                               /\ (q[2] = To(sel)[2] => q[1] < To(sel)[1]) }
  <2>3. Selected(sel, mode)' = {<<Line(q[2]).id, q[1]>> : q \in cells}'
    BY <2>1 DEF Selected
  <2>4. PICK q \in cells' : e = <<Line(q[2])'.id, q[1]>>
    BY <2>2, <2>3
  <2>5. /\ q \in (0..Cols - 1) \X (From(sel')[2]..To(sel')[2]) /\ Line(q[2])' # None
        /\ IF mode' = ColumnMode THEN q[1] >= From(sel')[1] /\ q[1] < To(sel')[1]
           ELSE (q[2] = From(sel')[2] => q[1] >= From(sel')[1]) /\ (q[2] = To(sel')[2] => q[1] < To(sel')[1])
    BY <2>4 DEF Exists
  <2>6. From(sel')[2] \in Int /\ To(sel')[2] \in Int
    <3>1. From(sel')[2] \in Int
      BY <1>2, EndsParts, SpotParts
    <3>2. PICK x \in Nat, y \in Int : To(sel') = <<x, y>>
      BY <1>2, EndsParts
    <3> QED
      BY <3>1, <3>2
  <2>7. q[1] \in 0..(Cols - 1) /\ q[2] \in From(sel')[2]..To(sel')[2] /\ q[2] \in Int
    BY <2>5, <2>6
  <2>8. InCells(sel', mode', q[1], q[2])
    BY <2>5, <2>7 DEF InCells
  <2> QED
    BY <2>4, <2>5, <2>7, <2>8
<1> QED
  BY <1>1, <1>2

(* The lines that stay are found where they were, or a row above when the  *)
(* buffer was full.                                                        *)
LEMMA LinesStay ==
  ASSUME SelTypes, NEW t, Feed(t)
  PROVE  /\ count < MaxLines => \A r \in 0..(count - 1) : Line(r)' = Line(r)
         /\ count = MaxLines => \A r \in 0..(count - 1) : r >= 1 => Line(r - 1)' = Line(r)
<1>1. first \in 0..(MaxLines - 1) /\ count \in Rows..MaxLines /\ slots = [i \in 0..(MaxLines - 1) |-> slots[i]]
      /\ MaxLines \in Nat /\ MaxLines > 0 /\ count \in Nat
  BY SelectionAssumption DEF SelTypes
<1>2. PICK line : slots' = [slots EXCEPT ![(first + count) % MaxLines] = line]
  BY DEF Feed
<1>3. first' = IF count = MaxLines THEN (first + 1) % MaxLines ELSE first
  BY DEF Feed
<1>4. \A k \in Nat : k < 2 * MaxLines => k % MaxLines = IF k < MaxLines THEN k ELSE k - MaxLines
  BY RoundParts
<1>5. PICK j : j = (first + count) % MaxLines
  OBVIOUS
<1>6. j = IF first + count < MaxLines THEN first + count ELSE first + count - MaxLines
  <2>1. PICK n : n = first + count
    OBVIOUS
  <2>2. n \in Nat /\ n < 2 * MaxLines
    BY <1>1, <2>1
  <2>3. n % MaxLines = IF n < MaxLines THEN n ELSE n - MaxLines
    BY <1>4, <2>2
  <2>4. j = n % MaxLines
    BY <1>5, <2>1, Zenon
  <2> QED
    BY <1>1, <2>1, <2>2, <2>3, <2>4
<1>7. \A i \in 0..(MaxLines - 1) : i # j => slots'[i] = slots[i]
  BY <1>1, <1>2, <1>5
<1>8. ASSUME count < MaxLines, NEW r \in 0..(count - 1) PROVE Line(r)' = Line(r)
  <2>1. PICK i : i = (first + r) % MaxLines
    OBVIOUS
  <2>2. i = IF first + r < MaxLines THEN first + r ELSE first + r - MaxLines
    <3>1. PICK n : n = first + r
      OBVIOUS
    <3>2. n \in Nat /\ n < 2 * MaxLines
      BY <1>1, <3>1
    <3>3. n % MaxLines = IF n < MaxLines THEN n ELSE n - MaxLines
      BY <1>4, <3>2
    <3>4. i = n % MaxLines
      BY <2>1, <3>1, Zenon
    <3> QED
      BY <1>1, <3>1, <3>2, <3>3, <3>4
  <2>3. i \in 0..(MaxLines - 1) /\ i # j
    BY <1>1, <1>6, <1>8, <2>2
  <2>4. slots'[i] = slots[i]
    BY <1>7, <2>3
  <2>5. first' = first /\ ~(first + r < 0)
    BY <1>1, <1>3, <1>8
  <2> QED
    BY <2>1, <2>4, <2>5 DEF Line
<1>9. ASSUME count = MaxLines, NEW r \in 0..(count - 1), r >= 1 PROVE Line(r - 1)' = Line(r)
  <2>1. first' = IF first + 1 < MaxLines THEN first + 1 ELSE first + 1 - MaxLines
    <3>1. PICK n : n = first + 1
      OBVIOUS
    <3>2. n \in Nat /\ n < 2 * MaxLines
      BY <1>1, <1>9, <3>1
    <3>3. n % MaxLines = IF n < MaxLines THEN n ELSE n - MaxLines
      BY <1>4, <3>2
    <3>4. first' = n % MaxLines
      BY <1>3, <1>9, <3>1, Zenon
    <3> QED
      BY <1>1, <3>1, <3>2, <3>3, <3>4
  <2>2. PICK i, k : i = (first + r) % MaxLines /\ k = (first' + (r - 1)) % MaxLines
    OBVIOUS
  <2>3. i = IF first + r < MaxLines THEN first + r ELSE first + r - MaxLines
    <3>1. PICK n : n = first + r
      OBVIOUS
    <3>2. n \in Nat /\ n < 2 * MaxLines
      BY <1>1, <1>9, <3>1
    <3>3. n % MaxLines = IF n < MaxLines THEN n ELSE n - MaxLines
      BY <1>4, <3>2
    <3>4. i = n % MaxLines
      BY <2>2, <3>1, Zenon
    <3> QED
      BY <1>1, <3>1, <3>2, <3>3, <3>4
  <2>4. k = IF first' + (r - 1) < MaxLines THEN first' + (r - 1) ELSE first' + (r - 1) - MaxLines
    <3>1. PICK n : n = first' + (r - 1)
      OBVIOUS
    <3>2. n \in Nat /\ n < 2 * MaxLines
      BY <1>1, <1>9, <2>1, <3>1
    <3>3. n % MaxLines = IF n < MaxLines THEN n ELSE n - MaxLines
      BY <1>4, <3>2
    <3>4. k = n % MaxLines
      BY <2>2, <3>1, Zenon
    <3> QED
      BY <1>1, <2>1, <3>1, <3>2, <3>3, <3>4
  <2>5. i = k
    BY <1>1, <1>9, <2>1, <2>3, <2>4
  <2>6. i \in 0..(MaxLines - 1) /\ i # j
    BY <1>1, <1>6, <1>9, <2>3
  <2>7. slots'[i] = slots[i]
    BY <1>7, <2>6
  <2>8. ~(first + r < 0) /\ ~(first' + (r - 1) < 0)
    BY <1>1, <1>9, <2>1
  <2> QED
    BY <2>2, <2>5, <2>7, <2>8 DEF Line
<1> QED
  BY <1>8, <1>9

LEMMA OnTrimParts ==
  ASSUME NEW s \in Selections
  PROVE  /\ OnTrim(s) \in Selections
         /\ \/ s.end # None /\ s.end[2] <= 0 /\ OnTrim(s) = NoSelection
            \/ /\ s.end # None => s.end[2] >= 1
               /\ s.start # None /\ s.start[2] <= 0
               /\ OnTrim(s).start = <<s.start[1], 0>> /\ OnTrim(s).end = Lowered(s.end)
               /\ OnTrim(s).length = s.length /\ OnTrim(s).all = s.all
            \/ /\ s.end # None => s.end[2] >= 1
               /\ s.start # None => s.start[2] >= 1
               /\ OnTrim(s).start = Lowered(s.start) /\ OnTrim(s).end = Lowered(s.end)
               /\ OnTrim(s).length = s.length /\ OnTrim(s).all = s.all
<1>1. s.start \in Spots /\ s.end \in Spots
  BY DEF Selections
<1>2. PICK p, q : p = Lowered(s.start) /\ q = Lowered(s.end)
  OBVIOUS
<1>3. p \in Spots /\ q \in Spots
  <2>1. \A z \in Spots : Lowered(z) \in Spots
    BY SpotParts DEF Lowered
  <2> QED
    BY <1>1, <1>2, <2>1
<1>4. s.start # None => p # None /\ p[1] = s.start[1] /\ p[2] = s.start[2] - 1 /\ s.start[2] \in Int /\ s.start[1] \in 0..Cols
  BY <1>1, <1>2, SpotParts DEF Lowered
<1>5. s.end # None => q # None /\ q[2] = s.end[2] - 1 /\ s.end[2] \in Int
  BY <1>1, <1>2, SpotParts DEF Lowered
<1>6. (s.start = None => p = None) /\ (s.end = None => q = None)
  BY <1>2 DEF Lowered
<1>7. PICK low : low = [s EXCEPT !.start = p, !.end = q]
  OBVIOUS
<1>8. low \in Selections /\ low.start = p /\ low.end = q /\ low.length = s.length /\ low.all = s.all
  BY <1>3, <1>7 DEF Selections
<1>9. OnTrim(s) = IF low.end # None /\ low.end[2] < 0 THEN NoSelection
                  ELSE IF low.start # None /\ low.start[2] < 0 THEN [low EXCEPT !.start[2] = 0]
                  ELSE low
  BY <1>2, <1>7 DEF OnTrim
<1>10. CASE q # None /\ q[2] < 0
  <2>1. OnTrim(s) = NoSelection /\ s.end # None
    BY <1>6, <1>8, <1>9, <1>10
  <2>2. s.end[2] <= 0
    BY <1>5, <1>10, <2>1
  <2> QED
    BY <2>1, <2>2, NothingSelected
<1>11. CASE ~(q # None /\ q[2] < 0) /\ p # None /\ p[2] < 0
  <2>1. OnTrim(s) = [low EXCEPT !.start[2] = 0] /\ s.start # None
    BY <1>6, <1>8, <1>9, <1>11
  <2>2. p = <<s.start[1], s.start[2] - 1>>
    BY <1>2, <2>1 DEF Lowered
  <2>3. [low EXCEPT !.start[2] = 0] = [low EXCEPT !.start = <<s.start[1], 0>>]
    <3>1. [low.start EXCEPT ![2] = 0] = <<s.start[1], 0>>
      BY <1>8, <2>2
    <3> QED
      BY <3>1
  <2>4. PICK z : z = <<s.start[1], 0>>
    OBVIOUS
  <2>5. z \in Spots
    BY <1>4, <2>1, <2>4, SpotParts
  <2>6. PICK t : t = [low EXCEPT !.start = z]
    OBVIOUS
  <2>7. t \in Selections /\ t.start = z /\ t.end = q /\ t.length = s.length /\ t.all = s.all
    BY <1>8, <2>5, <2>6 DEF Selections
  <2>8. OnTrim(s) = t
    BY <2>1, <2>3, <2>4, <2>6
  <2>9. s.start[2] <= 0 /\ (s.end # None => s.end[2] >= 1)
    BY <1>4, <1>5, <1>11, <2>1
  <2> QED
    BY <1>2, <2>1, <2>4, <2>7, <2>8, <2>9
<1>12. CASE ~(q # None /\ q[2] < 0) /\ ~(p # None /\ p[2] < 0)
  <2>1. OnTrim(s) = low
    BY <1>8, <1>9, <1>12
  <2>2. (s.end # None => s.end[2] >= 1) /\ (s.start # None => s.start[2] >= 1)
    BY <1>4, <1>5, <1>12
  <2> QED
    BY <1>2, <1>8, <2>1, <2>2
<1> QED
  BY <1>10, <1>11, <1>12

(* A full buffer drops its first row.                                      *)
LEMMA TrimmedHeld ==
  ASSUME SelTypes, Held, NEW text, Feed(text), count = MaxLines
  PROVE  Held'
<1>1. sel \in Selections /\ count \in Nat /\ count > 0 /\ slid \in BOOLEAN /\ cleared \in BOOLEAN
  BY SelectionAssumption DEF SelTypes
<1>2. /\ count' = count /\ sel' = OnTrim(sel) /\ UNCHANGED <<mode, chosen, cleared>>
      /\ slid' = (slid \/ (sel.start # None /\ sel.start[2] = 0 /\ sel'.start # None /\ (sel'.length > 0 \/ AreReversed(sel'))))
  BY DEF Feed
<1>3. sel' \in Selections
  BY <1>1, <1>2, OnTrimParts
<1>4. sel.start \in Spots /\ sel.end \in Spots /\ sel.length \in Nat
  BY <1>1 DEF Selections
<1>5. CASE sel' = NoSelection
  <2>1. Low(sel, count)' /\ Inside(sel, count)'
    BY <1>5, NothingSelected DEF Low, Inside
  <2>2. Selected(sel, mode)' = {}
    <3>1. ~sel'.all /\ sel'.start = None
      BY <1>5, NothingSelected
    <3> QED
      BY <1>3, <3>1, SelectedNext
  <2> QED
    BY <2>1, <2>2 DEF Held, CopiedIsChosen
<1>6. sel.end # None => sel.end[1] \in 0..Cols /\ sel.end[2] \in Int /\ Lowered(sel.end) = <<sel.end[1], sel.end[2] - 1>>
                        /\ Lowered(sel.end)[2] = sel.end[2] - 1 /\ Lowered(sel.end) # None
  BY <1>4, SpotParts DEF Lowered
<1>7. sel.start # None => /\ sel.start[1] \in 0..Cols /\ sel.start[2] \in Int
                          /\ Lowered(sel.start) = <<sel.start[1], sel.start[2] - 1>> /\ Lowered(sel.start) # None
                          /\ Lowered(sel.start)[1] = sel.start[1] /\ Lowered(sel.start)[2] = sel.start[2] - 1
  BY <1>4, SpotParts DEF Lowered
<1>8. (sel.end = None => Lowered(sel.end) = None) /\ (sel.start = None => Lowered(sel.start) = None)
  BY DEF Lowered
<1>9. ASSUME sel.end # None => sel.end[2] >= 1, sel.start # None,
             sel'.start # None => \A c \in 0..(Cols - 1), r \in Int :
                InCells(sel', mode, c, r) => InCells(sel, mode, c, r + 1) /\ r >= 0,
             ~cleared, ~slid, ~sel'.all, sel'.all = sel.all
      PROVE  Selected(sel, mode)' \subseteq chosen
  <2>1. Low(sel, count) /\ Inside(sel, count) /\ ~sel.all
    BY <1>9 DEF Held
  <2>2. Selected(sel, mode) \subseteq chosen
    BY <1>9, <2>1 DEF Held, CopiedIsChosen
  <2>3. CASE sel'.start = None
    BY <1>3, <1>9, <2>3, SelectedNext
  <2>4. CASE sel'.start # None
    <3>1. ASSUME NEW e \in Selected(sel, mode)' PROVE e \in Selected(sel, mode)
      <4>1. PICK c \in 0..(Cols - 1), r \in Int : InCells(sel', mode', c, r) /\ Line(r)' # None /\ e = <<Line(r)'.id, c>>
        BY <1>3, <1>9, <2>4, <3>1, SelectedNext
      <4>2. InCells(sel, mode, c, r + 1) /\ r >= 0
        BY <1>2, <1>9, <2>4, <4>1
      <4>3. PICK q : q = r + 1
        OBVIOUS
      <4>4. q \in Int /\ q >= 1 /\ r = q - 1 /\ InCells(sel, mode, c, q)
        BY <4>2, <4>3
      <4>5. q \in 0..(count - 1)
        BY <1>1, <1>9, <2>1, <4>4, CellsInBuffer
      <4>6. Line(q - 1)' = Line(q)
        BY <4>4, <4>5, LinesStay
      <4>7. Line(r)' = Line(q)
        BY <4>4, <4>6
      <4> QED
        BY <1>1, <1>9, <2>1, <4>1, <4>4, <4>7, SelectedCells
    <3> QED
      BY <2>2, <3>1
  <2> QED
    BY <2>3, <2>4
<1>10. CASE /\ sel.end # None => sel.end[2] >= 1
            /\ sel.start # None /\ sel.start[2] <= 0
            /\ sel'.start = <<sel.start[1], 0>> /\ sel'.end = Lowered(sel.end)
            /\ sel'.length = sel.length /\ sel'.all = sel.all
  <2>1. sel'.start # None /\ sel'.start[1] = sel.start[1] /\ sel'.start[2] = 0
    BY <1>7, <1>10, SpotParts
  <2>2. ASSUME ~cleared PROVE Low(sel, count)'
    <3>1. Low(sel, count)
      BY <2>2 DEF Held
    <3> QED
      BY <1>1, <1>2, <1>6, <1>8, <1>10, <2>1, <3>1 DEF Low
  <2>3. ASSUME ~cleared, ~slid' PROVE sel.start[2] = 0 /\ sel'.length = 0 /\ sel.length = 0 /\ ~AreReversed(sel') /\ ~slid
    <3>1. ~slid
      BY <1>2, <2>3
    <3>2. sel.start[2] >= 0
      BY <1>10, <2>3, <3>1 DEF Held, Inside
    <3>3. sel.start[2] = 0
      BY <1>7, <1>10, <3>2
    <3>4. ~(sel'.length > 0 \/ AreReversed(sel'))
      BY <1>2, <1>10, <2>1, <2>3, <3>3
    <3> QED
      BY <1>4, <1>10, <3>1, <3>3, <3>4
  <2>4. ASSUME ~cleared, ~slid' PROVE Inside(sel, count)'
    <3>1. count * Cols >= Cols
      <4>1. 0 * Cols + Cols <= count * Cols
        BY <1>1, RowFits
      <4> QED
        BY <4>1, SelectionAssumption
    <3>2. PICK n1 : n1 = count * Cols
      OBVIOUS
    <3>3. 0 * Cols + sel.start[1] + 0 <= n1
      BY <1>7, <1>10, <3>1, <3>2, SelectionAssumption
    <3> QED
      BY <1>2, <1>6, <1>8, <1>10, <2>1, <2>3, <2>4, <3>2, <3>3 DEF Inside
  <2>5. CopiedIsChosen'
    <3>1. SUFFICES ASSUME ~slid', ~cleared', ~sel'.all PROVE Selected(sel, mode)' \subseteq chosen'
      BY DEF CopiedIsChosen
    <3>2. ~cleared /\ ~slid /\ sel.start[2] = 0 /\ sel'.length = 0 /\ sel.length = 0 /\ ~AreReversed(sel')
      BY <1>2, <2>3, <3>1
    <3>3. \A c \in 0..(Cols - 1), r \in Int : InCells(sel', mode, c, r) => InCells(sel, mode, c, r + 1) /\ r >= 0
      BY <1>1, <1>3, <1>10, <3>2, CutCells
    <3> QED
      BY <1>2, <1>9, <1>10, <3>1, <3>2, <3>3
  <2> QED
    BY <1>2, <2>2, <2>4, <2>5 DEF Held
<1>11. CASE /\ sel.end # None => sel.end[2] >= 1
            /\ sel.start # None => sel.start[2] >= 1
            /\ sel'.start = Lowered(sel.start) /\ sel'.end = Lowered(sel.end)
            /\ sel'.length = sel.length /\ sel'.all = sel.all
  <2>1. slid' = slid
    BY <1>1, <1>2, <1>11
  <2>2. ASSUME ~cleared PROVE Low(sel, count)'
    <3>1. Low(sel, count)
      BY <2>2 DEF Held
    <3> QED
      BY <1>1, <1>2, <1>6, <1>7, <1>8, <1>11, <3>1 DEF Low
  <2>3. ASSUME ~cleared, ~slid PROVE Inside(sel, count)'
    <3>1. Inside(sel, count)
      BY <2>3 DEF Held
    <3>2. ASSUME sel.start # None
          PROVE  (sel.start[2] - 1) * Cols + sel.start[1] + sel.length <= count * Cols
      <4>1. PICK y, x, n : y = sel.start[2] /\ x = sel.start[1] /\ n = sel.length
        OBVIOUS
      <4>2. y \in Int /\ x \in Int /\ n \in Int
        BY <1>4, <1>7, <3>2, <4>1, SelectionAssumption
      <4>3. PICK n1, n2 : n1 = y * Cols /\ n2 = count * Cols
        OBVIOUS
      <4>4. n1 \in Int /\ n2 \in Int /\ (y - 1) * Cols = n1 - Cols
        BY <1>1, <4>2, <4>3, SelectionAssumption
      <4>5. n1 + x + n <= n2
        BY <3>1, <3>2, <4>1, <4>3 DEF Inside
      <4>6. (y - 1) * Cols + x + n <= n2
        BY <4>2, <4>4, <4>5, SelectionAssumption
      <4> QED
        BY <4>1, <4>3, <4>6
    <3>3. sel'.start # None => sel.start # None
      BY <1>8, <1>11
    <3>4. sel'.start # None => sel'.start[2] >= 0 /\ sel'.start[2] * Cols + sel'.start[1] + sel'.length <= count * Cols
      BY <1>7, <1>11, <3>2, <3>3
    <3>5. sel'.end # None => sel'.end[2] >= 0
      BY <1>6, <1>8, <1>11
    <3> QED
      BY <1>2, <3>4, <3>5 DEF Inside
  <2>4. CopiedIsChosen'
    <3>1. SUFFICES ASSUME ~slid', ~cleared', ~sel'.all PROVE Selected(sel, mode)' \subseteq chosen'
      BY DEF CopiedIsChosen
    <3>2. ~cleared /\ ~slid
      BY <1>2, <2>1, <3>1
    <3>3. CASE sel.start = None
      <4>1. sel'.start = None
        BY <1>8, <1>11, <3>3
      <4> QED
        BY <1>3, <3>1, <4>1, SelectedNext
    <3>4. CASE sel.start # None
      <4>1. Low(sel, count) /\ Inside(sel, count)
        BY <3>2 DEF Held
      <4>2. ASSUME NEW c \in 0..(Cols - 1), NEW r \in Int, InCells(sel', mode, c, r)
            PROVE  InCells(sel, mode, c, r + 1) /\ r >= 0
        <5>1. InCells(sel, mode, c, r + 1)
          BY <1>1, <1>3, <1>11, <3>4, <4>2, LoweredCells
        <5>2. PICK q : q = r + 1
          OBVIOUS
        <5>3. InCells(sel, mode, c, q)
          BY <5>1, <5>2
        <5>4. q >= From(sel)[2]
          BY <1>1, <3>4, <4>1, <5>3, CellsInBuffer
        <5>5. From(sel)[2] \in Int /\ From(sel)[2] >= 1
          BY <1>6, <1>7, <1>11, <3>4 DEF From, AreReversed
        <5> QED
          BY <5>1, <5>2, <5>4, <5>5
      <4> QED
        BY <1>2, <1>9, <1>11, <3>1, <3>2, <3>4, <4>2
    <3> QED
      BY <3>3, <3>4
  <2> QED
    BY <1>2, <2>1, <2>2, <2>3, <2>4 DEF Held
<1> QED
  BY <1>1, <1>2, <1>5, <1>10, <1>11, OnTrimParts

LEMMA FeedSelection ==
  ASSUME SelInv, NEW text, Feed(text)
  PROVE  SelInv'
<1>1. SelTypes /\ Dragged /\ Held
  BY DEF SelInv
<1>2. /\ ydisp \in 0..(count - Rows) /\ sel \in Selections /\ mode \in 0..3 /\ timers \in Nat /\ drag \in {-1, 0, 1}
      /\ enabled \in BOOLEAN /\ current \in BOOLEAN /\ listening \in BOOLEAN /\ held \in BOOLEAN
      /\ slid \in BOOLEAN /\ cleared \in BOOLEAN /\ unreleased \in BOOLEAN /\ emptied \in BOOLEAN /\ failed \in BOOLEAN
      /\ first \in 0..(MaxLines - 1) /\ count \in Rows..MaxLines /\ slots = [i \in 0..(MaxLines - 1) |-> slots[i]]
      /\ MaxLines \in Nat /\ Rows \in Nat /\ count \in Nat /\ count > 0
  BY <1>1, SelectionAssumption DEF SelTypes
<1>3. /\ first' = (IF count = MaxLines THEN (first + 1) % MaxLines ELSE first)
      /\ count' = (IF count = MaxLines THEN count ELSE count + 1)
      /\ sel' = (IF count = MaxLines THEN OnTrim(sel) ELSE sel)
      /\ frame' = TRUE
      /\ UNCHANGED <<mode, enabled, drag, timers, current, listening, held, chosen, cleared, unreleased, failed>>
  BY DEF Feed, mouseVars
<1>4. slid' = (slid \/ (count = MaxLines /\ sel.start # None /\ sel.start[2] = 0 /\ sel'.start # None
                        /\ (sel'.length > 0 \/ AreReversed(sel'))))
  BY DEF Feed
<1>5. emptied' = (emptied \/ (count = MaxLines /\ sel.end # None /\ sel'.end = None))
  BY DEF Feed
<1>6. ydisp' = CASE ~userScrolling -> count' - Rows
                 [] userScrolling /\ count = MaxLines -> GreatestOf({ydisp - 1, 0})
                 [] OTHER -> ydisp
  BY DEF Feed
<1>7. sel' \in Selections
  BY <1>2, <1>3, OnTrimParts
<1>8. SelTypes'
  <2>1. slots' = [i \in 0..(MaxLines - 1) |-> slots'[i]]
    <3>1. PICK line : slots' = [slots EXCEPT ![(first + count) % MaxLines] = line]
      BY DEF Feed
    <3> QED
      BY <1>2, <3>1
  <2>2. first' \in 0..(MaxLines - 1)
    <3>1. PICK n : n = first + 1
      OBVIOUS
    <3>2. n \in Nat /\ MaxLines \in Nat \ {0}
      BY <1>2, <3>1
    <3>3. n % MaxLines \in 0..(MaxLines - 1)
      BY <3>2
    <3> QED
      BY <1>2, <1>3, <3>1, <3>3
  <2>3. count' \in Rows..MaxLines /\ count' >= count
    BY <1>2, <1>3
  <2>4. ydisp' \in 0..(count' - Rows)
    <3>1. CASE ~userScrolling
      <4>1. ydisp' = count' - Rows
        BY <1>6, <3>1
      <4> QED
        BY <1>2, <2>3, <4>1
    <3>2. CASE userScrolling /\ count = MaxLines
      <4>1. PICK S : S = {ydisp - 1, 0}
        OBVIOUS
      <4>2. S \in SUBSET ((-1)..ydisp) /\ S # {} /\ -1 \in Int /\ ydisp \in Int /\ 0 \in S
        BY <1>2, <4>1
      <4>3. S \in SUBSET Int /\ \A x \in S : x <= ydisp
        BY <1>2, <4>2
      <4>4. GreatestOf(S) \in S /\ \A y \in S : GreatestOf(S) >= y
        BY <4>2, <4>3, GreatestParts
      <4>5. ydisp' = GreatestOf(S)
        BY <1>6, <3>2, <4>1
      <4>6. ydisp' \in Int /\ ydisp' >= 0 /\ ydisp' <= ydisp
        BY <4>2, <4>3, <4>4, <4>5
      <4> QED
        BY <1>2, <2>3, <4>6
    <3>3. CASE userScrolling /\ ~(count = MaxLines)
      <4>1. ydisp' = ydisp
        BY <1>6, <3>3
      <4> QED
        BY <1>2, <2>3, <4>1
    <3> QED
      BY <3>1, <3>2, <3>3
  <2>5. slid' \in BOOLEAN /\ emptied' \in BOOLEAN
    BY <1>2, <1>4, <1>5
  <2> QED
    BY <1>2, <1>3, <1>7, <2>1, <2>2, <2>3, <2>4, <2>5 DEF SelTypes
<1>9. (sel.start # None /\ ~emptied' => sel'.start # None) /\ (sel.end # None /\ ~emptied' => sel'.end # None)
  <2>1. CASE count = MaxLines
    <3>1. sel' = OnTrim(sel)
      BY <1>3, <2>1
    <3>2. CASE sel.end # None /\ sel.end[2] <= 0 /\ OnTrim(sel) = NoSelection
      <4>1. sel'.end = None
        BY <3>1, <3>2, NothingSelected
      <4> QED
        BY <1>5, <2>1, <3>2, <4>1
    <3>3. CASE /\ sel.start # None
               /\ OnTrim(sel).start = <<sel.start[1], 0>> /\ OnTrim(sel).end = Lowered(sel.end)
      BY <3>1, <3>3 DEF Lowered, None
    <3>4. CASE OnTrim(sel).start = Lowered(sel.start) /\ OnTrim(sel).end = Lowered(sel.end)
      BY <3>1, <3>4 DEF Lowered, None
    <3> QED
      BY <1>2, <3>2, <3>3, <3>4, OnTrimParts
  <2>2. CASE count # MaxLines
    <3>1. sel' = sel
      BY <1>3, <2>2
    <3> QED
      BY <3>1
  <2> QED
    BY <2>1, <2>2
<1>10. Dragged'
  <2>1. emptied => emptied'
    BY <1>5
  <2>2. emptied' \in BOOLEAN
    BY <1>8 DEF SelTypes
  <2> QED
    BY <1>1, <1>3, <1>9, <2>1, <2>2, DraggedSame
<1>11. HighlightIsSelection'
  BY <1>3 DEF HighlightIsSelection
<1>12. CASE count # MaxLines
  <2>1. sel' = sel /\ count' = count + 1 /\ count < MaxLines /\ slid' = slid
    BY <1>2, <1>3, <1>4, <1>12
  <2>2. ASSUME ~cleared PROVE Low(sel, count)'
    <3>1. Low(sel, count) /\ sel.start \in Spots /\ sel.end \in Spots
      BY <1>1, <1>2, <2>2 DEF Held, Selections
    <3>2. /\ sel.start # None => sel.start[2] \in Int /\ sel.start[2] <= count - 1
          /\ sel.end # None => sel.end[2] \in Int /\ sel.end[2] <= count - 1
      BY <3>1, SpotParts DEF Low
    <3>3. /\ sel.start # None => sel.start[2] <= count' - 1
          /\ sel.end # None => sel.end[2] <= count' - 1
      BY <1>2, <2>1, <3>2
    <3> QED
      BY <2>1, <3>3 DEF Low
  <2>3. ASSUME ~cleared, ~slid PROVE Inside(sel, count)'
    <3>1. Inside(sel, count)
      BY <1>1, <2>3 DEF Held
    <3>2. PICK n1, n2, k : n1 = count * Cols /\ n2 = (count + 1) * Cols /\ k = sel.start[2] * Cols + sel.start[1] + sel.length
      OBVIOUS
    <3>3. n2 = n1 + Cols /\ n1 \in Nat
      BY <1>2, <3>2, SelectionAssumption
    <3>4. sel.start # None => k \in Int
      <4>1. sel.start # None => sel.start[1] \in Int /\ sel.start[2] \in Int /\ sel.length \in Int
        BY <1>2, SpotParts, SelectionAssumption DEF Selections
      <4> QED
        BY <3>2, <4>1, SelectionAssumption
    <3>5. sel.start # None => k <= n2
      <4>1. sel.start # None => k <= n1
        BY <3>1, <3>2 DEF Inside
      <4> QED
        BY <3>3, <3>4, <4>1, SelectionAssumption
    <3> QED
      BY <2>1, <3>1, <3>2, <3>5 DEF Inside
  <2>4. ASSUME ~cleared, ~slid, ~sel.all PROVE Selected(sel, mode)' \subseteq Selected(sel, mode)
    <3>1. CASE sel.start = None
      BY <1>7, <2>1, <2>4, <3>1, SelectedNext
    <3>2. CASE sel.start # None
      <4>1. ASSUME NEW e \in Selected(sel, mode)' PROVE e \in Selected(sel, mode)
        <5>1. PICK c \in 0..(Cols - 1), r \in Int : InCells(sel', mode', c, r) /\ Line(r)' # None /\ e = <<Line(r)'.id, c>>
          BY <1>7, <2>1, <2>4, <3>2, <4>1, SelectedNext
        <5>2. InCells(sel, mode, c, r)
          BY <1>3, <2>1, <5>1
        <5>3. Low(sel, count) /\ Inside(sel, count)
          BY <1>1, <2>4 DEF Held
        <5>4. r \in 0..(count - 1)
          BY <1>2, <3>2, <5>2, <5>3, CellsInBuffer
        <5>5. Line(r)' = Line(r)
          BY <1>1, <2>1, <5>4, LinesStay
        <5> QED
          BY <1>2, <2>4, <3>2, <5>1, <5>2, <5>5, SelectedCells
      <4> QED
        BY <4>1
    <3> QED
      BY <3>1, <3>2
  <2>5. CopiedIsChosen'
    <3>1. SUFFICES ASSUME ~slid', ~cleared', ~sel'.all PROVE Selected(sel, mode)' \subseteq chosen'
      BY DEF CopiedIsChosen
    <3>2. ~slid /\ ~cleared /\ ~sel.all /\ chosen' = chosen
      BY <1>3, <2>1, <3>1
    <3>3. Selected(sel, mode) \subseteq chosen
      BY <1>1, <3>2 DEF Held, CopiedIsChosen
    <3> QED
      BY <2>4, <3>2, <3>3
  <2>6. Held'
    BY <1>3, <2>1, <2>2, <2>3, <2>5 DEF Held
  <2> QED
    BY <1>8, <1>10, <1>11, <2>6 DEF SelInv
<1>13. CASE count = MaxLines
  <2>1. Held'
    BY <1>1, <1>7, <1>13, TrimmedHeld
  <2> QED
    BY <1>8, <1>10, <1>11, <2>1 DEF SelInv
<1> QED
  BY <1>12, <1>13

(* The mouse, the page and the program.                                    *)
LEMMA SelectionNext == SelInv /\ Next => SelInv'
<1> SUFFICES ASSUME SelInv, Next PROVE SelInv'
  OBVIOUS
<1>1. ASSUME NEW p \in Places, NEW shift \in BOOLEAN, NEW alt \in BOOLEAN, NEW n \in 1..3, MouseDown(p, shift, alt, n)
      PROVE  SelInv'
  BY <1>1, DownSelection
<1>2. ASSUME NEW p \in Places, NEW amount \in {-1, 0, 1}, MouseMove(p, amount) PROVE SelInv'
  BY <1>2, MoveSelection
<1>3. CASE DragScroll \/ MouseUp
  BY <1>3, DragScrollSelection, UpSelection
<1>4. CASE Type \/ Disable
  BY <1>4, TypeSelection
<1>5. CASE Enable \/ (\E n \in {-1, 1} : Scroll(n)) \/ Refresh
  BY <1>5, OtherSelection
<1>6. ASSUME NEW p \in Places, RightClick(p) PROVE SelInv'
  BY <1>6, RightSelection
<1>7. CASE SelectAll
  BY <1>7, AllSelection
<1>8. ASSUME NEW n1 \in 0..(count - 1), NEW n2 \in 0..(count - 1), SelectLines(n1, n2) PROVE SelInv'
  BY <1>8, LinesSelection
<1>9. ASSUME NEW p \in Places, NEW n \in 1..(Cols + 1), SetSelection(p, n) PROVE SelInv'
  BY <1>9, SetSelectionSelection
<1>10. ASSUME NEW t \in Texts, Feed(t) PROVE SelInv'
  BY <1>10, FeedSelection
<1>11. CASE Clear
  BY <1>11, ClearSelectionInv
<1>12. CASE Activate
  BY <1>12, ActivateSelection
<1> QED
  BY <1>1, <1>2, <1>3, <1>4, <1>5, <1>6, <1>7, <1>8, <1>9, <1>10, <1>11, <1>12 DEF Next

-----------------------------------------------------------------------------
(* The list of the lines.                                                  *)

(* Going round a circle of n places.                                       *)
LEMMA RoundOnce ==
  ASSUME NEW n \in Nat \ {0}, NEW q \in Nat, NEW r \in 0..(n - 1), NEW x \in Nat, x = q * n + r
  PROVE  x % n = r
<1>1. x % n \in 0..(n - 1) /\ x = ((x \div n) * n) + (x % n) /\ x \div n \in Nat
  OBVIOUS
<1>2. PICK p, s : p = x \div n /\ s = x % n
  OBVIOUS
<1>3. p \in Nat /\ s \in 0..(n - 1) /\ x = p * n + s
  BY <1>1, <1>2
<1>4. ASSUME NEW l \in Nat, NEW h \in Nat, l < h, NEW u \in 0..(n - 1), NEW v \in 0..(n - 1), l * n + u = h * n + v
      PROVE  FALSE
  <2>1. PICK d \in Nat : h = l + 1 + d
    <3>1. h - l - 1 \in Nat /\ h = l + 1 + (h - l - 1)
      BY <1>4
    <3> QED
      BY <3>1
  <2>2. d * n \in Nat /\ l * n \in Nat /\ h * n = l * n + n + d * n
    BY <2>1
  <2> QED
    BY <1>4, <2>2
<1>5. p = q
  <2>1. ~(p < q)
    BY <1>3, <1>4
  <2>2. ~(q < p)
    BY <1>3, <1>4
  <2> QED
    BY <1>3, <2>1, <2>2
<1>6. q * n \in Nat
  OBVIOUS
<1>7. s = r
  BY <1>3, <1>5, <1>6
<1> QED
  BY <1>2, <1>7

LEMMA Rounds ==
  ASSUME NEW n \in Nat \ {0}, NEW x \in Nat
  PROVE  /\ x % n \in 0..(n - 1)
         /\ \E q \in Nat : x = q * n + (x % n)
<1>1. x % n \in 0..(n - 1) /\ x = ((x \div n) * n) + (x % n) /\ x \div n \in Nat
  OBVIOUS
<1> QED
  BY <1>1

LEMMA RoundAgain ==
  ASSUME NEW n \in Nat \ {0}, NEW x \in Nat, NEW k \in Nat
  PROVE  ((x % n) + k) % n = (x + k) % n
<1>1. PICK r : r = x % n
  OBVIOUS
<1>2. r \in 0..(n - 1) /\ \E q \in Nat : x = q * n + r
  BY <1>1, Rounds
<1>3. PICK q \in Nat : x = q * n + r
  BY <1>2
<1>4. PICK y \in Nat : y = r + k
  BY <1>2
<1>5. PICK s : s = y % n
  OBVIOUS
<1>6. s \in 0..(n - 1) /\ \E p \in Nat : y = p * n + s
  BY <1>5, Rounds
<1>7. PICK p \in Nat : y = p * n + s
  BY <1>6
<1>8. PICK z \in Nat : z = x + k
  OBVIOUS
<1>9. q * n \in Nat /\ p * n \in Nat /\ (q + p) * n = q * n + p * n /\ q + p \in Nat
  OBVIOUS
<1>10. z = (q + p) * n + s
  BY <1>2, <1>3, <1>4, <1>6, <1>7, <1>8, <1>9
<1>11. z % n = s
  BY <1>6, <1>9, <1>10, RoundOnce
<1> QED
  BY <1>1, <1>4, <1>5, <1>8, <1>11

LEMMA RoundMore ==
  ASSUME NEW n \in Nat \ {0}, NEW x \in Nat
  PROVE  (x + n) % n = x % n
<1>1. PICK r : r = x % n
  OBVIOUS
<1>2. r \in 0..(n - 1) /\ \E q \in Nat : x = q * n + r
  BY <1>1, Rounds
<1>3. PICK q \in Nat : x = q * n + r
  BY <1>2
<1>4. PICK z \in Nat : z = x + n
  OBVIOUS
<1>5. q * n \in Nat /\ (q + 1) * n = q * n + n /\ q + 1 \in Nat
  OBVIOUS
<1>6. z = (q + 1) * n + r
  BY <1>2, <1>3, <1>4, <1>5
<1>7. z % n = r
  BY <1>2, <1>5, <1>6, RoundOnce
<1> QED
  BY <1>1, <1>4, <1>7

LEMMA RoundApart ==
  ASSUME NEW n \in Nat \ {0}, NEW x \in Nat, NEW y \in Nat, x < y, y < x + n
  PROVE  x % n # y % n
<1> SUFFICES ASSUME x % n = y % n PROVE FALSE
  OBVIOUS
<1>1. PICK r : r = x % n
  OBVIOUS
<1>2. r \in 0..(n - 1) /\ \E q \in Nat : x = q * n + r
  BY <1>1, Rounds
<1>3. PICK q \in Nat : x = q * n + r
  BY <1>2
<1>4. \E p \in Nat : y = p * n + r
  BY <1>1, Rounds
<1>5. PICK p \in Nat : y = p * n + r
  BY <1>4
<1>6. q * n \in Nat /\ p * n \in Nat
  OBVIOUS
<1>7. CASE p <= q
  <2>1. PICK d \in Nat : q = p + d
    <3>1. q - p \in Nat /\ q = p + (q - p)
      BY <1>7
    <3> QED
      BY <3>1
  <2>2. d * n \in Nat /\ q * n = p * n + d * n
    BY <2>1
  <2> QED
    BY <1>2, <1>3, <1>5, <1>6, <2>2
<1>8. CASE q < p
  <2>1. PICK d \in Nat : p = q + 1 + d
    <3>1. p - q - 1 \in Nat /\ p = q + 1 + (p - q - 1)
      BY <1>8
    <3> QED
      BY <3>1
  <2>2. d * n \in Nat /\ p * n = q * n + n + d * n
    BY <2>1
  <2> QED
    BY <1>2, <1>3, <1>5, <1>6, <2>2
<1> QED
  BY <1>7, <1>8

(* The array is as long as maxLength says, and the list fits into it.      *)
Things == Items \cup {List!Hole}
ListTypes ==
    /\ maxLength \in Nat \ {0} /\ startIndex \in Nat /\ length \in 0..maxLength
    /\ array \in [0..(maxLength - 1) -> Things]
LinesNow == [i \in 1..length |-> List!Get(i - 1)]

LEMMA CellParts ==
  ASSUME ListTypes
  PROVE  /\ \A q \in Nat : List!CyclicIndex(q) \in 0..(maxLength - 1)
         /\ \A q \in Nat : List!CyclicIndex(q + maxLength) = List!CyclicIndex(q)
         /\ \A p, q \in Nat : p < q /\ q < p + maxLength => List!CyclicIndex(p) # List!CyclicIndex(q)
<1>1. maxLength \in Nat \ {0} /\ startIndex \in Nat
  BY DEF ListTypes
<1>2. ASSUME NEW q \in Nat PROVE List!CyclicIndex(q) \in 0..(maxLength - 1) /\ List!CyclicIndex(q + maxLength) = List!CyclicIndex(q)
  <2>1. PICK x : x = startIndex + q
    OBVIOUS
  <2>2. x \in Nat /\ startIndex + (q + maxLength) = x + maxLength
    BY <1>1, <2>1
  <2>3. x % maxLength \in 0..(maxLength - 1) /\ (x + maxLength) % maxLength = x % maxLength
    BY <1>1, <2>2, Rounds, RoundMore
  <2> QED
    BY <2>1, <2>2, <2>3 DEF List!CyclicIndex
<1>3. ASSUME NEW p \in Nat, NEW q \in Nat, p < q, q < p + maxLength PROVE List!CyclicIndex(p) # List!CyclicIndex(q)
  <2>1. PICK x, y : x = startIndex + p /\ y = startIndex + q
    OBVIOUS
  <2>2. x \in Nat /\ y \in Nat /\ x < y /\ y < x + maxLength
    BY <1>1, <1>3, <2>1
  <2>3. x % maxLength # y % maxLength
    BY <1>1, <2>2, RoundApart
  <2> QED
    BY <2>1, <2>3 DEF List!CyclicIndex
<1> QED
  BY <1>2, <1>3

LEMMA LinesParts ==
  ASSUME ListTypes
  PROVE  /\ LinesNow \in Seq(Things) /\ Len(LinesNow) = length
         /\ \A i \in 1..length : LinesNow[i] = List!Get(i - 1)
         /\ \A q \in Nat : List!Get(q) \in Things
<1>1. \A q \in Nat : List!Get(q) \in Things
  BY CellParts DEF ListTypes, List!Get
<1>2. length \in Nat
  BY DEF ListTypes
<1>3. \A i \in 1..length : List!Get(i - 1) \in Things
  BY <1>1, <1>2
<1>4. LinesNow \in [1..length -> Things]
  BY <1>3 DEF LinesNow
<1>5. LinesNow \in Seq(Things)
  BY <1>2, <1>4, SeqDef
<1>6. Len(LinesNow) = length
  <2>1. DOMAIN LinesNow = 1..length
    BY <1>4
  <2>2. DOMAIN LinesNow = 1..Len(LinesNow) /\ Len(LinesNow) \in Nat
    BY <1>5, LenProperties
  <2> QED
    BY <1>2, <2>1, <2>2
<1> QED
  BY <1>1, <1>5, <1>6 DEF LinesNow

(* What a step of the sequence asks of the list.                           *)
LEMMA KeptParts ==
  ASSUME ListTypes, NEW s \in Seq(Things)
  PROVE  /\ List!Sequence!Excess(s) = IF Len(s) > maxLength THEN Len(s) - maxLength ELSE 0
         /\ List!Sequence!Kept(s) \in Seq(Things)
         /\ Len(List!Sequence!Kept(s)) = Len(s) - List!Sequence!Excess(s)
         /\ \A i \in 1..(Len(s) - List!Sequence!Excess(s)) : List!Sequence!Kept(s)[i] = s[i + List!Sequence!Excess(s)]
<1>1. List!Sequence!Excess(s) = IF Len(s) > maxLength THEN Len(s) - maxLength ELSE 0
  BY DEF List!Sequence!Excess
<1>2. maxLength \in Nat \ {0} /\ Len(s) \in Nat /\ \A i \in 1..Len(s) : s[i] \in Things
  BY LenProperties, ElementOfSeq DEF ListTypes
<1>3. CASE Len(s) > maxLength
  <2>1. PICK x : x = List!Sequence!Excess(s)
    OBVIOUS
  <2>2. x = Len(s) - maxLength /\ x \in Nat
    BY <1>1, <1>2, <1>3, <2>1
  <2>3. List!Sequence!Kept(s) = SubSeq(s, x + 1, Len(s))
    BY <1>3, <2>2 DEF List!Sequence!Kept
  <2>4. x + 1 \in Int /\ Len(s) \in Int /\ \A i \in (x + 1)..Len(s) : s[i] \in Things
    BY <1>2, <2>2
  <2>5. /\ SubSeq(s, x + 1, Len(s)) \in Seq(Things)
        /\ Len(SubSeq(s, x + 1, Len(s))) = IF x + 1 <= Len(s) THEN Len(s) - (x + 1) + 1 ELSE 0
        /\ \A i \in 1..(Len(s) - (x + 1) + 1) : SubSeq(s, x + 1, Len(s))[i] = s[(x + 1) + i - 1]
    BY <2>4, SubSeqProperties
  <2>6. x + 1 <= Len(s) /\ Len(s) - (x + 1) + 1 = Len(s) - x
    BY <1>2, <1>3, <2>2
  <2>7. \A i \in 1..(Len(s) - x) : SubSeq(s, x + 1, Len(s))[i] = s[i + x]
    <3>1. ASSUME NEW i \in 1..(Len(s) - x) PROVE (x + 1) + i - 1 = i + x
      BY <1>2, <2>2
    <3> QED
      BY <2>5, <2>6, <3>1
  <2> QED
    BY <1>1, <2>1, <2>3, <2>5, <2>6, <2>7
<1>4. CASE ~(Len(s) > maxLength)
  <2>1. List!Sequence!Kept(s) = s /\ List!Sequence!Excess(s) = 0
    BY <1>1, <1>4 DEF List!Sequence!Kept
  <2>2. \A i \in 1..Len(s) : i + 0 = i
    BY <1>2
  <2> QED
    BY <1>1, <1>2, <2>1, <2>2
<1> QED
  BY <1>3, <1>4

LinesFit ==
    /\ LinesNow \in Seq(Things) /\ Len(LinesNow) = length
    /\ \A i \in 1..length : LinesNow[i] = List!Get(i - 1)
LEMMA LinesFitNext == ListTypes' => LinesFit'
<1>1. ListTypes => LinesFit
  BY LinesParts DEF LinesFit
<1> QED
  BY <1>1, PTL

(* A sequence of at least as many lines, of which the list has the last.   *)
LEMMA BecomesAs ==
  ASSUME ListTypes, ListTypes', NEW s \in Seq(Things), NEW name, NEW returned,
         maxLength' = maxLength,
         length' = Len(s) - List!Sequence!Excess(s),
         \A i \in 1..length' : List!Get(i - 1)' = s[i + List!Sequence!Excess(s)],
         done' = List!Result(name, returned, List!Sequence!Excess(s))
  PROVE  List!Sequence!Becomes(name, returned, s)
<1>1. LinesNow' \in Seq(Things) /\ Len(LinesNow') = length' /\ \A i \in 1..length' : LinesNow'[i] = List!Get(i - 1)'
  BY LinesFitNext DEF LinesFit, Things, List!Hole
<1>2. /\ List!Sequence!Kept(s) \in Seq(Things)
      /\ Len(List!Sequence!Kept(s)) = Len(s) - List!Sequence!Excess(s)
      /\ \A i \in 1..(Len(s) - List!Sequence!Excess(s)) : List!Sequence!Kept(s)[i] = s[i + List!Sequence!Excess(s)]
  BY KeptParts
<1>3. LinesNow' = List!Sequence!Kept(s)
  BY <1>1, <1>2, SeqEqual
<1> QED
  BY <1>3 DEF List!Sequence!Becomes, LinesNow, List!Result, List!Sequence!Result

(* The list starts k places later.                                         *)
LEMMA StartsLater ==
  ASSUME ListTypes, NEW k \in Nat, maxLength' = maxLength,
         startIndex' = startIndex + k \/ startIndex' = (startIndex + k) % maxLength
  PROVE  /\ startIndex' \in Nat
         /\ \A q \in Nat : List!Get(q)' = array'[List!CyclicIndex(q + k)]
<1>1. maxLength \in Nat \ {0} /\ startIndex \in Nat
  BY DEF ListTypes
<1>2. PICK x : x = startIndex + k
  OBVIOUS
<1>3. x \in Nat /\ x % maxLength \in Nat
  BY <1>1, <1>2, Rounds
<1>4. startIndex' = x \/ startIndex' = x % maxLength
  BY <1>2
<1>5. ASSUME NEW q \in Nat PROVE List!Get(q)' = array'[List!CyclicIndex(q + k)]
  <2>1. startIndex + (q + k) = x + q
    BY <1>1, <1>2
  <2>2. ((x % maxLength) + q) % maxLength = (x + q) % maxLength
    BY <1>1, <1>3, RoundAgain
  <2>3. (startIndex' + q) % maxLength' = (startIndex + (q + k)) % maxLength
    BY <1>4, <2>1, <2>2
  <2> QED
    BY <2>3 DEF List!Get, List!CyclicIndex
<1> QED
  BY <1>3, <1>4, <1>5

LEMMA StaysWhere ==
  ASSUME ListTypes, UNCHANGED <<maxLength, startIndex>>
  PROVE  \A q \in Nat : List!Get(q)' = array'[List!CyclicIndex(q)]
BY DEF List!Get, List!CyclicIndex

LEMMA PushAppends ==
  ASSUME ListTypes, NEW item \in Items, List!push(item)
  PROVE  ListTypes' /\ List!Sequence!Push(item)
<1> DEFINE s == Append(LinesNow, item)
<1>1. /\ array' = [array EXCEPT ![List!CyclicIndex(length)] = item]
      /\ startIndex' = IF length = maxLength THEN (startIndex + 1) % maxLength ELSE startIndex
      /\ length' = IF length = maxLength THEN length ELSE length + 1
      /\ done' = List!Result("push", <<>>, IF length = maxLength THEN 1 ELSE 0)
      /\ maxLength' = maxLength
  BY DEF List!push
<1>2. /\ maxLength \in Nat \ {0} /\ startIndex \in Nat /\ length \in 0..maxLength
      /\ array \in [0..(maxLength - 1) -> Things] /\ item \in Things
  BY DEF ListTypes, Things
<1>3. /\ \A q \in Nat : List!CyclicIndex(q) \in 0..(maxLength - 1)
      /\ \A p, q \in Nat : p < q /\ q < p + maxLength => List!CyclicIndex(p) # List!CyclicIndex(q)
  BY CellParts
<1>4. array' \in [0..(maxLength' - 1) -> Things]
  BY <1>1, <1>2, <1>3
<1>5. \A q \in Nat : array'[List!CyclicIndex(q)] = IF List!CyclicIndex(q) = List!CyclicIndex(length) THEN item
                                                   ELSE List!Get(q)
  BY <1>1, <1>2, <1>3 DEF List!Get
<1>6. ListTypes'
  <2>1. startIndex + 1 \in Nat
    BY <1>2
  <2>2. (startIndex + 1) % maxLength \in Nat
    BY <1>2, <2>1, Rounds
  <2>3. startIndex' \in Nat
    BY <1>1, <1>2, <2>2
  <2>4. length' \in 0..maxLength'
    BY <1>1, <1>2
  <2> QED
    BY <1>1, <1>2, <1>4, <2>3, <2>4 DEF ListTypes, Things, List!Hole
<1>7. LinesNow \in Seq(Things) /\ Len(LinesNow) = length /\ \A i \in 1..length : LinesNow[i] = List!Get(i - 1)
  BY LinesParts
<1>8. /\ s \in Seq(Things) /\ Len(s) = length + 1 /\ s[length + 1] = item
      /\ \A i \in 1..length : s[i] = List!Get(i - 1)
  BY <1>2, <1>7, AppendProperties
<1> HIDE DEF s
<1>9. List!Sequence!Excess(s) = IF length = maxLength THEN 1 ELSE 0
  BY <1>2, <1>8 DEF List!Sequence!Excess
<1>10. length' = Len(s) - List!Sequence!Excess(s)
  BY <1>1, <1>2, <1>8, <1>9
<1>11. \A i \in 1..length' : List!Get(i - 1)' = s[i + List!Sequence!Excess(s)]
  <2>1. CASE length = maxLength
    <3>1. \A q \in Nat : List!Get(q)' = array'[List!CyclicIndex(q + 1)]
      BY <1>1, <2>1, StartsLater
    <3>2. ASSUME NEW i \in 1..length' PROVE List!Get(i - 1)' = s[i + 1]
      <4>1. i \in Nat /\ i - 1 \in Nat /\ i \in 1..length /\ (i - 1) + 1 = i
        BY <1>1, <1>2, <2>1
      <4>2. List!Get(i - 1)' = array'[List!CyclicIndex(i)]
        BY <3>1, <4>1
      <4>3. CASE i = length
        BY <1>2, <1>5, <1>8, <4>1, <4>2, <4>3
      <4>4. CASE i # length
        <5>1. i < length /\ length < i + maxLength /\ i + 1 \in 1..length /\ (i + 1) - 1 = i
          BY <1>2, <2>1, <4>1, <4>4
        <5>2. List!CyclicIndex(i) # List!CyclicIndex(length)
          BY <1>2, <1>3, <4>1, <5>1
        <5>3. s[i + 1] = List!Get(i)
          BY <1>8, <5>1
        <5> QED
          BY <1>5, <4>1, <4>2, <5>2, <5>3
      <4> QED
        BY <4>3, <4>4
    <3> QED
      BY <1>9, <2>1, <3>2
  <2>2. CASE length # maxLength
    <3>1. \A q \in Nat : List!Get(q)' = array'[List!CyclicIndex(q)]
      BY <1>1, <2>2, StaysWhere
    <3>2. ASSUME NEW i \in 1..length' PROVE List!Get(i - 1)' = s[i]
      <4>1. i \in Nat /\ i - 1 \in Nat /\ i \in 1..(length + 1) /\ length \in Nat
        BY <1>1, <1>2, <2>2
      <4>2. List!Get(i - 1)' = array'[List!CyclicIndex(i - 1)]
        BY <3>1, <4>1
      <4>3. CASE i = length + 1
        <5>1. i - 1 = length
          BY <4>1, <4>3
        <5> QED
          BY <1>5, <1>8, <4>1, <4>2, <4>3, <5>1
      <4>4. CASE i # length + 1
        <5>1. i - 1 < length /\ length < (i - 1) + maxLength /\ i \in 1..length
          BY <1>2, <2>2, <4>1, <4>4
        <5>2. List!CyclicIndex(i - 1) # List!CyclicIndex(length)
          BY <1>3, <4>1, <5>1
        <5> QED
          BY <1>5, <1>8, <4>1, <4>2, <5>1, <5>2
      <4> QED
        BY <4>3, <4>4
    <3>3. \A i \in 1..length' : i + 0 = i
      BY <1>6 DEF ListTypes
    <3> QED
      BY <1>9, <2>2, <3>2, <3>3
  <2> QED
    BY <2>1, <2>2
<1>12. List!Sequence!Becomes("push", <<>>, s)
  <2>1. done' = List!Result("push", <<>>, List!Sequence!Excess(s))
    BY <1>1, <1>9
  <2> QED
    BY <1>1, <1>6, <1>8, <1>10, <1>11, <2>1, BecomesAs
<1> QED
  BY <1>6, <1>12 DEF s, List!Sequence!Push, LinesNow

LEMMA SetSets ==
  ASSUME ListTypes, NEW i \in 0..(length - 1), NEW item \in Items, List!set(i, item)
  PROVE  ListTypes' /\ List!Sequence!Set(i, item)
<1> DEFINE s == [LinesNow EXCEPT ![i + 1] = item]
<1>1. /\ array' = [array EXCEPT ![List!CyclicIndex(i)] = item]
      /\ done' = List!Result("set", <<>>, 0)
      /\ UNCHANGED <<startIndex, length, maxLength>>
  BY DEF List!set
<1>2. /\ maxLength \in Nat \ {0} /\ startIndex \in Nat /\ length \in 0..maxLength
      /\ array \in [0..(maxLength - 1) -> Things] /\ item \in Things
  BY DEF ListTypes, Things
<1>3. /\ \A q \in Nat : List!CyclicIndex(q) \in 0..(maxLength - 1)
      /\ \A p, q \in Nat : p < q /\ q < p + maxLength => List!CyclicIndex(p) # List!CyclicIndex(q)
  BY CellParts
<1>4. i \in Nat /\ i < length /\ i + 1 \in 1..length
  BY <1>2
<1>5. \A q \in Nat : List!Get(q)' = IF List!CyclicIndex(q) = List!CyclicIndex(i) THEN item ELSE List!Get(q)
  <2>1. \A q \in Nat : List!Get(q)' = array'[List!CyclicIndex(q)]
    BY <1>1, StaysWhere
  <2> QED
    BY <1>1, <1>2, <1>3, <1>4, <2>1 DEF List!Get
<1>6. ListTypes'
  <2>1. array' \in [0..(maxLength' - 1) -> Things]
    BY <1>1, <1>2, <1>3
  <2> QED
    BY <1>1, <1>2, <2>1 DEF ListTypes, Things, List!Hole
<1>7. LinesNow \in Seq(Things) /\ Len(LinesNow) = length /\ \A j \in 1..length : LinesNow[j] = List!Get(j - 1)
  BY LinesParts
<1>8. /\ s \in Seq(Things) /\ Len(s) = length
      /\ \A j \in 1..length : s[j] = IF j = i + 1 THEN item ELSE List!Get(j - 1)
  BY <1>2, <1>4, <1>7, ExceptSeq
<1> HIDE DEF s
<1>9. List!Sequence!Excess(s) = 0
  BY <1>2, <1>8 DEF List!Sequence!Excess
<1>10. \A j \in 1..length' : List!Get(j - 1)' = s[j + List!Sequence!Excess(s)]
  <2>1. ASSUME NEW j \in 1..length PROVE List!Get(j - 1)' = s[j]
    <3>1. j - 1 \in Nat /\ (j - 1) + 1 = j /\ j - 1 < length
      BY <1>2
    <3>2. CASE j = i + 1
      BY <1>4, <1>5, <1>8, <3>1, <3>2
    <3>3. CASE j # i + 1
      <4>1. List!CyclicIndex(j - 1) # List!CyclicIndex(i)
        <5>1. j - 1 < i \/ i < j - 1
          BY <1>4, <3>1, <3>3
        <5>2. i < (j - 1) + maxLength /\ j - 1 < i + maxLength
          BY <1>2, <1>4, <3>1
        <5> QED
          BY <1>3, <1>4, <3>1, <5>1, <5>2
      <4> QED
        BY <1>5, <1>8, <3>1, <3>3, <4>1
    <3> QED
      BY <3>2, <3>3
  <2>2. \A j \in 1..length : j + 0 = j
    BY <1>2
  <2> QED
    BY <1>1, <1>9, <2>1, <2>2
<1>11. List!Sequence!Becomes("set", <<>>, s)
  <2>1. length' = Len(s) - List!Sequence!Excess(s)
    BY <1>1, <1>2, <1>8, <1>9
  <2>2. done' = List!Result("set", <<>>, List!Sequence!Excess(s))
    BY <1>1, <1>9
  <2> QED
    BY <1>1, <1>6, <1>8, <1>10, <2>1, <2>2, BecomesAs
<1>12. i < Len(LinesNow)
  BY <1>4, <1>7
<1> QED
  BY <1>6, <1>11, <1>12 DEF s, List!Sequence!Set, LinesNow

(* The line that is recycled was the first, and is the last.               *)
LEMMA RecycleTurns ==
  ASSUME ListTypes, List!recycle
  PROVE  ListTypes' /\ List!Sequence!Recycle
<1> DEFINE s == Append(LinesNow, Head(LinesNow))
<1>1. /\ length = maxLength /\ startIndex' = (startIndex + 1) % maxLength
      /\ done' = List!Result("recycle", <<array[(startIndex' + length - 1) % maxLength]>>, 1)
      /\ UNCHANGED <<array, length, maxLength>>
  BY DEF List!recycle
<1>2. /\ maxLength \in Nat \ {0} /\ startIndex \in Nat /\ length \in 1..maxLength
      /\ array \in [0..(maxLength - 1) -> Things]
  BY <1>1 DEF ListTypes
<1>3. List!CyclicIndex(0 + maxLength) = List!CyclicIndex(0)
  BY CellParts
<1>4. startIndex' \in Nat /\ \A q \in Nat : List!Get(q)' = array[List!CyclicIndex(q + 1)]
  BY <1>1, StartsLater
<1>5. ListTypes'
  BY <1>1, <1>2, <1>4 DEF ListTypes, Things, List!Hole
<1>6. LinesNow \in Seq(Things) /\ Len(LinesNow) = length /\ \A j \in 1..length : LinesNow[j] = List!Get(j - 1)
  BY LinesParts
<1>7. LinesNow # <<>> /\ LinesNow[1] = List!Get(0) /\ Head(LinesNow) = LinesNow[1] /\ Head(LinesNow) \in Things
  <2>1. LinesNow # <<>>
    BY <1>2, <1>6
  <2>2. 1 \in 1..length /\ 1 - 1 = 0
    BY <1>2
  <2> QED
    BY <1>6, <2>1, <2>2, HeadTailProperties
<1>8. /\ s \in Seq(Things) /\ Len(s) = length + 1 /\ s[length + 1] = List!Get(0)
      /\ \A j \in 1..length : s[j] = List!Get(j - 1)
  BY <1>2, <1>6, <1>7, AppendProperties
<1> HIDE DEF s
<1>9. List!Sequence!Excess(s) = 1
  BY <1>1, <1>2, <1>8 DEF List!Sequence!Excess
<1>10. \A j \in 1..length' : List!Get(j - 1)' = s[j + List!Sequence!Excess(s)]
  <2>1. ASSUME NEW j \in 1..length PROVE List!Get(j - 1)' = s[j + 1]
    <3>1. j \in Nat /\ j - 1 \in Nat /\ (j - 1) + 1 = j /\ (j + 1) - 1 = j
      BY <1>2
    <3>2. List!Get(j - 1)' = List!Get(j)
      BY <1>4, <3>1 DEF List!Get
    <3>3. CASE j = length
      <4>1. List!Get(j) = List!Get(0)
        <5>1. j = 0 + maxLength
          BY <1>1, <1>2, <3>3
        <5> QED
          BY <1>3, <5>1 DEF List!Get
      <4> QED
        BY <1>8, <3>2, <3>3, <4>1
    <3>4. CASE j # length
      <4>1. j + 1 \in 1..length
        BY <1>2, <3>4
      <4> QED
        BY <1>8, <3>1, <3>2, <4>1
    <3> QED
      BY <3>3, <3>4
  <2> QED
    BY <1>1, <1>9, <2>1
<1>11. array[(startIndex' + length - 1) % maxLength] = List!Get(0)
  <2>1. length - 1 \in Nat /\ (length - 1) + 1 = 0 + maxLength /\ startIndex' + (length - 1) = startIndex' + length - 1
    BY <1>1, <1>2, <1>4
  <2>2. List!Get(length - 1)' = array[List!CyclicIndex((length - 1) + 1)]
    <3>1. PICK q \in Nat : q = length - 1
      BY <2>1
    <3>2. startIndex + 1 \in Nat
      BY <1>2
    <3>3. PICK x \in Nat : x = startIndex + 1
      BY <3>2
    <3>4. ((x % maxLength) + q) % maxLength = (x + q) % maxLength
      BY <1>2, RoundAgain
    <3>5. x + q = startIndex + (q + 1)
      BY <1>2, <3>3
    <3>6. (startIndex' + q) % maxLength = (startIndex + (q + 1)) % maxLength
      BY <1>1, <3>3, <3>4, <3>5
    <3> QED
      BY <1>1, <3>1, <3>6 DEF List!Get, List!CyclicIndex
  <2>3. List!Get(length - 1)' = array[(startIndex' + (length - 1)) % maxLength]
    BY <1>1 DEF List!Get, List!CyclicIndex
  <2> QED
    BY <1>3, <2>1, <2>2, <2>3 DEF List!Get
<1>12. List!Sequence!Becomes("recycle", <<Head(LinesNow)>>, s)
  <2>1. length' = Len(s) - List!Sequence!Excess(s)
    BY <1>1, <1>2, <1>8, <1>9
  <2>2. done' = List!Result("recycle", <<Head(LinesNow)>>, List!Sequence!Excess(s))
    BY <1>1, <1>7, <1>9, <1>11
  <2> QED
    BY <1>1, <1>5, <1>8, <1>10, <2>1, <2>2, BecomesAs
<1>13. Len(LinesNow) = maxLength
  BY <1>1, <1>6
<1> QED
  BY <1>5, <1>12, <1>13 DEF s, List!Sequence!Recycle, LinesNow

(* The ends of a sequence.                                                 *)
LEMMA FirstParts ==
  ASSUME NEW s \in Seq(Things), NEW n \in Nat, n <= Len(s)
  PROVE  /\ List!Sequence!First(s, n) \in Seq(Things) /\ Len(List!Sequence!First(s, n)) = n
         /\ \A i \in 1..n : List!Sequence!First(s, n)[i] = s[i]
<1>1. Len(s) \in Nat /\ \A i \in 1..Len(s) : s[i] \in Things
  BY LenProperties, ElementOfSeq
<1>2. \A i \in 1..n : s[i] \in Things
  BY <1>1
<1>3. /\ SubSeq(s, 1, n) \in Seq(Things)
      /\ Len(SubSeq(s, 1, n)) = IF 1 <= n THEN n - 1 + 1 ELSE 0
      /\ \A i \in 1..(n - 1 + 1) : SubSeq(s, 1, n)[i] = s[1 + i - 1]
  BY <1>2, SubSeqProperties
<1>4. n - 1 + 1 = n /\ \A i \in 1..n : 1 + i - 1 = i
  OBVIOUS
<1>5. Len(SubSeq(s, 1, n)) = n
  BY <1>3
<1> QED
  BY <1>3, <1>4, <1>5 DEF List!Sequence!First

LEMMA FromParts ==
  ASSUME NEW s \in Seq(Things), NEW n \in Nat
  PROVE  /\ List!Sequence!From(s, n) \in Seq(Things)
         /\ Len(List!Sequence!From(s, n)) = IF n <= Len(s) THEN Len(s) - n ELSE 0
         /\ \A i \in 1..(Len(s) - n) : List!Sequence!From(s, n)[i] = s[n + i]
<1>1. Len(s) \in Nat /\ \A i \in 1..Len(s) : s[i] \in Things
  BY LenProperties, ElementOfSeq
<1>2. n + 1 \in Int /\ Len(s) \in Int /\ \A i \in (n + 1)..Len(s) : s[i] \in Things
  BY <1>1
<1>3. /\ SubSeq(s, n + 1, Len(s)) \in Seq(Things)
      /\ Len(SubSeq(s, n + 1, Len(s))) = IF n + 1 <= Len(s) THEN Len(s) - (n + 1) + 1 ELSE 0
      /\ \A i \in 1..(Len(s) - (n + 1) + 1) : SubSeq(s, n + 1, Len(s))[i] = s[(n + 1) + i - 1]
  BY <1>2, SubSeqProperties
<1>4. Len(s) - (n + 1) + 1 = Len(s) - n /\ \A i \in 1..(Len(s) - n) : (n + 1) + i - 1 = n + i
  BY <1>1
<1>5. Len(SubSeq(s, n + 1, Len(s))) = IF n <= Len(s) THEN Len(s) - n ELSE 0
  BY <1>1, <1>3
<1> QED
  BY <1>3, <1>4, <1>5 DEF List!Sequence!From

(* A sequence no longer than the list may be.                              *)
LEMMA ShortKept ==
  ASSUME ListTypes, NEW s \in Seq(Things), Len(s) <= maxLength
  PROVE  List!Sequence!Kept(s) = s /\ List!Sequence!Excess(s) = 0
BY DEF List!Sequence!Kept, List!Sequence!Excess, ListTypes

LEMMA ShortenShortens ==
  ASSUME ListTypes, NEW n \in Nat, n < length, length' = n,
         UNCHANGED <<array, startIndex, maxLength>>, NEW name, NEW returned,
         done' = List!Result(name, returned, 0)
  PROVE  ListTypes' /\ List!Sequence!Becomes(name, returned, List!Sequence!First(LinesNow, n))
<1> DEFINE s == List!Sequence!First(LinesNow, n)
<1>1. maxLength \in Nat \ {0} /\ length \in 0..maxLength /\ length \in Nat
  BY DEF ListTypes
<1>2. ListTypes'
  BY <1>1 DEF ListTypes, Things, List!Hole
<1>3. LinesNow \in Seq(Things) /\ Len(LinesNow) = length /\ \A j \in 1..length : LinesNow[j] = List!Get(j - 1)
  BY LinesParts
<1>4. s \in Seq(Things) /\ Len(s) = n /\ \A i \in 1..n : s[i] = LinesNow[i]
  BY <1>1, <1>3, FirstParts
<1> HIDE DEF s
<1>5. List!Sequence!Excess(s) = 0
  BY <1>1, <1>4 DEF List!Sequence!Excess
<1>6. \A i \in 1..length' : List!Get(i - 1)' = s[i + List!Sequence!Excess(s)]
  <2>1. \A i \in 1..n : i \in 1..length /\ i + 0 = i
    BY <1>1
  <2> QED
    BY <1>3, <1>4, <1>5, <2>1 DEF List!Get, List!CyclicIndex
<1>7. length' = Len(s) - List!Sequence!Excess(s)
  BY <1>4, <1>5
<1>8. List!Sequence!Becomes(name, returned, s)
  BY <1>2, <1>4, <1>5, <1>6, <1>7, BecomesAs
<1> QED
  BY <1>2, <1>8 DEF s

LEMMA PopTakesLast ==
  ASSUME ListTypes, List!pop
  PROVE  ListTypes' /\ List!Sequence!Pop
<1>1. /\ length > 0 /\ length' = length - 1
      /\ done' = List!Result("pop", <<List!Get(length - 1)>>, 0)
      /\ UNCHANGED <<array, startIndex, maxLength>>
  BY DEF List!pop
<1>2. length \in Nat
  BY DEF ListTypes
<1>3. length - 1 \in Nat /\ length - 1 < length /\ length \in 1..length
  BY <1>1, <1>2
<1>4. LinesNow \in Seq(Things) /\ Len(LinesNow) = length /\ \A j \in 1..length : LinesNow[j] = List!Get(j - 1)
  BY LinesParts
<1>5. LinesNow # <<>> /\ LinesNow[Len(LinesNow)] = List!Get(length - 1)
  BY <1>3, <1>4
<1>6. PICK n : n = length - 1
  OBVIOUS
<1>7. n \in Nat /\ n < length /\ length' = n /\ Len(LinesNow) - 1 = n
  BY <1>1, <1>3, <1>4, <1>6
<1>8. ListTypes' /\ List!Sequence!Becomes("pop", <<List!Get(length - 1)>>, List!Sequence!First(LinesNow, n))
  BY <1>1, <1>7, ShortenShortens
<1>9. LinesNow # <<>> /\ List!Sequence!Becomes("pop", <<LinesNow[Len(LinesNow)]>>, List!Sequence!First(LinesNow, Len(LinesNow) - 1))
  BY <1>5, <1>7, <1>8
<1> QED
  BY <1>8, <1>9 DEF List!Sequence!Pop, LinesNow

LEMMA ShortenLeavesFirst ==
  ASSUME ListTypes, NEW n \in Nat, List!Shorten(n)
  PROVE  ListTypes' /\ List!Sequence!Shorten(n)
<1>1. /\ n < length /\ length' = n /\ done' = List!Result("length", <<>>, 0)
      /\ UNCHANGED <<array, startIndex, maxLength>>
  BY DEF List!Shorten
<1>2. ListTypes' /\ List!Sequence!Becomes("length", <<>>, List!Sequence!First(LinesNow, n))
  BY <1>1, ShortenShortens
<1>3. n < Len(LinesNow)
  BY <1>1, LinesParts
<1> QED
  BY <1>2, <1>3 DEF List!Sequence!Shorten, LinesNow

LEMMA TrimLeavesLast ==
  ASSUME ListTypes, NEW n \in Nat, List!trimStart(n)
  PROVE  ListTypes' /\ List!Sequence!TrimStart(n)
<1>1. /\ n <= length /\ startIndex' = startIndex + n /\ length' = length - n
      /\ done' = List!Result("trimStart", <<>>, n) /\ UNCHANGED <<array, maxLength>>
  BY DEF List!trimStart
<1>2. maxLength \in Nat \ {0} /\ length \in 0..maxLength /\ length \in Nat
  BY DEF ListTypes
<1>3. startIndex' \in Nat /\ \A q \in Nat : List!Get(q)' = array[List!CyclicIndex(q + n)]
  BY <1>1, StartsLater
<1>4. ListTypes'
  BY <1>1, <1>2, <1>3 DEF ListTypes, Things, List!Hole
<1>5. LinesNow \in Seq(Things) /\ Len(LinesNow) = length /\ \A j \in 1..length : LinesNow[j] = List!Get(j - 1)
  BY LinesParts
<1>6. LinesNow' \in Seq(Things) /\ Len(LinesNow') = length' /\ \A i \in 1..length' : LinesNow'[i] = List!Get(i - 1)'
  BY <1>4, LinesFitNext DEF LinesFit, Things, List!Hole
<1>7. /\ List!Sequence!From(LinesNow, n) \in Seq(Things)
      /\ Len(List!Sequence!From(LinesNow, n)) = length - n
      /\ \A i \in 1..(length - n) : List!Sequence!From(LinesNow, n)[i] = LinesNow[n + i]
  BY <1>1, <1>2, <1>5, FromParts
<1>8. ASSUME NEW i \in 1..(length - n) PROVE List!Get(i - 1)' = LinesNow[n + i]
  <2>1. i - 1 \in Nat /\ (i - 1) + n = (n + i) - 1 /\ n + i \in 1..length
    BY <1>1, <1>2
  <2> QED
    BY <1>3, <1>5, <2>1 DEF List!Get
<1>9. LinesNow' = List!Sequence!From(LinesNow, n)
  BY <1>1, <1>6, <1>7, <1>8, SeqEqual
<1>10. n <= Len(LinesNow)
  BY <1>1, <1>5
<1> QED
  BY <1>1, <1>4, <1>9, <1>10 DEF List!Sequence!TrimStart, LinesNow, List!Result, List!Sequence!Result

LEMMA SetMaxLengthKeeps ==
  ASSUME ListTypes, NEW n \in Nat \ {0}, List!SetMaxLength(n)
  PROVE  ListTypes' /\ List!Sequence!SetMaxLength(n)
<1>1. /\ n >= length /\ maxLength' = n /\ startIndex' = 0
      /\ array' = [i \in 0..(n - 1) |-> IF i < length THEN List!Get(i) ELSE List!Hole]
      /\ done' = List!Result("maxLength", <<>>, 0) /\ length' = length
  BY DEF List!SetMaxLength
<1>2. length \in Nat
  BY DEF ListTypes
<1>3. LinesNow \in Seq(Things) /\ Len(LinesNow) = length /\ \A j \in 1..length : LinesNow[j] = List!Get(j - 1)
  BY LinesParts
<1>4. ListTypes'
  <2>1. array' \in [0..(n - 1) -> Things]
    <3>1. \A i \in 0..(n - 1) : (IF i < length THEN List!Get(i) ELSE List!Hole) \in Things
      <4>1. \A i \in 0..(n - 1) : i \in Nat
        OBVIOUS
      <4> QED
        BY <4>1, LinesParts DEF Things
    <3> QED
      BY <1>1, <3>1
  <2> QED
    BY <1>1, <1>2, <2>1 DEF ListTypes, Things, List!Hole
<1>5. LinesNow' \in Seq(Things) /\ Len(LinesNow') = length' /\ \A i \in 1..length' : LinesNow'[i] = List!Get(i - 1)'
  BY <1>4, LinesFitNext DEF LinesFit, Things, List!Hole
<1>6. ASSUME NEW i \in 1..length PROVE List!Get(i - 1)' = List!Get(i - 1)
  <2>1. PICK q : q = i - 1
    OBVIOUS
  <2>2. q \in 0..(n - 1) /\ q < length /\ q = 0 * n + q /\ 0 + q = q /\ q \in Nat
    BY <1>1, <1>2, <2>1
  <2>3. q % n = q
    BY <2>2, RoundOnce
  <2>4. List!Get(q)' = array'[q]
    BY <1>1, <2>2, <2>3 DEF List!Get, List!CyclicIndex
  <2>5. List!Get(q)' = List!Get(q)
    BY <1>1, <2>2, <2>4
  <2> QED
    BY <2>1, <2>5
<1>7. LinesNow' = LinesNow
  BY <1>1, <1>3, <1>5, <1>6, SeqEqual
<1>8. n >= Len(LinesNow)
  BY <1>1, <1>3
<1> QED
  BY <1>1, <1>4, <1>7, <1>8 DEF List!Sequence!SetMaxLength, LinesNow, List!Result, List!Sequence!Result

(* Copies of places, one by one: what each finds is what there was, when   *)
(* none reads what an earlier one wrote.                                   *)
Cells == 0..(maxLength - 1)
CopyOne(g, copies, n) ==
    [g EXCEPT ![List!CyclicIndex(copies[n][1])] = g[List!CyclicIndex(copies[n][2])]]
Copying(f, g, copies, k) == f = [n \in 0..k |-> IF n = 0 THEN g ELSE CopyOne(f[n - 1], copies, n)]

LEMMA CopyingExists ==
  ASSUME NEW g, NEW copies, NEW k \in Nat
  PROVE  \E f : Copying(f, g, copies, k)
<1> DEFINE B == {m \in Nat : ~(\E f : Copying(f, g, copies, m))}
<1>1. SUFFICES ASSUME B # {} PROVE FALSE
  OBVIOUS
<1>2. PICK m \in B : \A y \in B : m <= y
  <2>1. B \in SUBSET Nat
    OBVIOUS
  <2> HIDE DEF B
  <2> QED
    BY <1>1, <2>1, SmallestIn
<1>3. m \in Nat /\ ~(\E f : Copying(f, g, copies, m))
  OBVIOUS
<1>4. m # 0
  <2> SUFFICES ASSUME m = 0 PROVE FALSE
    OBVIOUS
  <2> DEFINE f == [n \in 0..0 |-> g]
  <2>1. f = [n \in 0..0 |-> IF n = 0 THEN g ELSE CopyOne(f[n - 1], copies, n)]
    <3>1. \A n \in 0..0 : n = 0
      OBVIOUS
    <3>2. \A n \in 0..0 : g = IF n = 0 THEN g ELSE CopyOne(f[n - 1], copies, n)
      BY <3>1
    <3> QED
      BY <3>2
  <2> HIDE DEF f
  <2>2. Copying(f, g, copies, 0)
    BY <2>1 DEF Copying
  <2> QED
    BY <1>3, <2>2
<1>5. m - 1 \in Nat /\ m - 1 < m
  BY <1>3, <1>4
<1>6. m - 1 \notin B
  BY <1>2, <1>3, <1>5
<1>7. PICK f : Copying(f, g, copies, m - 1)
  BY <1>5, <1>6
<1>8. /\ f[0] = g
      /\ \A n \in 1..(m - 1) : f[n] = CopyOne(f[n - 1], copies, n)
  <2>1. PICK x : x = m - 1
    OBVIOUS
  <2>2. f = [n \in 0..x |-> IF n = 0 THEN g ELSE CopyOne(f[n - 1], copies, n)] /\ x \in Nat
    BY <1>5, <1>7, <2>1 DEF Copying
  <2>3. \A n \in 0..x : f[n] = IF n = 0 THEN g ELSE CopyOne(f[n - 1], copies, n)
    BY <2>2
  <2>4. 0 \in 0..x /\ \A n \in 1..x : n \in 0..x /\ n # 0
    BY <2>2
  <2> QED
    BY <2>1, <2>3, <2>4
<1> DEFINE h == [n \in 0..m |-> IF n = m THEN CopyOne(f[m - 1], copies, m) ELSE f[n]]
<1>9. \A n \in 0..m : h[n] = IF n = 0 THEN g ELSE CopyOne(h[n - 1], copies, n)
  <2> SUFFICES ASSUME NEW n \in 0..m PROVE h[n] = IF n = 0 THEN g ELSE CopyOne(h[n - 1], copies, n)
    OBVIOUS
  <2>1. CASE n = 0
    BY <1>3, <1>4, <1>8, <2>1
  <2>2. CASE n # 0
    <3>1. n - 1 \in 0..m /\ n - 1 # m
      BY <1>3, <2>2
    <3>2. h[n - 1] = f[n - 1]
      BY <3>1
    <3>3. CASE n = m
      BY <2>2, <3>2, <3>3
    <3>4. CASE n # m
      <4>1. n \in 1..(m - 1)
        BY <1>3, <2>2, <3>4
      <4> QED
        BY <1>8, <2>2, <3>2, <3>4, <4>1
    <3> QED
      BY <3>3, <3>4
  <2> QED
    BY <2>1, <2>2
<1>10. h = [n \in 0..m |-> h[n]]
  OBVIOUS
<1> HIDE DEF h
<1>11. h = [n \in 0..m |-> IF n = 0 THEN g ELSE CopyOne(h[n - 1], copies, n)]
  BY <1>9, <1>10
<1>12. Copying(h, g, copies, m)
  BY <1>11 DEF Copying
<1> QED
  BY <1>3, <1>12

LEMMA CopiedIs ==
  ASSUME NEW g, NEW k \in Nat, NEW copies \in [1..k -> Nat \X Nat]
  PROVE  \E f : Copying(f, g, copies, k) /\ List!Copied(g, copies) = f[k]
<1>1. Len(copies) = k
  <2>1. copies \in Seq(Nat \X Nat) /\ DOMAIN copies = 1..k
    BY SeqDef
  <2>2. DOMAIN copies = 1..Len(copies) /\ Len(copies) \in Nat
    BY <2>1, LenProperties
  <2> QED
    BY <2>1, <2>2
<1>2. PICK f : f = CHOOSE after : Copying(after, g, copies, k)
  OBVIOUS
<1>3. Copying(f, g, copies, k)
  BY <1>2, CopyingExists
<1>4. List!Copied(g, copies) = f[k]
  BY <1>1, <1>2 DEF List!Copied, Copying, CopyOne
<1> QED
  BY <1>3, <1>4

PutAt(copies, n) == List!CyclicIndex(copies[n][1])
TakenAt(copies, n) == List!CyclicIndex(copies[n][2])
LEMMA CopiesApart ==
  ASSUME ListTypes, NEW g \in [Cells -> Things], NEW k \in Nat, NEW copies \in [1..k -> Nat \X Nat],
         \A m, n \in 1..k : m < n => PutAt(copies, m) # PutAt(copies, n) /\ PutAt(copies, m) # TakenAt(copies, n)
  PROVE  /\ List!Copied(g, copies) \in [Cells -> Things]
         /\ \A n \in 1..k : List!Copied(g, copies)[PutAt(copies, n)] = g[TakenAt(copies, n)]
         /\ \A c \in Cells : (\A n \in 1..k : PutAt(copies, n) # c) => List!Copied(g, copies)[c] = g[c]
<1>1. \A n \in 1..k : PutAt(copies, n) \in Cells /\ TakenAt(copies, n) \in Cells
  BY CellParts DEF PutAt, TakenAt, Cells
<1>2. PICK f : Copying(f, g, copies, k) /\ List!Copied(g, copies) = f[k]
  BY CopiedIs
<1>3. /\ f[0] = g
      /\ \A n \in 1..k : f[n] = [f[n - 1] EXCEPT ![PutAt(copies, n)] = f[n - 1][TakenAt(copies, n)]]
  <2>1. \A n \in 0..k : f[n] = IF n = 0 THEN g ELSE CopyOne(f[n - 1], copies, n)
    BY <1>2 DEF Copying
  <2>2. 0 \in 0..k /\ \A n \in 1..k : n \in 0..k /\ n # 0
    OBVIOUS
  <2> QED
    BY <2>1, <2>2 DEF CopyOne, PutAt, TakenAt
<1> DEFINE P(m) == /\ f[m] \in [Cells -> Things]
                   /\ \A n \in 1..m : f[m][PutAt(copies, n)] = g[TakenAt(copies, n)]
                   /\ \A c \in Cells : (\A n \in 1..m : PutAt(copies, n) # c) => f[m][c] = g[c]
           B == {m \in 0..k : ~P(m)}
<1>4. SUFFICES ASSUME B # {} PROVE FALSE
  <2>1. k \in 0..k
    OBVIOUS
  <2>2. P(k)
    BY <1>4, <2>1
  <2> QED
    BY <1>2, <2>2
<1>5. PICK m \in B : \A y \in B : m <= y
  <2>1. B \in SUBSET Nat
    OBVIOUS
  <2> HIDE DEF B
  <2> QED
    BY <1>4, <2>1, SmallestIn
<1>6. m \in 0..k /\ ~P(m)
  OBVIOUS
<1>7. P(0)
  <2>1. \A n \in 1..0 : FALSE
    OBVIOUS
  <2> QED
    BY <1>3, <2>1
<1>8. m # 0
  BY <1>6, <1>7
<1>9. m - 1 \in 0..k /\ m - 1 < m /\ m \in 1..k /\ \A n \in 1..m : n \in 1..k
  BY <1>6, <1>8
<1>10. P(m - 1)
  BY <1>5, <1>6, <1>9
<1>11. PICK x : x = f[m - 1]
  OBVIOUS
<1>12. /\ x \in [Cells -> Things]
       /\ \A n \in 1..(m - 1) : x[PutAt(copies, n)] = g[TakenAt(copies, n)]
       /\ \A c \in Cells : (\A n \in 1..(m - 1) : PutAt(copies, n) # c) => x[c] = g[c]
  BY <1>10, <1>11
<1>13. f[m] = [x EXCEPT ![PutAt(copies, m)] = x[TakenAt(copies, m)]]
  BY <1>3, <1>9, <1>11
<1> HIDE DEF P, B
<1>14. x[TakenAt(copies, m)] = g[TakenAt(copies, m)]
  <2>1. \A n \in 1..(m - 1) : n \in 1..k /\ n < m
    BY <1>6
  <2> QED
    BY <1>1, <1>9, <1>12, <2>1
<1>15. f[m] \in [Cells -> Things]
  BY <1>1, <1>9, <1>12, <1>13
<1>16. \A c \in Cells : f[m][c] = IF c = PutAt(copies, m) THEN g[TakenAt(copies, m)] ELSE x[c]
  BY <1>12, <1>13, <1>14
<1>17. ASSUME NEW n \in 1..m PROVE f[m][PutAt(copies, n)] = g[TakenAt(copies, n)]
  <2>1. CASE n = m
    BY <1>1, <1>9, <1>16, <2>1
  <2>2. CASE n # m
    <3>1. n \in 1..(m - 1) /\ n < m /\ n \in 1..k
      BY <1>6, <2>2
    <3> QED
      BY <1>1, <1>9, <1>12, <1>16, <3>1
  <2> QED
    BY <2>1, <2>2
<1>18. ASSUME NEW c \in Cells, \A n \in 1..m : PutAt(copies, n) # c PROVE f[m][c] = g[c]
  <2>1. m \in 1..m /\ \A n \in 1..(m - 1) : n \in 1..m
    BY <1>6, <1>8
  <2> QED
    BY <1>12, <1>16, <1>18, <2>1
<1>19. P(m)
  BY <1>15, <1>17, <1>18 DEF P
<1> QED
  BY <1>6, <1>19

(* What place q shows of an array.                                         *)
View(g, q) == g[List!CyclicIndex(q)]

(* Places start to start + k - 1 get what is `by' places further, and      *)
(* places first to last are moved `by' places on.                          *)
Back(start, k, by) == [n \in 1..k |-> <<start + n - 1, start + n - 1 + by>>]
MovedBack(r, g, start, k, by) ==
    /\ r \in [Cells -> Things]
    /\ \A q \in start..(start + k - 1) : View(r, q) = View(g, q + by)
    /\ \A q \in Nat : (\A p \in start..(start + k - 1) : List!CyclicIndex(p) # List!CyclicIndex(q))
                      => View(r, q) = View(g, q)
LEMMA CopiedBack ==
  ASSUME ListTypes, NEW g \in [Cells -> Things], NEW start \in Nat, NEW k \in Nat, NEW by \in Nat,
         k + by <= maxLength
  PROVE  MovedBack(List!Copied(g, Back(start, k, by)), g, start, k, by)
<1> DEFINE copies == [n \in 1..k |-> <<start + n - 1, start + n - 1 + by>>]
           r == List!Copied(g, copies)
<1>1. maxLength \in Nat \ {0}
  BY DEF ListTypes
<1>2. copies \in [1..k -> Nat \X Nat]
  <2>1. \A n \in 1..k : start + n - 1 \in Nat /\ start + n - 1 + by \in Nat
    OBVIOUS
  <2> QED
    BY <2>1
<1>3. \A n \in 1..k : PutAt(copies, n) = List!CyclicIndex(start + n - 1) /\ TakenAt(copies, n) = List!CyclicIndex(start + n - 1 + by)
  BY DEF PutAt, TakenAt
<1> HIDE DEF copies
<1>4. ASSUME NEW m \in 1..k, NEW n \in 1..k, m < n
      PROVE  PutAt(copies, m) # PutAt(copies, n) /\ PutAt(copies, m) # TakenAt(copies, n)
  <2>1. PICK x, y, z : x = start + m - 1 /\ y = start + n - 1 /\ z = start + n - 1 + by
    OBVIOUS
  <2>2. x \in Nat /\ y \in Nat /\ z \in Nat /\ x < y /\ y < x + maxLength /\ x < z /\ z < x + maxLength
    BY <1>1, <1>4, <2>1
  <2>3. List!CyclicIndex(x) # List!CyclicIndex(y) /\ List!CyclicIndex(x) # List!CyclicIndex(z)
    BY <2>2, CellParts
  <2> QED
    BY <1>3, <2>1, <2>3
<1>5. /\ r \in [Cells -> Things]
      /\ \A n \in 1..k : r[PutAt(copies, n)] = g[TakenAt(copies, n)]
      /\ \A c \in Cells : (\A n \in 1..k : PutAt(copies, n) # c) => r[c] = g[c]
  BY <1>2, <1>4, CopiesApart
<1> HIDE DEF r
<1>6. ASSUME NEW q \in start..(start + k - 1) PROVE View(r, q) = View(g, q + by)
  <2>1. PICK n : n = q - start + 1
    OBVIOUS
  <2>2. n \in 1..k /\ start + n - 1 = q /\ start + n - 1 + by = q + by
    BY <2>1
  <2> QED
    BY <1>3, <1>5, <2>2 DEF View
<1>7. ASSUME NEW q \in Nat, \A p \in start..(start + k - 1) : List!CyclicIndex(p) # List!CyclicIndex(q)
      PROVE  View(r, q) = View(g, q)
  <2>1. List!CyclicIndex(q) \in Cells
    BY CellParts DEF Cells
  <2>2. \A n \in 1..k : start + n - 1 \in start..(start + k - 1)
    OBVIOUS
  <2> QED
    BY <1>3, <1>5, <1>7, <2>1, <2>2 DEF View
<1>8. List!Copied(g, Back(start, k, by)) = r
  BY DEF Back, copies, r
<1> QED
  BY <1>5, <1>6, <1>7, <1>8 DEF MovedBack

Onwards(g, start, k, by) == List!Copied(g, List!Downwards(start, start + k - 1, by))
MovedOn(r, g, start, k, by) ==
    /\ r \in [Cells -> Things]
    /\ \A q \in start..(start + k - 1) : View(r, q + by) = View(g, q)
    /\ \A q \in Nat : (\A p \in start..(start + k - 1) : List!CyclicIndex(p + by) # List!CyclicIndex(q))
                      => View(r, q) = View(g, q)
LEMMA CopiedOn ==
  ASSUME ListTypes, NEW g \in [Cells -> Things], NEW start \in Nat, NEW k \in Nat, NEW by \in Nat,
         k + by <= maxLength
  PROVE  MovedOn(Onwards(g, start, k, by), g, start, k, by)
<1> DEFINE copies == [n \in 1..k |-> <<start + k - n + by, start + k - n>>]
           r == List!Copied(g, copies)
<1>1. maxLength \in Nat \ {0}
  BY DEF ListTypes
<1>2. copies \in [1..k -> Nat \X Nat]
  <2>1. \A n \in 1..k : start + k - n \in Nat /\ start + k - n + by \in Nat
    OBVIOUS
  <2> QED
    BY <2>1
<1>3. \A n \in 1..k : PutAt(copies, n) = List!CyclicIndex(start + k - n + by) /\ TakenAt(copies, n) = List!CyclicIndex(start + k - n)
  BY DEF PutAt, TakenAt
<1>4. List!Downwards(start, start + k - 1, by) = copies
  <2>1. (start + k - 1) - start + 1 = k
    OBVIOUS
  <2>2. \A n \in 1..k : (start + k - 1) - n + 1 = start + k - n
    OBVIOUS
  <2>3. \A n \in 1..k : <<(start + k - 1) - n + 1 + by, (start + k - 1) - n + 1>> = <<start + k - n + by, start + k - n>>
    BY <2>2
  <2>4. [n \in 1..k |-> <<(start + k - 1) - n + 1 + by, (start + k - 1) - n + 1>>] = copies
    BY <2>3
  <2> HIDE DEF copies
  <2> QED
    BY <2>1, <2>4 DEF List!Downwards
<1> HIDE DEF copies
<1>5. ASSUME NEW m \in 1..k, NEW n \in 1..k, m < n
      PROVE  PutAt(copies, m) # PutAt(copies, n) /\ PutAt(copies, m) # TakenAt(copies, n)
  <2>1. PICK x, y, z : x = start + k - m + by /\ y = start + k - n + by /\ z = start + k - n
    OBVIOUS
  <2>2. x \in Nat /\ y \in Nat /\ z \in Nat /\ y < x /\ x < y + maxLength /\ z < x /\ x < z + maxLength
    BY <1>1, <1>5, <2>1
  <2>3. List!CyclicIndex(y) # List!CyclicIndex(x) /\ List!CyclicIndex(z) # List!CyclicIndex(x)
    BY <2>2, CellParts
  <2> QED
    BY <1>3, <2>1, <2>3
<1>6. /\ r \in [Cells -> Things]
      /\ \A n \in 1..k : r[PutAt(copies, n)] = g[TakenAt(copies, n)]
      /\ \A c \in Cells : (\A n \in 1..k : PutAt(copies, n) # c) => r[c] = g[c]
  BY <1>2, <1>5, CopiesApart
<1> HIDE DEF r
<1>7. ASSUME NEW q \in start..(start + k - 1) PROVE View(r, q + by) = View(g, q)
  <2>1. PICK n : n = start + k - q
    OBVIOUS
  <2>2. n \in 1..k /\ start + k - n = q /\ start + k - n + by = q + by
    BY <2>1
  <2> QED
    BY <1>3, <1>6, <2>2 DEF View
<1>8. ASSUME NEW q \in Nat, \A p \in start..(start + k - 1) : List!CyclicIndex(p + by) # List!CyclicIndex(q)
      PROVE  View(r, q) = View(g, q)
  <2>1. List!CyclicIndex(q) \in Cells
    BY CellParts DEF Cells
  <2>2. \A n \in 1..k : start + k - n \in start..(start + k - 1)
    OBVIOUS
  <2> QED
    BY <1>3, <1>6, <1>8, <2>1, <2>2 DEF View
<1>9. Onwards(g, start, k, by) = r
  BY <1>4 DEF Onwards, r
<1> QED
  BY <1>6, <1>7, <1>8, <1>9 DEF MovedOn

(* Items put at places, one by one.                                        *)
PlaceOne(g, start, items, n) == [g EXCEPT ![List!CyclicIndex(start + n - 1)] = items[n]]
Placing(f, g, start, items, k) ==
    f = [n \in 0..k |-> IF n = 0 THEN g ELSE PlaceOne(f[n - 1], start, items, n)]

LEMMA PlacingExists ==
  ASSUME NEW g, NEW start, NEW items, NEW k \in Nat
  PROVE  \E f : Placing(f, g, start, items, k)
<1> DEFINE B == {m \in Nat : ~(\E f : Placing(f, g, start, items, m))}
<1>1. SUFFICES ASSUME B # {} PROVE FALSE
  OBVIOUS
<1>2. PICK m \in B : \A y \in B : m <= y
  <2>1. B \in SUBSET Nat
    OBVIOUS
  <2> HIDE DEF B
  <2> QED
    BY <1>1, <2>1, SmallestIn
<1>3. m \in Nat /\ ~(\E f : Placing(f, g, start, items, m))
  OBVIOUS
<1>4. m # 0
  <2> SUFFICES ASSUME m = 0 PROVE FALSE
    OBVIOUS
  <2> DEFINE f == [n \in 0..0 |-> g]
  <2>1. f = [n \in 0..0 |-> IF n = 0 THEN g ELSE PlaceOne(f[n - 1], start, items, n)]
    <3>1. \A n \in 0..0 : n = 0
      OBVIOUS
    <3>2. \A n \in 0..0 : g = IF n = 0 THEN g ELSE PlaceOne(f[n - 1], start, items, n)
      BY <3>1
    <3> QED
      BY <3>2
  <2> HIDE DEF f
  <2>2. Placing(f, g, start, items, 0)
    BY <2>1 DEF Placing
  <2> QED
    BY <1>3, <2>2
<1>5. m - 1 \in Nat /\ m - 1 < m
  BY <1>3, <1>4
<1>6. m - 1 \notin B
  BY <1>2, <1>3, <1>5
<1>7. PICK f : Placing(f, g, start, items, m - 1)
  BY <1>5, <1>6
<1>8. /\ f[0] = g
      /\ \A n \in 1..(m - 1) : f[n] = PlaceOne(f[n - 1], start, items, n)
  <2>1. PICK x : x = m - 1
    OBVIOUS
  <2>2. f = [n \in 0..x |-> IF n = 0 THEN g ELSE PlaceOne(f[n - 1], start, items, n)] /\ x \in Nat
    BY <1>5, <1>7, <2>1 DEF Placing
  <2>3. \A n \in 0..x : f[n] = IF n = 0 THEN g ELSE PlaceOne(f[n - 1], start, items, n)
    BY <2>2
  <2>4. 0 \in 0..x /\ \A n \in 1..x : n \in 0..x /\ n # 0
    BY <2>2
  <2> QED
    BY <2>1, <2>3, <2>4
<1> DEFINE h == [n \in 0..m |-> IF n = m THEN PlaceOne(f[m - 1], start, items, m) ELSE f[n]]
<1>9. \A n \in 0..m : h[n] = IF n = 0 THEN g ELSE PlaceOne(h[n - 1], start, items, n)
  <2> SUFFICES ASSUME NEW n \in 0..m PROVE h[n] = IF n = 0 THEN g ELSE PlaceOne(h[n - 1], start, items, n)
    OBVIOUS
  <2>1. CASE n = 0
    BY <1>3, <1>4, <1>8, <2>1
  <2>2. CASE n # 0
    <3>1. n - 1 \in 0..m /\ n - 1 # m
      BY <1>3, <2>2
    <3>2. h[n - 1] = f[n - 1]
      BY <3>1
    <3>3. CASE n = m
      BY <2>2, <3>2, <3>3
    <3>4. CASE n # m
      <4>1. n \in 1..(m - 1)
        BY <1>3, <2>2, <3>4
      <4> QED
        BY <1>8, <2>2, <3>2, <3>4, <4>1
    <3> QED
      BY <3>3, <3>4
  <2> QED
    BY <2>1, <2>2
<1>10. h = [n \in 0..m |-> h[n]]
  OBVIOUS
<1> HIDE DEF h
<1>11. h = [n \in 0..m |-> IF n = 0 THEN g ELSE PlaceOne(h[n - 1], start, items, n)]
  BY <1>9, <1>10
<1>12. Placing(h, g, start, items, m)
  BY <1>11 DEF Placing
<1> QED
  BY <1>3, <1>12

LEMMA PlacedIs ==
  ASSUME NEW g, NEW start, NEW items, Len(items) \in Nat
  PROVE  \E f : Placing(f, g, start, items, Len(items)) /\ List!Placed(g, start, items) = f[Len(items)]
<1>1. PICK k : k = Len(items)
  OBVIOUS
<1>2. PICK f : f = CHOOSE after : Placing(after, g, start, items, k)
  OBVIOUS
<1>3. Placing(f, g, start, items, k)
  BY <1>1, <1>2, PlacingExists
<1>4. List!Placed(g, start, items) = f[k]
  BY <1>1, <1>2 DEF List!Placed, Placing, PlaceOne
<1> QED
  BY <1>1, <1>3, <1>4

LEMMA PlacedParts ==
  ASSUME ListTypes, NEW g \in [Cells -> Things], NEW start \in Nat, NEW items \in Seq(Items), Len(items) <= maxLength
  PROVE  /\ List!Placed(g, start, items) \in [Cells -> Things]
         /\ \A n \in 1..Len(items) : View(List!Placed(g, start, items), start + n - 1) = items[n]
         /\ \A q \in Nat : (\A n \in 1..Len(items) : List!CyclicIndex(start + n - 1) # List!CyclicIndex(q))
                            => View(List!Placed(g, start, items), q) = View(g, q)
<1>1. PICK k : k = Len(items)
  OBVIOUS
<1>2. k \in Nat /\ k <= maxLength /\ maxLength \in Nat \ {0} /\ \A n \in 1..k : items[n] \in Things
  BY <1>1, LenProperties, ElementOfSeq DEF Things, ListTypes
<1>3. PICK f : Placing(f, g, start, items, k) /\ List!Placed(g, start, items) = f[k]
  BY <1>1, <1>2, PlacedIs
<1>4. \A n \in 1..k : start + n - 1 \in Nat /\ List!CyclicIndex(start + n - 1) \in Cells
  <2>1. \A n \in 1..k : start + n - 1 \in Nat
    OBVIOUS
  <2> QED
    BY <2>1, CellParts DEF Cells
<1>5. f[0] = g /\ \A n \in 1..k : f[n] = [f[n - 1] EXCEPT ![List!CyclicIndex(start + n - 1)] = items[n]]
  <2>1. \A n \in 0..k : f[n] = IF n = 0 THEN g ELSE PlaceOne(f[n - 1], start, items, n)
    BY <1>3 DEF Placing
  <2>2. 0 \in 0..k /\ \A n \in 1..k : n \in 0..k /\ n # 0
    BY <1>2
  <2> QED
    BY <2>1, <2>2 DEF PlaceOne
<1>6. ASSUME NEW m \in 1..k, NEW n \in 1..k, m # n
      PROVE  List!CyclicIndex(start + m - 1) # List!CyclicIndex(start + n - 1)
  <2>1. PICK x, y : x = start + m - 1 /\ y = start + n - 1
    OBVIOUS
  <2>2. x \in Nat /\ y \in Nat /\ (x < y \/ y < x) /\ y < x + maxLength /\ x < y + maxLength
    BY <1>2, <1>6, <2>1
  <2> QED
    BY <2>1, <2>2, CellParts
<1> DEFINE P(m) == /\ f[m] \in [Cells -> Things]
                   /\ \A n \in 1..m : f[m][List!CyclicIndex(start + n - 1)] = items[n]
                   /\ \A c \in Cells : (\A n \in 1..m : List!CyclicIndex(start + n - 1) # c) => f[m][c] = g[c]
           B == {m \in 0..k : ~P(m)}
<1>7. P(k)
  <2> SUFFICES ASSUME B # {} PROVE FALSE
    <3>1. k \in 0..k
      BY <1>2
    <3> QED
      BY <3>1
  <2>1. PICK m \in B : \A y \in B : m <= y
    <3>1. B \in SUBSET Nat
      BY <1>2
    <3> HIDE DEF B
    <3> QED
      BY <3>1, SmallestIn
  <2>2. m \in 0..k /\ ~P(m)
    OBVIOUS
  <2>3. P(0)
    <3>1. \A n \in 1..0 : FALSE
      OBVIOUS
    <3> QED
      BY <1>5, <3>1
  <2>4. m # 0
    BY <2>2, <2>3
  <2>5. m - 1 \in 0..k /\ m - 1 < m /\ m \in 1..k /\ \A n \in 1..m : n \in 1..k
    BY <1>2, <2>2, <2>4
  <2>6. P(m - 1)
    <3>1. m - 1 \notin B
      <4> HIDE DEF P, B
      <4> QED
        BY <1>2, <2>1, <2>2, <2>5
    <3>2. PICK y : y = m - 1
      OBVIOUS
    <3> HIDE DEF P
    <3> QED
      BY <2>5, <3>1, <3>2
  <2>7. PICK x : x = f[m - 1]
    OBVIOUS
  <2>8. /\ x \in [Cells -> Things]
        /\ \A n \in 1..(m - 1) : x[List!CyclicIndex(start + n - 1)] = items[n]
        /\ \A c \in Cells : (\A n \in 1..(m - 1) : List!CyclicIndex(start + n - 1) # c) => x[c] = g[c]
    BY <2>6, <2>7
  <2>9. f[m] = [x EXCEPT ![List!CyclicIndex(start + m - 1)] = items[m]]
    BY <1>5, <2>5, <2>7
  <2> HIDE DEF P, B
  <2>10. f[m] \in [Cells -> Things]
    BY <1>2, <1>4, <2>5, <2>8, <2>9
  <2>11. \A c \in Cells : f[m][c] = IF c = List!CyclicIndex(start + m - 1) THEN items[m] ELSE x[c]
    BY <2>8, <2>9
  <2>12. ASSUME NEW n \in 1..m PROVE f[m][List!CyclicIndex(start + n - 1)] = items[n]
    <3>1. CASE n = m
      BY <1>4, <2>5, <2>11, <3>1
    <3>2. CASE n # m
      <4>1. n \in 1..(m - 1) /\ n \in 1..k
        BY <2>2, <2>5, <3>2
      <4> QED
        BY <1>4, <1>6, <2>5, <2>8, <2>11, <3>2, <4>1
    <3> QED
      BY <3>1, <3>2
  <2>13. ASSUME NEW c \in Cells, \A n \in 1..m : List!CyclicIndex(start + n - 1) # c PROVE f[m][c] = g[c]
    <3>1. m \in 1..m /\ \A n \in 1..(m - 1) : n \in 1..m
      BY <2>2, <2>4
    <3> QED
      BY <2>8, <2>11, <2>13, <3>1
  <2>14. P(m)
    BY <2>10, <2>12, <2>13 DEF P
  <2> QED
    BY <2>2, <2>14
<1>8. ASSUME NEW q \in Nat, \A n \in 1..k : List!CyclicIndex(start + n - 1) # List!CyclicIndex(q)
      PROVE  f[k][List!CyclicIndex(q)] = g[List!CyclicIndex(q)]
  <2>1. List!CyclicIndex(q) \in Cells
    BY CellParts DEF Cells
  <2> QED
    BY <1>7, <1>8, <2>1
<1> QED
  BY <1>1, <1>3, <1>7, <1>8 DEF View

(* The first m of a sequence, a middle, and what comes after the first n.  *)
Joined(s, m, t, n) == List!Sequence!First(s, m) \o t \o List!Sequence!From(s, n)
IsJoined(u, s, m, t, n) ==
    /\ u \in Seq(Things)
    /\ Len(u) = m + Len(t) + (IF n <= Len(s) THEN Len(s) - n ELSE 0)
    /\ \A i \in 1..m : u[i] = s[i]
    /\ \A i \in (m + 1)..(m + Len(t)) : u[i] = t[i - m]
    /\ \A i \in (m + Len(t) + 1)..Len(u) : u[i] = s[n + (i - m - Len(t))]
LEMMA JoinedParts ==
  ASSUME NEW s \in Seq(Things), NEW m \in Nat, m <= Len(s), NEW t \in Seq(Things), NEW n \in Nat
  PROVE  IsJoined(Joined(s, m, t, n), s, m, t, n)
<1> DEFINE u == Joined(s, m, t, n)
<1>1. PICK f, g : f = List!Sequence!First(s, m) /\ g = List!Sequence!From(s, n)
  OBVIOUS
<1>2. f \in Seq(Things) /\ Len(f) = m /\ \A i \in 1..m : f[i] = s[i]
  BY <1>1, FirstParts
<1>3. g \in Seq(Things) /\ Len(g) = (IF n <= Len(s) THEN Len(s) - n ELSE 0) /\ \A i \in 1..(Len(s) - n) : g[i] = s[n + i]
  BY <1>1, FromParts
<1>4. /\ f \o t \in Seq(Things) /\ Len(f \o t) = m + Len(t)
      /\ \A i \in 1..(m + Len(t)) : (f \o t)[i] = IF i <= m THEN f[i] ELSE t[i - m]
  BY <1>2, ConcatProperties
<1>5. PICK h : h = f \o t
  OBVIOUS
<1>6. /\ h \o g \in Seq(Things) /\ Len(h \o g) = Len(h) + Len(g)
      /\ \A i \in 1..(Len(h) + Len(g)) : (h \o g)[i] = IF i <= Len(h) THEN h[i] ELSE g[i - Len(h)]
  <2>1. h \in Seq(Things) /\ g \in Seq(Things)
    BY <1>3, <1>4, <1>5
  <2> QED
    BY <2>1, ConcatProperties
<1>7. u = h \o g
  BY <1>1, <1>5 DEF Joined
<1> HIDE DEF u
<1>8. PICK k, l : k = Len(t) /\ l = Len(s)
  OBVIOUS
<1>9. k \in Nat /\ l \in Nat
  BY <1>8, LenProperties
<1>10. PICK x : x = IF n <= l THEN l - n ELSE 0
  OBVIOUS
<1>11. x \in Nat /\ Len(g) = x /\ Len(h) = m + k
  BY <1>3, <1>4, <1>5, <1>8, <1>9, <1>10
<1>12. u \in Seq(Things) /\ Len(u) = m + k + x
  BY <1>6, <1>7, <1>11
<1>13. \A i \in 1..(m + k + x) : u[i] = IF i <= m + k THEN h[i] ELSE g[i - (m + k)]
  BY <1>6, <1>7, <1>11
<1>14. \A i \in 1..(m + k) : h[i] = IF i <= m THEN f[i] ELSE t[i - m]
  BY <1>4, <1>5, <1>8
<1>15. ASSUME NEW i \in 1..m PROVE u[i] = s[i]
  <2>1. i \in 1..(m + k) /\ i \in 1..(m + k + x) /\ i <= m /\ i <= m + k
    BY <1>9, <1>11
  <2>2. u[i] = h[i]
    BY <1>13, <2>1
  <2>3. h[i] = f[i]
    BY <1>14, <2>1
  <2> QED
    BY <1>2, <2>2, <2>3
<1>16. ASSUME NEW i \in (m + 1)..(m + k) PROVE u[i] = t[i - m]
  <2>1. i \in 1..(m + k) /\ i \in 1..(m + k + x) /\ ~(i <= m) /\ i <= m + k
    BY <1>9, <1>11
  <2>2. u[i] = h[i]
    BY <1>13, <2>1
  <2>3. h[i] = t[i - m]
    BY <1>14, <2>1
  <2> QED
    BY <2>2, <2>3
<1>17. ASSUME NEW i \in (m + k + 1)..(m + k + x) PROVE u[i] = s[n + (i - m - k)]
  <2>1. PICK j : j = i - m - k
    OBVIOUS
  <2>2. j \in 1..(l - n) /\ i - (m + k) = j /\ i \in 1..(m + k + x) /\ ~(i <= m + k)
    BY <1>9, <1>10, <1>11, <2>1
  <2> QED
    BY <1>3, <1>8, <1>13, <2>1, <2>2
<1> QED
  <2>1. IsJoined(u, s, m, t, n)
    BY <1>8, <1>10, <1>12, <1>15, <1>16, <1>17 DEF IsJoined
  <2> QED
    BY <2>1 DEF u

(* What splice leaves in the array, of the lines that stay.                *)
IsInserted(r, start, taken, items, k, size, o) ==
    /\ r \in [Cells -> Things]
    /\ \A q \in o..(size - 1) : /\ q < start => View(r, q) = View(array, q)
                                /\ q >= start /\ q < start + k => View(r, q) = items[q - start + 1]
                                /\ q >= start + k => View(r, q) = View(array, q - k + taken)
LEMMA InsertedParts ==
  ASSUME ListTypes, NEW start \in Nat, NEW taken \in Nat, start + taken <= length,
         NEW items \in Seq(Items), NEW k \in Nat, k = Len(items),
         NEW size \in Nat, size = length - taken + k,
         NEW o \in Nat, o = (IF size > maxLength THEN size - maxLength ELSE 0), k > 0 => start >= o
  PROVE  IsInserted(List!Inserted(start, taken, items), start, taken, items, k, size, o)
<1>1. maxLength \in Nat \ {0} /\ length \in Nat /\ length <= maxLength /\ array \in [Cells -> Things]
  BY DEF ListTypes, Cells
<1> DEFINE r == List!Inserted(start, taken, items)
<1>2. PICK left, d : left = length - taken /\ d = length - taken - start
  OBVIOUS
<1>3. /\ left \in Nat /\ d \in Nat /\ left = start + d /\ size = start + d + k /\ left - start = d
      /\ left - 1 = start + d - 1 /\ d + taken <= maxLength
  <2>1. left \in Nat /\ d \in Nat
    BY <1>1, <1>2
  <2>2. left = start + d /\ left - start = d /\ left - 1 = start + d - 1
    BY <1>1, <1>2, <2>1
  <2>3. size = start + d + k
    BY <1>1, <1>2, <2>1
  <2>4. d + taken <= maxLength
    BY <1>1, <1>2, <2>1
  <2> QED
    BY <2>1, <2>2, <2>3, <2>4
<1>4. d + k <= maxLength /\ k <= maxLength /\ size <= o + maxLength /\ size = start + d + k
  <2>1. CASE size > maxLength
    <3>1. o = size - maxLength
      BY <2>1
    <3>2. start >= o
      <4>1. CASE k > 0
        BY <4>1
      <4>2. CASE k = 0
        BY <1>1, <2>1, <4>2
      <4> QED
        BY <4>1, <4>2
    <3> QED
      BY <1>1, <1>3, <3>1, <3>2
  <2>2. CASE ~(size > maxLength)
    <3>1. o = 0
      BY <2>2
    <3> QED
      BY <1>1, <1>3, <2>2, <3>1
  <2> QED
    BY <2>1, <2>2
<1>5. PICK closed : closed = List!Copied(array, Back(start, d, taken))
  OBVIOUS
<1>6. PICK opened : opened = Onwards(closed, start, d, k)
  OBVIOUS
<1>7. r = List!Placed(opened, start, items)
  <2>1. r = List!Placed(List!Copied(List!Copied(array, [n \in 1..(left - start) |-> <<start + n - 1, start + n - 1 + taken>>]),
                                    List!Downwards(start, left - 1, Len(items))), start, items)
    BY <1>2 DEF List!Inserted
  <2>2. [n \in 1..(left - start) |-> <<start + n - 1, start + n - 1 + taken>>] = Back(start, d, taken)
    BY <1>3 DEF Back
  <2> HIDE DEF r
  <2>3. r = List!Placed(List!Copied(closed, List!Downwards(start, left - 1, k)), start, items)
    BY <1>5, <2>1, <2>2
  <2> QED
    BY <1>3, <1>6, <2>3 DEF Onwards
<1> HIDE DEF r
<1>8. /\ closed \in [Cells -> Things]
      /\ \A q \in start..(start + d - 1) : View(closed, q) = View(array, q + taken)
      /\ \A q \in Nat : (\A p \in start..(start + d - 1) : List!CyclicIndex(p) # List!CyclicIndex(q))
                        => View(closed, q) = View(array, q)
  <2>1. d \in Nat /\ d + taken <= maxLength /\ array \in [Cells -> Things]
    BY <1>1, <1>3
  <2>2. MovedBack(List!Copied(array, Back(start, d, taken)), array, start, d, taken)
    BY <2>1, CopiedBack
  <2>3. MovedBack(closed, array, start, d, taken)
    BY <1>5, <2>2
  <2> QED
    BY <2>3 DEF MovedBack
<1>9. /\ opened \in [Cells -> Things]
      /\ \A q \in start..(start + d - 1) : View(opened, q + k) = View(closed, q)
      /\ \A q \in Nat : (\A p \in start..(start + d - 1) : List!CyclicIndex(p + k) # List!CyclicIndex(q))
                        => View(opened, q) = View(closed, q)
  <2>1. d \in Nat /\ d + k <= maxLength /\ closed \in [Cells -> Things]
    BY <1>3, <1>4, <1>8
  <2>2. MovedOn(Onwards(closed, start, d, k), closed, start, d, k)
    BY <2>1, CopiedOn
  <2>3. MovedOn(opened, closed, start, d, k)
    BY <1>6, <2>2
  <2> QED
    BY <2>3 DEF MovedOn
<1>10. /\ r \in [Cells -> Things]
       /\ \A n \in 1..k : View(r, start + n - 1) = items[n]
       /\ \A q \in Nat : (\A n \in 1..k : List!CyclicIndex(start + n - 1) # List!CyclicIndex(q))
                         => View(r, q) = View(opened, q)
  BY <1>4, <1>7, <1>9, PlacedParts
<1>11. ASSUME NEW q \in o..(size - 1), q < start PROVE View(r, q) = View(array, q)
  <2>1. q \in Nat /\ size - 1 < q + maxLength
    BY <1>1, <1>4
  <2>2. \A p \in Nat : q < p /\ p <= size - 1 => List!CyclicIndex(p) # List!CyclicIndex(q)
    <3>1. ASSUME NEW p \in Nat, q < p, p <= size - 1 PROVE List!CyclicIndex(p) # List!CyclicIndex(q)
      <4>1. p < q + maxLength
        BY <1>1, <2>1, <3>1
      <4> QED
        BY <2>1, <3>1, <4>1, CellParts
    <3> QED
      BY <3>1
  <2>3. \A n \in 1..k : List!CyclicIndex(start + n - 1) # List!CyclicIndex(q)
    <3>1. \A n \in 1..k : start + n - 1 \in Nat /\ q < start + n - 1 /\ start + n - 1 <= size - 1
      BY <1>3, <1>11, <2>1
    <3> QED
      BY <2>2, <3>1
  <2>4. \A p \in start..(start + d - 1) : List!CyclicIndex(p + k) # List!CyclicIndex(q)
    <3>1. \A p \in start..(start + d - 1) : p + k \in Nat /\ q < p + k /\ p + k <= size - 1
      BY <1>3, <1>11, <2>1
    <3> QED
      BY <2>2, <3>1
  <2>5. \A p \in start..(start + d - 1) : List!CyclicIndex(p) # List!CyclicIndex(q)
    <3>1. \A p \in start..(start + d - 1) : p \in Nat /\ q < p /\ p <= size - 1
      BY <1>3, <1>11, <2>1
    <3> QED
      BY <2>2, <3>1
  <2>6. View(closed, q) = View(array, q)
    BY <1>8, <2>1, <2>5
  <2>7. View(opened, q) = View(closed, q)
    BY <1>9, <2>1, <2>4
  <2>8. View(r, q) = View(opened, q)
    BY <1>10, <2>1, <2>3
  <2> QED
    BY <2>6, <2>7, <2>8
<1>12. ASSUME NEW q \in o..(size - 1), q >= start, q < start + k PROVE View(r, q) = items[q - start + 1]
  <2>1. PICK n : n = q - start + 1
    OBVIOUS
  <2>2. n \in 1..k /\ start + n - 1 = q
    BY <1>12, <2>1
  <2> QED
    BY <1>10, <2>1, <2>2
<1>13. ASSUME NEW q \in o..(size - 1), q >= start + k PROVE View(r, q) = View(array, q - k + taken)
  <2>1. PICK p : p = q - k
    OBVIOUS
  <2>2. p \in start..(start + d - 1) /\ p + k = q /\ q \in Nat /\ q - k + taken = p + taken
    BY <1>3, <1>13, <2>1
  <2>3. \A n \in 1..k : List!CyclicIndex(start + n - 1) # List!CyclicIndex(q)
    <3>1. ASSUME NEW n \in 1..k PROVE List!CyclicIndex(start + n - 1) # List!CyclicIndex(q)
      <4>1. PICK x : x = start + n - 1
        OBVIOUS
      <4>2. x \in Nat /\ x < q /\ q < x + maxLength
        BY <1>1, <1>3, <1>4, <1>13, <2>2, <4>1
      <4> QED
        BY <2>2, <4>1, <4>2, CellParts
    <3> QED
      BY <3>1
  <2>4. View(r, q) = View(opened, q)
    BY <1>10, <2>2, <2>3
  <2>5. View(opened, q) = View(closed, p)
    BY <1>9, <2>2
  <2>6. View(closed, p) = View(array, p + taken)
    BY <1>8, <2>2
  <2> QED
    BY <2>2, <2>4, <2>5, <2>6
<1> QED
  <2>1. IsInserted(r, start, taken, items, k, size, o)
    BY <1>10, <1>11, <1>12, <1>13 DEF IsInserted
  <2> QED
    BY <2>1 DEF r

(* A list whose array shows the last of a sequence.                        *)
LEMMA ShowsSequence ==
  ASSUME ListTypes, NEW s \in Seq(Things), NEW size \in Nat, Len(s) = size,
         NEW o \in Nat, List!Overflow(size) = o, array' \in [Cells -> Things],
         startIndex' = startIndex + o, maxLength' = maxLength, length' = size - o,
         NEW name, done' = List!Result(name, <<>>, o),
         \A q \in o..(size - 1) : View(array', q) = s[q + 1]
  PROVE  ListTypes' /\ List!Sequence!Becomes(name, <<>>, s)
<1>1. maxLength \in Nat \ {0} /\ startIndex \in Nat
  BY DEF ListTypes
<1>2. o = IF size > maxLength THEN size - maxLength ELSE 0
  BY DEF List!Overflow
<1>3. size - o \in 0..maxLength
  BY <1>1, <1>2
<1>4. ListTypes'
  <2>1. array' \in [0..(maxLength' - 1) -> Things]
    BY DEF Cells
  <2> QED
    BY <1>1, <1>3, <2>1 DEF ListTypes, Things, List!Hole
<1>5. List!Sequence!Excess(s) = o
  BY <1>2 DEF List!Sequence!Excess
<1>6. \A q \in Nat : List!Get(q)' = array'[List!CyclicIndex(q + o)]
  BY StartsLater
<1>7. ASSUME NEW i \in 1..length' PROVE List!Get(i - 1)' = s[i + o]
  <2>1. PICK q : q = i + o - 1
    OBVIOUS
  <2>2. i - 1 \in Nat /\ (i - 1) + o = q /\ q \in o..(size - 1) /\ q + 1 = i + o
    BY <1>1, <1>3, <2>1
  <2>3. List!Get(i - 1)' = View(array', q)
    BY <1>6, <2>2 DEF View
  <2> QED
    BY <2>2, <2>3
<1>8. length' = Len(s) - List!Sequence!Excess(s) /\ done' = List!Result(name, <<>>, List!Sequence!Excess(s))
  BY <1>5
<1>9. \A i \in 1..length' : List!Get(i - 1)' = s[i + List!Sequence!Excess(s)]
  BY <1>5, <1>7
<1>10. List!Sequence!Becomes(name, <<>>, s)
  BY <1>4, <1>8, <1>9, BecomesAs
<1> QED
  BY <1>4, <1>10

LEMMA ViewsAreLines ==
  ASSUME ListTypes
  PROVE  /\ length \in Nat /\ LinesNow \in Seq(Things) /\ Len(LinesNow) = length
         /\ \A q \in 0..(length - 1) : LinesNow[q + 1] = View(array, q)
<1>1. length \in Nat
  BY DEF ListTypes
<1>2. LinesNow \in Seq(Things) /\ Len(LinesNow) = length /\ \A i \in 1..length : LinesNow[i] = List!Get(i - 1)
  BY LinesParts
<1>3. ASSUME NEW q \in 0..(length - 1) PROVE LinesNow[q + 1] = View(array, q)
  <2>1. q + 1 \in 1..length /\ (q + 1) - 1 = q
    BY <1>1
  <2> QED
    BY <1>2, <2>1 DEF List!Get, View
<1> QED
  BY <1>1, <1>2, <1>3

LEMMA SpliceSplices ==
  ASSUME ListTypes, NEW start \in Nat, NEW taken \in Nat, NEW items \in Seq(Items), List!splice(start, taken, items)
  PROVE  ListTypes' /\ List!Sequence!Splice(start, taken, items)
<1>1. PICK k : k = Len(items)
  OBVIOUS
<1>2. PICK size : size = length - taken + k
  OBVIOUS
<1>3. PICK o : o = List!Overflow(size)
  OBVIOUS
<1>4. /\ start + taken <= length
      /\ k > 0 => start >= o
      /\ array' = List!Inserted(start, taken, items)
      /\ startIndex' = startIndex + o /\ length' = size - o
      /\ done' = List!Result("splice", <<>>, o)
      /\ maxLength' = maxLength
  BY <1>1, <1>2, <1>3 DEF List!splice
<1>5. maxLength \in Nat \ {0} /\ length \in Nat /\ length <= maxLength /\ k \in Nat
  BY <1>1, LenProperties DEF ListTypes
<1>6. size \in Nat /\ o \in Nat /\ o = IF size > maxLength THEN size - maxLength ELSE 0
  BY <1>2, <1>3, <1>4, <1>5 DEF List!Overflow
<1>7. PICK r : r = List!Inserted(start, taken, items)
  OBVIOUS
<1>8. /\ r \in [Cells -> Things]
      /\ \A q \in o..(size - 1) : /\ q < start => View(r, q) = View(array, q)
                                  /\ q >= start /\ q < start + k => View(r, q) = items[q - start + 1]
                                  /\ q >= start + k => View(r, q) = View(array, q - k + taken)
  <2>1. IsInserted(List!Inserted(start, taken, items), start, taken, items, k, size, o)
    BY <1>1, <1>2, <1>4, <1>5, <1>6, InsertedParts
  <2>2. IsInserted(r, start, taken, items, k, size, o)
    BY <1>7, <2>1
  <2> QED
    BY <2>2 DEF IsInserted
<1>9. /\ LinesNow \in Seq(Things) /\ Len(LinesNow) = length
      /\ \A q \in 0..(length - 1) : LinesNow[q + 1] = View(array, q)
  BY ViewsAreLines
<1>10. items \in Seq(Things)
  BY SeqMonotonic DEF Things
<1>11. PICK n : n = start + taken
  OBVIOUS
<1>12. PICK s : s = Joined(LinesNow, start, items, n)
  OBVIOUS
<1>13. n \in Nat /\ n <= length /\ start <= length
  BY <1>4, <1>5, <1>11
<1>14. /\ s \in Seq(Things) /\ Len(s) = start + Len(items) + (IF n <= Len(LinesNow) THEN Len(LinesNow) - n ELSE 0)
       /\ \A i \in 1..start : s[i] = LinesNow[i]
       /\ \A i \in (start + 1)..(start + Len(items)) : s[i] = items[i - start]
       /\ \A i \in (start + Len(items) + 1)..Len(s) : s[i] = LinesNow[n + (i - start - Len(items))]
  <2>1. IsJoined(Joined(LinesNow, start, items, n), LinesNow, start, items, n)
    BY <1>9, <1>10, <1>13, JoinedParts
  <2>2. IsJoined(s, LinesNow, start, items, n)
    BY <1>12, <2>1
  <2> QED
    BY <2>2 DEF IsJoined
<1>15. Len(s) = size
  BY <1>1, <1>2, <1>5, <1>9, <1>11, <1>13, <1>14
<1>16. ASSUME NEW q \in o..(size - 1) PROVE View(r, q) = s[q + 1]
  <2>1. q \in Nat /\ q + 1 \in Nat
    BY <1>6
  <2>2. CASE q < start
    <3>1. q + 1 \in 1..start /\ q \in 0..(length - 1)
      BY <1>5, <1>13, <2>1, <2>2
    <3> QED
      BY <1>8, <1>9, <1>14, <2>2, <3>1
  <2>3. CASE q >= start /\ q < start + k
    <3>1. q + 1 \in (start + 1)..(start + k) /\ (q + 1) - start = q - start + 1
      BY <1>5, <2>1, <2>3
    <3> QED
      BY <1>1, <1>8, <1>14, <2>3, <3>1
  <2>4. CASE q >= start + k
    <3>1. PICK p : p = q - k + taken
      OBVIOUS
    <3>2. p \in 0..(length - 1) /\ q + 1 \in (start + k + 1)..size /\ n + ((q + 1) - start - k) = p + 1
      BY <1>2, <1>5, <1>6, <1>11, <2>1, <2>4, <3>1
    <3>3. s[q + 1] = LinesNow[p + 1]
      <4>1. \A i \in (start + k + 1)..size : s[i] = LinesNow[n + (i - start - k)]
        BY <1>1, <1>14, <1>15
      <4>2. PICK i : i = q + 1
        OBVIOUS
      <4> QED
        BY <3>2, <4>1, <4>2
    <3>4. View(r, q) = View(array, p)
      BY <1>8, <2>4, <3>1
    <3> QED
      BY <1>9, <3>2, <3>3, <3>4
  <2> QED
    BY <1>5, <2>1, <2>2, <2>3, <2>4
<1>17. array' = r
  BY <1>4, <1>7
<1>18. ListTypes' /\ List!Sequence!Becomes("splice", <<>>, s)
  <2>1. \A q \in o..(size - 1) : View(array', q) = s[q + 1]
    BY <1>16, <1>17
  <2>2. array' \in [Cells -> Things]
    BY <1>8, <1>17
  <2> QED
    BY <1>3, <1>4, <1>6, <1>14, <1>15, <2>1, <2>2, ShowsSequence
<1>19. start + taken <= Len(LinesNow)
  BY <1>4, <1>9
<1>20. s = List!Sequence!First(LinesNow, start) \o items \o List!Sequence!From(LinesNow, start + taken)
  BY <1>11, <1>12 DEF Joined
<1> QED
  BY <1>18, <1>19, <1>20 DEF List!Sequence!Splice, LinesNow

LEMMA ShiftDownShifts ==
  ASSUME ListTypes, NEW start \in Nat, NEW moved \in Nat, List!ShiftDown(start, moved)
  PROVE  ListTypes' /\ moved > 0 /\ List!Sequence!ShiftDown(start, moved)
<1>1. PICK size : size = IF start + moved + 1 > length THEN start + moved + 1 ELSE length
  OBVIOUS
<1>2. PICK o : o = List!Overflow(size)
  OBVIOUS
<1>3. /\ moved > 0 /\ start + moved <= length /\ start >= o
      /\ array' = List!Copied(array, List!Downwards(start, start + moved - 1, 1))
      /\ startIndex' = startIndex + o /\ length' = size - o
      /\ done' = List!Result("shift", <<>>, o)
      /\ maxLength' = maxLength
  BY <1>1, <1>2 DEF List!ShiftDown
<1>4. maxLength \in Nat \ {0} /\ length \in Nat /\ length <= maxLength /\ array \in [Cells -> Things]
  BY DEF ListTypes, Cells
<1>5. size \in Nat /\ o \in Nat /\ o = (IF size > maxLength THEN size - maxLength ELSE 0) /\ size <= o + maxLength
  BY <1>1, <1>2, <1>4 DEF List!Overflow
<1>6. moved + 1 <= maxLength
  <2>1. CASE size > maxLength
    <3>1. o = size - maxLength /\ start + moved + 1 <= size
      BY <1>1, <1>4, <1>5, <2>1
    <3> QED
      BY <1>3, <1>4, <1>5, <3>1
  <2>2. CASE ~(size > maxLength)
    BY <1>1, <1>4, <1>5, <2>2
  <2> QED
    BY <2>1, <2>2
<1>7. PICK r : r = Onwards(array, start, moved, 1)
  OBVIOUS
<1>8. array' = r
  BY <1>3, <1>7 DEF Onwards
<1>9. /\ r \in [Cells -> Things]
      /\ \A q \in start..(start + moved - 1) : View(r, q + 1) = View(array, q)
      /\ \A q \in Nat : (\A p \in start..(start + moved - 1) : List!CyclicIndex(p + 1) # List!CyclicIndex(q))
                        => View(r, q) = View(array, q)
  <2>1. MovedOn(Onwards(array, start, moved, 1), array, start, moved, 1)
    BY <1>4, <1>6, CopiedOn
  <2>2. MovedOn(r, array, start, moved, 1)
    BY <1>7, <2>1
  <2> QED
    BY <2>2 DEF MovedOn
<1>10. /\ LinesNow \in Seq(Things) /\ Len(LinesNow) = length
       /\ \A q \in 0..(length - 1) : LinesNow[q + 1] = View(array, q)
  BY ViewsAreLines
<1>11. PICK t : t = SubSeq(LinesNow, start + 1, start + moved)
  OBVIOUS
<1>12. t \in Seq(Things) /\ Len(t) = moved /\ \A i \in 1..moved : t[i] = LinesNow[start + i]
  <2>1. PICK x, y : x = start + 1 /\ y = start + moved
    OBVIOUS
  <2>2. x \in Int /\ y \in Int /\ x <= y /\ y - x + 1 = moved /\ \A i \in x..y : i \in 1..length
    BY <1>3, <1>4, <2>1
  <2>3. \A i \in x..y : LinesNow[i] \in Things
    BY <1>10, <2>2, ElementOfSeq
  <2>4. /\ SubSeq(LinesNow, x, y) \in Seq(Things)
        /\ Len(SubSeq(LinesNow, x, y)) = IF x <= y THEN y - x + 1 ELSE 0
        /\ \A i \in 1..(y - x + 1) : SubSeq(LinesNow, x, y)[i] = LinesNow[x + i - 1]
    BY <2>2, <2>3, SubSeqProperties
  <2>5. \A i \in 1..moved : x + i - 1 = start + i
    BY <2>1
  <2> QED
    BY <1>11, <2>1, <2>2, <2>4, <2>5
<1>13. PICK m, n : m = start + 1 /\ n = start + moved + 1
  OBVIOUS
<1>14. m \in Nat /\ n \in Nat /\ m <= length
  BY <1>3, <1>4, <1>13
<1>15. PICK s : s = Joined(LinesNow, m, t, n)
  OBVIOUS
<1>16. /\ s \in Seq(Things)
       /\ Len(s) = m + Len(t) + (IF n <= Len(LinesNow) THEN Len(LinesNow) - n ELSE 0)
       /\ \A i \in 1..m : s[i] = LinesNow[i]
       /\ \A i \in (m + 1)..(m + Len(t)) : s[i] = t[i - m]
       /\ \A i \in (m + Len(t) + 1)..Len(s) : s[i] = LinesNow[n + (i - m - Len(t))]
  <2>1. IsJoined(Joined(LinesNow, m, t, n), LinesNow, m, t, n)
    BY <1>10, <1>12, <1>14, JoinedParts
  <2>2. IsJoined(s, LinesNow, m, t, n)
    BY <1>15, <2>1
  <2> QED
    BY <2>2 DEF IsJoined
<1>17. Len(s) = size
  <2>1. Len(s) = m + moved + (IF n <= length THEN length - n ELSE 0)
    BY <1>10, <1>12, <1>16
  <2>2. CASE start + moved + 1 > length
    BY <1>1, <1>3, <1>4, <1>13, <2>1, <2>2
  <2>3. CASE ~(start + moved + 1 > length)
    BY <1>1, <1>3, <1>4, <1>13, <2>1, <2>3
  <2> QED
    BY <2>2, <2>3
<1>18. ASSUME NEW q \in o..(size - 1) PROVE View(r, q) = s[q + 1]
  <2>1. q \in Nat /\ size - 1 < q + maxLength
    BY <1>4, <1>5
  <2>2. start + moved <= size - 1
    BY <1>1, <1>3, <1>4
  <2>3. CASE q <= start
    <3>1. ASSUME NEW p \in start..(start + moved - 1) PROVE List!CyclicIndex(p + 1) # List!CyclicIndex(q)
      <4>1. PICK x : x = p + 1
        OBVIOUS
      <4>2. x \in Nat /\ q < x /\ x < q + maxLength
        BY <1>4, <1>5, <2>1, <2>2, <2>3, <4>1
      <4> QED
        BY <2>1, <4>1, <4>2, CellParts
    <3>2. View(r, q) = View(array, q)
      BY <1>9, <2>1, <3>1
    <3>3. q + 1 \in 1..m /\ q \in 0..(length - 1)
      BY <1>3, <1>4, <1>13, <2>1, <2>3
    <3> QED
      BY <1>10, <1>16, <3>2, <3>3
  <2>4. CASE q > start /\ q <= start + moved
    <3>1. PICK p : p = q - 1
      OBVIOUS
    <3>2. p \in start..(start + moved - 1) /\ p + 1 = q /\ p \in 0..(length - 1)
      BY <1>3, <1>4, <2>1, <2>4, <3>1
    <3>3. View(r, q) = View(array, p)
      BY <1>9, <3>2
    <3>4. \A i \in (m + 1)..(m + moved) : s[i] = t[i - m]
      BY <1>12, <1>16
    <3>5. q + 1 \in (m + 1)..(m + moved) /\ (q + 1) - m = p - start + 1 /\ p - start + 1 \in 1..moved
      BY <1>13, <2>1, <2>4, <3>1
    <3>6. s[q + 1] = t[p - start + 1]
      BY <3>4, <3>5
    <3>7. start + (p - start + 1) = p + 1
      BY <3>2
    <3>8. t[p - start + 1] = LinesNow[p + 1]
      BY <1>12, <3>5, <3>7
    <3> QED
      BY <1>10, <3>2, <3>3, <3>6, <3>8
  <2>5. CASE q > start + moved
    <3>1. ASSUME NEW p \in start..(start + moved - 1) PROVE List!CyclicIndex(p + 1) # List!CyclicIndex(q)
      <4>1. PICK x : x = p + 1
        OBVIOUS
      <4>2. x \in Nat /\ x < q /\ q < x + maxLength
        <5>1. x \in Nat /\ x < q
          BY <2>1, <2>5, <4>1
        <5>2. q <= size - 1 /\ size <= o + maxLength /\ start >= o /\ x > start
          BY <1>3, <1>5, <4>1
        <5> QED
          BY <1>4, <1>5, <2>1, <5>1, <5>2
      <4> QED
        BY <2>1, <4>1, <4>2, CellParts
    <3>2. View(r, q) = View(array, q)
      BY <1>9, <2>1, <3>1
    <3>3. size = length /\ q \in 0..(length - 1)
      BY <1>1, <1>3, <1>4, <2>1, <2>5
    <3>4. \A i \in (m + moved + 1)..size : s[i] = LinesNow[n + (i - m - moved)]
      BY <1>12, <1>16, <1>17
    <3>5. PICK i : i = q + 1
      OBVIOUS
    <3>6. i \in (m + moved + 1)..size /\ n + (i - m - moved) = i
      <4>1. m = start + 1 /\ n = start + moved + 1 /\ i = q + 1
        BY <1>13, <3>5
      <4> QED
        BY <1>4, <1>5, <2>1, <2>5, <3>3, <4>1
    <3>7. s[i] = LinesNow[i]
      BY <3>4, <3>6
    <3> QED
      BY <1>10, <3>2, <3>3, <3>5, <3>7
  <2> QED
    BY <2>1, <2>3, <2>4, <2>5
<1>19. ListTypes' /\ List!Sequence!Becomes("shift", <<>>, s)
  <2>1. \A q \in o..(size - 1) : View(array', q) = s[q + 1]
    BY <1>8, <1>18
  <2>2. array' \in [Cells -> Things]
    BY <1>8, <1>9
  <2> QED
    BY <1>2, <1>3, <1>5, <1>16, <1>17, <2>1, <2>2, ShowsSequence
<1>20. start + moved <= Len(LinesNow)
  BY <1>3, <1>10
<1>21. s = List!Sequence!First(LinesNow, start + 1) \o SubSeq(LinesNow, start + 1, start + moved)
           \o List!Sequence!From(LinesNow, start + moved + 1)
  BY <1>11, <1>13, <1>15 DEF Joined
<1> QED
  BY <1>3, <1>19, <1>20, <1>21 DEF List!Sequence!ShiftDown, LinesNow

LEMMA ShiftUpShifts ==
  ASSUME ListTypes, NEW start \in Nat, NEW moved \in Nat, List!ShiftUp(start, moved)
  PROVE  ListTypes' /\ moved > 0 /\ List!Sequence!ShiftUp(start, moved)
<1>1. /\ moved > 0 /\ start > 0 /\ start + moved <= length
      /\ array' = List!Copied(array, List!Upwards(start, start + moved - 1, -1))
      /\ done' = List!Result("shift", <<>>, 0)
      /\ UNCHANGED <<startIndex, length, maxLength>>
  BY DEF List!ShiftUp
<1>2. /\ maxLength \in Nat \ {0} /\ length \in Nat /\ length <= maxLength /\ array \in [Cells -> Things]
      /\ startIndex \in Nat
  BY DEF ListTypes, Cells
<1>3. PICK m, n : m = start - 1 /\ n = start + moved - 1
  OBVIOUS
<1>4. m \in Nat /\ n \in Nat /\ m <= length /\ n <= length /\ moved + 1 <= maxLength /\ n = m + moved /\ start = m + 1
  BY <1>1, <1>2, <1>3
<1>5. List!Upwards(start, start + moved - 1, -1) = Back(m, moved, 1)
  <2>1. (start + moved - 1) - start + 1 = moved
    OBVIOUS
  <2>2. \A i \in 1..moved : start + i - 1 + (-1) = m + i - 1 /\ start + i - 1 = m + i - 1 + 1
    BY <1>4
  <2>3. [i \in 1..moved |-> <<start + i - 1 + (-1), start + i - 1>>] = [i \in 1..moved |-> <<m + i - 1, m + i - 1 + 1>>]
    BY <2>2
  <2> QED
    BY <2>1, <2>3 DEF List!Upwards, Back
<1>6. PICK r : r = List!Copied(array, Back(m, moved, 1))
  OBVIOUS
<1>7. array' = r
  BY <1>1, <1>5, <1>6
<1>8. /\ r \in [Cells -> Things]
      /\ \A q \in m..(m + moved - 1) : View(r, q) = View(array, q + 1)
      /\ \A q \in Nat : (\A p \in m..(m + moved - 1) : List!CyclicIndex(p) # List!CyclicIndex(q))
                        => View(r, q) = View(array, q)
  <2>1. MovedBack(List!Copied(array, Back(m, moved, 1)), array, m, moved, 1)
    BY <1>2, <1>4, CopiedBack
  <2>2. MovedBack(r, array, m, moved, 1)
    BY <1>6, <2>1
  <2> QED
    BY <2>2 DEF MovedBack
<1>9. /\ LinesNow \in Seq(Things) /\ Len(LinesNow) = length
      /\ \A q \in 0..(length - 1) : LinesNow[q + 1] = View(array, q)
  BY ViewsAreLines
<1>10. PICK t : t = SubSeq(LinesNow, start + 1, start + moved)
  OBVIOUS
<1>11. t \in Seq(Things) /\ Len(t) = moved /\ \A i \in 1..moved : t[i] = LinesNow[start + i]
  <2>1. PICK x, y : x = start + 1 /\ y = start + moved
    OBVIOUS
  <2>2. x \in Int /\ y \in Int /\ x <= y /\ y - x + 1 = moved /\ \A i \in x..y : i \in 1..length
    BY <1>1, <1>2, <2>1
  <2>3. \A i \in x..y : LinesNow[i] \in Things
    BY <1>9, <2>2, ElementOfSeq
  <2>4. /\ SubSeq(LinesNow, x, y) \in Seq(Things)
        /\ Len(SubSeq(LinesNow, x, y)) = IF x <= y THEN y - x + 1 ELSE 0
        /\ \A i \in 1..(y - x + 1) : SubSeq(LinesNow, x, y)[i] = LinesNow[x + i - 1]
    BY <2>2, <2>3, SubSeqProperties
  <2>5. \A i \in 1..moved : x + i - 1 = start + i
    BY <2>1
  <2> QED
    BY <1>10, <2>1, <2>2, <2>4, <2>5
<1>12. PICK s : s = Joined(LinesNow, m, t, n)
  OBVIOUS
<1>13. /\ s \in Seq(Things)
       /\ Len(s) = m + Len(t) + (IF n <= Len(LinesNow) THEN Len(LinesNow) - n ELSE 0)
       /\ \A i \in 1..m : s[i] = LinesNow[i]
       /\ \A i \in (m + 1)..(m + Len(t)) : s[i] = t[i - m]
       /\ \A i \in (m + Len(t) + 1)..Len(s) : s[i] = LinesNow[n + (i - m - Len(t))]
  <2>1. IsJoined(Joined(LinesNow, m, t, n), LinesNow, m, t, n)
    BY <1>4, <1>9, <1>11, JoinedParts
  <2>2. IsJoined(s, LinesNow, m, t, n)
    BY <1>12, <2>1
  <2> QED
    BY <2>2 DEF IsJoined
<1>14. Len(s) = length
  BY <1>2, <1>4, <1>9, <1>11, <1>13
<1>15. ASSUME NEW q \in 0..(length - 1) PROVE View(r, q) = s[q + 1]
  <2>1. q \in Nat /\ q < length
    BY <1>2
  <2>2. CASE q \in m..(m + moved - 1)
    <3>1. View(r, q) = View(array, q + 1)
      BY <1>8, <2>2
    <3>2. \A i \in (m + 1)..(m + moved) : s[i] = t[i - m]
      BY <1>11, <1>13
    <3>3. PICK i, j : i = q + 1 /\ j = q + 1 - m
      OBVIOUS
    <3>4. i \in (m + 1)..(m + moved) /\ i - m = j /\ j \in 1..moved /\ start + j = i + 1 /\ i \in 0..(length - 1)
      BY <1>1, <1>2, <1>4, <2>1, <2>2, <3>3
    <3>5. s[i] = t[j]
      BY <3>2, <3>4
    <3>6. t[j] = LinesNow[i + 1]
      BY <1>11, <3>4
    <3> QED
      BY <1>9, <3>1, <3>3, <3>4, <3>5, <3>6
  <2>3. CASE ~(q \in m..(m + moved - 1))
    <3>1. ASSUME NEW p \in m..(m + moved - 1) PROVE List!CyclicIndex(p) # List!CyclicIndex(q)
      <4>1. p \in Nat /\ p < length /\ (p < q \/ q < p)
        BY <1>1, <1>2, <1>4, <2>1, <2>3
      <4>2. q < p + maxLength /\ p < q + maxLength
        BY <1>2, <2>1, <4>1
      <4> QED
        BY <2>1, <4>1, <4>2, CellParts
    <3>2. View(r, q) = View(array, q)
      BY <1>8, <2>1, <3>1
    <3>3. PICK i : i = q + 1
      OBVIOUS
    <3>4. s[i] = LinesNow[i]
      <4>1. CASE q < m
        <5>1. i \in 1..m
          BY <1>4, <2>1, <3>3, <4>1
        <5> QED
          BY <1>13, <5>1
      <4>2. CASE ~(q < m)
        <5>1. \A j \in (m + moved + 1)..length : s[j] = LinesNow[n + (j - m - moved)]
          BY <1>11, <1>13, <1>14
        <5>2. i \in (m + moved + 1)..length /\ n + (i - m - moved) = i
          BY <1>2, <1>4, <2>1, <2>3, <3>3, <4>2
        <5> QED
          BY <5>1, <5>2
      <4> QED
        BY <4>1, <4>2
    <3> QED
      BY <1>9, <3>2, <3>3, <3>4
  <2> QED
    BY <2>2, <2>3
<1>16. ListTypes' /\ List!Sequence!Becomes("shift", <<>>, s)
  <2>1. List!Overflow(length) = 0
    BY <1>2 DEF List!Overflow
  <2>2. startIndex' = startIndex + 0 /\ length' = length - 0 /\ 0 \in Nat
    BY <1>1, <1>2
  <2>3. \A q \in 0..(length - 1) : View(array', q) = s[q + 1]
    BY <1>7, <1>15
  <2>4. array' \in [Cells -> Things]
    BY <1>7, <1>8
  <2> QED
    BY <1>1, <1>2, <1>13, <1>14, <2>1, <2>2, <2>3, <2>4, ShowsSequence
<1>17. start > 0 /\ start + moved <= Len(LinesNow)
  BY <1>1, <1>9
<1>18. s = List!Sequence!First(LinesNow, start - 1) \o SubSeq(LinesNow, start + 1, start + moved)
           \o List!Sequence!From(LinesNow, start + moved - 1)
  BY <1>3, <1>10, <1>12 DEF Joined
<1> QED
  BY <1>1, <1>16, <1>17, <1>18 DEF List!Sequence!ShiftUp, LinesNow

LEMMA InitList == List!ListInit => ListTypes /\ List!Sequence!Init
<1> SUFFICES ASSUME List!ListInit PROVE ListTypes /\ List!Sequence!Init
  OBVIOUS
<1>1. /\ maxLength \in 1..MaxMaxLength /\ array = [i \in 0..(maxLength - 1) |-> List!Hole]
      /\ startIndex = 0 /\ length = 0 /\ done = List!Result("new", <<>>, 0)
  BY DEF List!ListInit
<1>2. maxLength \in Nat \ {0}
  BY <1>1, ListAssumption
<1>3. ListTypes
  BY <1>1, <1>2 DEF ListTypes, Things
<1>4. LinesNow = <<>>
  BY <1>1 DEF LinesNow
<1> QED
  BY <1>1, <1>3, <1>4 DEF List!Sequence!Init, LinesNow, List!Result, List!Sequence!Result

ShortTexts == {<<>>} \cup {<<x>> : x \in Items} \cup {<<x, y>> : x \in Items, y \in Items}
LEMMA NextList == ListTypes /\ List!ListNext => ListTypes' /\ List!Sequence!Next
<1> SUFFICES ASSUME ListTypes, List!ListNext PROVE ListTypes' /\ List!Sequence!Next
  OBVIOUS
<1>1. length \in Nat /\ maxLength \in Nat /\ length <= maxLength
  BY DEF ListTypes
<1>2. ASSUME NEW item \in Items, List!push(item) PROVE ListTypes' /\ List!Sequence!Next
  BY <1>2, PushAppends DEF List!Sequence!Next
<1>3. ASSUME NEW i \in 0..(length - 1), NEW item \in Items, List!set(i, item) PROVE ListTypes' /\ List!Sequence!Next
  <2>1. ListTypes' /\ List!Sequence!Set(i, item)
    BY <1>3, SetSets
  <2>2. i \in 0..(maxLength - 1)
    BY <1>1
  <2> QED
    BY <2>1, <2>2 DEF List!Sequence!Next
<1>4. ASSUME List!recycle PROVE ListTypes' /\ List!Sequence!Next
  BY <1>4, RecycleTurns DEF List!Sequence!Next
<1>5. ASSUME List!pop PROVE ListTypes' /\ List!Sequence!Next
  BY <1>5, PopTakesLast DEF List!Sequence!Next
<1>6. ASSUME NEW n \in 0..maxLength, List!Shorten(n) \/ List!trimStart(n) PROVE ListTypes' /\ List!Sequence!Next
  <2>1. n \in Nat
    BY <1>1
  <2>2. ListTypes' /\ (List!Sequence!Shorten(n) \/ List!Sequence!TrimStart(n))
    BY <1>6, <2>1, ShortenLeavesFirst, TrimLeavesLast
  <2> QED
    BY <2>2 DEF List!Sequence!Next
<1>7. ASSUME NEW start \in 0..length, NEW taken \in 0..length, NEW items \in ShortTexts, List!splice(start, taken, items)
      PROVE  ListTypes' /\ List!Sequence!Next
  <2>1. start \in Nat /\ taken \in Nat /\ start \in 0..maxLength /\ taken \in 0..maxLength
    BY <1>1
  <2>2. items \in Seq(Items)
    <3>1. CASE items = <<>>
      BY <3>1
    <3>2. ASSUME NEW x \in Items, items = <<x>> PROVE items \in Seq(Items)
      BY <3>2
    <3>3. ASSUME NEW x \in Items, NEW y \in Items, items = <<x, y>> PROVE items \in Seq(Items)
      BY <3>3
    <3> QED
      BY <3>1, <3>2, <3>3 DEF ShortTexts
  <2>3. ListTypes' /\ List!Sequence!Splice(start, taken, items)
    BY <1>7, <2>1, <2>2, SpliceSplices
  <2> QED
    BY <2>1, <2>3 DEF List!Sequence!Next, ShortTexts
<1>8. ASSUME NEW start \in 0..length, NEW moved \in 0..length, List!ShiftDown(start, moved) \/ List!ShiftUp(start, moved)
      PROVE  ListTypes' /\ List!Sequence!Next
  <2>1. start \in Nat /\ moved \in Nat /\ start \in 0..maxLength /\ moved \in 0..maxLength
    BY <1>1
  <2>2. ListTypes' /\ moved > 0 /\ (List!Sequence!ShiftDown(start, moved) \/ List!Sequence!ShiftUp(start, moved))
    BY <1>8, <2>1, ShiftDownShifts, ShiftUpShifts
  <2> QED
    BY <2>1, <2>2 DEF List!Sequence!Next
<1>9. ASSUME NEW n \in 1..MaxMaxLength, List!SetMaxLength(n) PROVE ListTypes' /\ List!Sequence!Next
  <2>1. n \in Nat \ {0}
    BY ListAssumption
  <2> QED
    BY <1>9, <2>1, SetMaxLengthKeeps DEF List!Sequence!Next
<1>10. \/ \E item \in Items : List!push(item)
       \/ \E i \in 0..(length - 1), item \in Items : List!set(i, item)
       \/ List!recycle \/ List!pop
       \/ \E n \in 0..maxLength : List!Shorten(n) \/ List!trimStart(n)
       \/ \E start \in 0..length, taken \in 0..length, items \in ShortTexts : List!splice(start, taken, items)
       \/ \E start \in 0..length, moved \in 0..length : List!ShiftDown(start, moved) \/ List!ShiftUp(start, moved)
       \/ \E n \in 1..MaxMaxLength : List!SetMaxLength(n)
  BY DEF List!ListNext, ShortTexts
<1> QED
  BY <1>2, <1>3, <1>4, <1>5, <1>6, <1>7, <1>8, <1>9, <1>10

LEMMA ListKept == ListTypes /\ UNCHANGED listVars => ListTypes' /\ UNCHANGED <<LinesNow, maxLength, done>>
BY DEF ListTypes, listVars, Things, List!Hole, LinesNow, List!Get, List!CyclicIndex

LEMMA StepList == ListTypes /\ [MCNext]_allVars => ListTypes' /\ [List!Sequence!Next]_<<LinesNow, maxLength, done>>
<1> SUFFICES ASSUME ListTypes, [MCNext]_allVars PROVE ListTypes' /\ [List!Sequence!Next]_<<LinesNow, maxLength, done>>
  OBVIOUS
<1>1. List!ListNext \/ UNCHANGED listVars
  BY DEF MCNext, OnlySelection, OnlyKeys, OnlyComposition, OnlyDrawing, OnlyScrollbar, allVars
<1> QED
  BY <1>1, NextList, ListKept


-----------------------------------------------------------------------------
LEMMA ComposedNext == ComposedInv /\ Typed!CompositionNext => ComposedInv'
<1> SUFFICES ASSUME ComposedInv, Typed!CompositionNext PROVE ComposedInv'
  OBVIOUS
<1>1. hurried' \in BOOLEAN
  BY DEF ComposedInv, Typed!CompositionNext, Typed!Start, Typed!Update, Typed!Done, Typed!Insert, Typed!Key,
         Typed!Blur, Typed!Timer, Typed!Hurries
<1>2. ASSUME ~hurried' PROVE Texts3' /\ Phases'
  BY <1>2, StartComposed, UpdateComposed, DoneComposed, InsertComposed, KeyComposed, BlurComposed, TimerComposed
     DEF Typed!CompositionNext
<1> QED
  BY <1>1, <1>2 DEF ComposedInv

-----------------------------------------------------------------------------
(* The parts together: a step is one part's, and leaves the others as they *)
(* are.                                                                    *)
WidgetsInv == SelInv /\ BarInv /\ KeysInv /\ ComposedInv /\ ListTypes

LEMMA SelectionKept == SelInv /\ UNCHANGED vars => SelInv'
<1> SUFFICES ASSUME SelInv, UNCHANGED vars PROVE SelInv'
  OBVIOUS
<1>1. SelTypes /\ Dragged /\ HighlightIsSelection /\ Held
  BY DEF SelInv
<1>2. /\ UNCHANGED <<slots, first, count, ydisp>> /\ UNCHANGED <<sel, mode, enabled, drag, timers, current, listening, held>>
      /\ UNCHANGED <<frame, shown, chosen, slid, cleared, unreleased, emptied, failed>>
  BY DEF vars, bufferVars, mouseVars, historyVars
<1>3. SelTypes'
  BY <1>1, <1>2 DEF SelTypes
<1>4. Dragged'
  BY <1>1, <1>2 DEF Dragged
<1>5. HighlightIsSelection'
  <2>1. Highlight' = Highlight
    BY <1>2, HighlightSame
  <2> QED
    BY <1>1, <1>2, <2>1 DEF HighlightIsSelection
<1>6. Held'
  BY <1>1, <1>2, HeldSame
<1> QED
  BY <1>3, <1>4, <1>5, <1>6 DEF SelInv

LEMMA BarKept == BarInv /\ UNCHANGED scrollbarVars => BarInv'
BY DEF BarInv, BarTypes, scrollbarVars, Bar!Wanted, Bar!Lowest

LEMMA KeysKept == KeysInv /\ UNCHANGED keyboardVars => KeysInv'
<1> SUFFICES ASSUME KeysInv, UNCHANGED keyboardVars PROVE KeysInv'
  OBVIOUS
<1>1. UNCHANGED <<isMac, isWindows, macOptionIsMeta, pressed>>
  BY DEF keyboardVars
<1>2. pressed' # Keys!NoPress => Sent(pressed'[1], pressed'[2])
  BY <1>1 DEF KeysInv
<1> QED
  BY <1>1, <1>2 DEF KeysInv, Sent, Tells, Third, Keys!IsThirdLevelShift, Keys!Told

LEMMA ComposedKept == ComposedInv /\ UNCHANGED compositionVars => ComposedInv'
<1> SUFFICES ASSUME ComposedInv, UNCHANGED compositionVars PROVE ComposedInv'
  OBVIOUS
<1>1. UNCHANGED <<value, composed, isComposing, isSendingComposition, position, putOff, signs, meant, sent, late, hurried>>
  BY DEF compositionVars
<1>2. Texts3 => Texts3'
  BY <1>1 DEF Texts3
<1>3. Idle => Idle'
  BY <1>1 DEF Idle
<1>4. Inserted => Inserted'
  BY <1>1 DEF Inserted
<1>5. Composing => Composing'
  BY <1>1 DEF Composing
<1>6. Sending => Sending'
  BY <1>1 DEF Sending, ToSend
<1>7. Both => Both'
  BY <1>1 DEF Both
<1>8. Twice => Twice'
  BY <1>1 DEF Twice, ToSend
<1> QED
  BY <1>1, <1>2, <1>3, <1>4, <1>5, <1>6, <1>7, <1>8 DEF ComposedInv, Phases

LEMMA WidgetsInit == MCInit => WidgetsInv
BY InitSelection, InitBar, InitKeys, InitComposed, InitList DEF MCInit, WidgetsInv

LEMMA WidgetsNext == WidgetsInv /\ [MCNext]_allVars => WidgetsInv'
<1> SUFFICES ASSUME WidgetsInv, [MCNext]_allVars PROVE WidgetsInv'
  OBVIOUS
<1>1. SelInv /\ BarInv /\ KeysInv /\ ComposedInv /\ ListTypes'
  BY StepList DEF WidgetsInv
<1>2. CASE part = "selection" /\ OnlySelection /\ Next
  BY <1>1, <1>2, SelectionNext, BarKept, KeysKept, ComposedKept DEF OnlySelection, WidgetsInv
<1>3. CASE part = "keys" /\ OnlyKeys /\ Keys!KeyboardNext
  BY <1>1, <1>3, SelectionKept, BarKept, KeysNext, ComposedKept DEF OnlyKeys, WidgetsInv
<1>4. CASE part = "composition" /\ OnlyComposition /\ Typed!CompositionNext
  BY <1>1, <1>4, SelectionKept, BarKept, KeysKept, ComposedNext DEF OnlyComposition, WidgetsInv
<1>5. CASE part = "drawing" /\ OnlyDrawing /\ Canvas!DrawingNext
  BY <1>1, <1>5, SelectionKept, BarKept, KeysKept, ComposedKept DEF OnlyDrawing, WidgetsInv
<1>6. CASE part = "scrollbar" /\ OnlyScrollbar /\ Bar!ScrollbarNext
  BY <1>1, <1>6, SelectionKept, BarNext, KeysKept, ComposedKept DEF OnlyScrollbar, WidgetsInv
<1>7. CASE part = "list" /\ OnlyList /\ List!ListNext
  BY <1>1, <1>7, SelectionKept, BarKept, KeysKept, ComposedKept DEF OnlyList, WidgetsInv
<1>8. CASE UNCHANGED allVars
  BY <1>1, <1>8, SelectionKept, BarKept, KeysKept, ComposedKept DEF allVars, WidgetsInv
<1> QED
  BY <1>2, <1>3, <1>4, <1>5, <1>6, <1>7, <1>8 DEF MCNext

(* Whatever the parts do, the selection, the bar, the keys, the composed   *)
(* signs and the list keep what the parts' invariants say of them.         *)
THEOREM WidgetsInvariant == MCSpec => []WidgetsInv
<1>1. MCInit => WidgetsInv
  BY WidgetsInit
<1>2. WidgetsInv /\ [MCNext]_allVars => WidgetsInv'
  BY WidgetsNext
<1> QED
  BY <1>1, <1>2, PTL DEF MCSpec

(* A key is sent once, and what it sends tells which special key it was    *)
(* and what was held with it; what an input method composes is sent once   *)
(* and in order, by a callback or by the key that comes before it          *)
(* (Terminal._keyDown, CompositionHelper).                                 *)
THEOREM TypedAlwaysOnce == MCSpec => []TypedOnce
<1>1. WidgetsInv => TypedOnce
  BY KeysHold, ComposedHolds DEF WidgetsInv, TypedOnce
<1> QED
  BY <1>1, WidgetsInvariant, PTL

(* When neither a scroll event nor a frame is to come, the bar is within   *)
(* half a row of where the display is (Viewport).                          *)
THEOREM BarAlwaysWhereDisplayIs == MCSpec => []BarIsWhereDisplayIs
<1>1. WidgetsInv => BarIsWhereDisplayIs
  BY DEF WidgetsInv, BarInv, BarTypes, BarIsWhereDisplayIs, Bar!BarIsWhereDisplayIs, Bar!Quiet
<1> QED
  BY <1>1, WidgetsInvariant, PTL

(* What copying gives is part of what was selected, unless the selection   *)
(* slid or the terminal was cleared under it; what is highlighted is what  *)
(* copying gives; a drag ends with the button, and fails only when what    *)
(* was being selected is gone (SelectionManager, SelectionModel).          *)
THEOREM SelectionAlwaysHolds == MCSpec => []SelectionHolds
<1>1. WidgetsInv => SelectionHolds
  <2> SUFFICES ASSUME WidgetsInv PROVE SelectionHolds
    OBVIOUS
  <2>1. SelTypes /\ Dragged /\ HighlightIsSelection /\ CopiedIsChosen
    BY DEF WidgetsInv, SelInv, Held
  <2>2. timers \in Nat /\ current \in BOOLEAN /\ listening \in BOOLEAN /\ held \in BOOLEAN
    BY <2>1 DEF SelTypes
  <2>3. DragEnds
    <3>1. ASSUME ~held, ~unreleased PROVE timers = 0 /\ ~listening
      <4>1. timers = (IF current THEN 1 ELSE 0) /\ listening = current /\ (listening => held)
        BY <2>1, <3>1 DEF Dragged
      <4> QED
        BY <2>2, <3>1, <4>1
    <3>2. failed => emptied \/ unreleased
      BY <2>1 DEF Dragged
    <3> QED
      BY <3>1, <3>2 DEF DragEnds
  <2> QED
    BY <2>1, <2>3 DEF SelectionHolds
<1> QED
  BY <1>1, WidgetsInvariant, PTL

(* The list of the lines, written in a circle and moved place by place,    *)
(* does what a sequence of at most maxLength lines does: what each         *)
(* operation leaves, returns and tells of as trimmed is the sequence's     *)
(* (CircularList).                                                         *)
THEOREM ListRefines == MCSpec => ListImplementsSequence
<1>1. MCInit => List!Sequence!Init
  BY InitList DEF MCInit
<1>2. WidgetsInv /\ [MCNext]_allVars => [List!Sequence!Next]_<<LinesNow, maxLength, done>>
  BY StepList DEF WidgetsInv
<1> QED
  BY <1>1, <1>2, WidgetsInvariant, PTL
     DEF MCSpec, ListImplementsSequence, List!ListImplementsSequence, List!Sequence!Spec, LinesNow
=============================================================================
