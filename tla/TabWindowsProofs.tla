-------------------------- MODULE TabWindowsProofs --------------------------
(***************************************************************************)
(* Proofs that the tabs stay partitioned among the windows, and that a     *)
(* window goes on showing the tab it shows: first what the operations on   *)
(* sequences do to each position, then what the operations on one window   *)
(* keep, then what they keep of all the windows, then the steps.           *)
(***************************************************************************)
EXTENDS TabWindows, TLAPS

-----------------------------------------------------------------------------
(* Sequences *)

(* The elements of a concatenation.                                        *)
LEMMA ConcatSeq ==
    ASSUME NEW S, NEW a \in Seq(S), NEW b \in Seq(S)
    PROVE  /\ a \o b \in Seq(S)
           /\ Len(a \o b) = Len(a) + Len(b)
           /\ \A i \in 1..(Len(a) + Len(b)) :
                (a \o b)[i] = IF i <= Len(a) THEN a[i] ELSE b[i - Len(a)]
<1>1. a \o b \in Seq(S)
  OBVIOUS
<1>2. Len(a \o b) = Len(a) + Len(b)
  OBVIOUS
<1>3. \A i \in 1..(Len(a) + Len(b)) :
        (a \o b)[i] = IF i <= Len(a) THEN a[i] ELSE b[i - Len(a)]
  OBVIOUS
<1> QED
  BY <1>1, <1>2, <1>3

(* RemoveAt moves what follows p one position forward.                     *)
LEMMA RemoveAtSeq ==
    ASSUME NEW S, NEW s \in Seq(S), NEW p \in 1..Len(s)
    PROVE  /\ RemoveAt(s, p) \in Seq(S)
           /\ Len(RemoveAt(s, p)) = Len(s) - 1
           /\ \A i \in 1..(Len(s) - 1) :
                RemoveAt(s, p)[i] = IF i < p THEN s[i] ELSE s[i + 1]
<1> DEFINE n == Len(s)
           a == SubSeq(s, 1, p - 1)
           b == SubSeq(s, p + 1, n)
<1>1. n \in Nat /\ p \in 1..n
  OBVIOUS
<1>2. a \in Seq(S) /\ Len(a) = p - 1 /\ \A i \in 1..(p - 1) : a[i] = s[i]
  BY <1>1
<1>3. b \in Seq(S) /\ Len(b) = n - p /\ \A i \in 1..(n - p) : b[i] = s[p + i]
  BY <1>1
<1>4. RemoveAt(s, p) = a \o b
  BY DEF RemoveAt
<1> HIDE DEF n, a, b
<1>5. /\ a \o b \in Seq(S) /\ Len(a \o b) = n - 1
      /\ \A i \in 1..(n - 1) : (a \o b)[i] = IF i < p THEN a[i] ELSE b[i - (p - 1)]
  <2>1. (p - 1) + (n - p) = n - 1 /\ \A i \in 1..(n - 1) : i <= p - 1 <=> i < p
    BY <1>1
  <2> QED
    <3>1. /\ a \o b \in Seq(S)
          /\ Len(a \o b) = Len(a) + Len(b)
          /\ \A i \in 1..(Len(a) + Len(b)) :
               (a \o b)[i] = IF i <= Len(a) THEN a[i] ELSE b[i - Len(a)]
      BY <1>2, <1>3, ConcatSeq, Zenon
    <3>2. Len(a) + Len(b) = n - 1 /\ Len(a) = p - 1
      BY <1>2, <1>3, <2>1
    <3>3. \A i \in 1..(n - 1) : (a \o b)[i] = IF i <= p - 1 THEN a[i] ELSE b[i - (p - 1)]
      BY <3>1, <3>2, Zenon
    <3> QED
      BY <2>1, <3>1, <3>2, <3>3, Zenon
<1>6. ASSUME NEW i \in 1..(n - 1)
      PROVE  (a \o b)[i] = IF i < p THEN s[i] ELSE s[i + 1]
  <2>1. CASE i < p
    BY <1>1, <1>2, <1>5, <2>1
  <2>2. CASE ~(i < p)
    <3>1. i - (p - 1) \in 1..(n - p) /\ p + (i - (p - 1)) = i + 1
      BY <1>1, <2>2
    <3> QED
      BY <1>3, <1>5, <2>2, <3>1
  <2> QED
    BY <2>1, <2>2
<1> QED
  BY <1>4, <1>5, <1>6 DEF n

(* What is at i once e is inserted at p.                                   *)
InsertedAt(s, p, e, i) == IF i < p THEN s[i] ELSE IF i = p THEN e ELSE s[i - 1]

(* InsertAt moves what was at p and after it one position back.            *)
LEMMA InsertAtSeq ==
    ASSUME NEW S, NEW s \in Seq(S), NEW p \in 1..(Len(s) + 1), NEW e \in S
    PROVE  /\ InsertAt(s, p, e) \in Seq(S)
           /\ Len(InsertAt(s, p, e)) = Len(s) + 1
           /\ \A i \in 1..(Len(s) + 1) :
                InsertAt(s, p, e)[i] = InsertedAt(s, p, e, i)
<1> DEFINE n == Len(s)
           a == SubSeq(s, 1, p - 1)
           b == SubSeq(s, p, n)
           c == a \o <<e>>
<1>1. n \in Nat /\ p \in 1..(n + 1)
  OBVIOUS
<1>2. a \in Seq(S) /\ Len(a) = p - 1 /\ \A i \in 1..(p - 1) : a[i] = s[i]
  BY <1>1
<1>3. b \in Seq(S) /\ Len(b) = (n - p) + 1 /\ \A i \in 1..((n - p) + 1) : b[i] = s[(p + i) - 1]
  BY <1>1
<1>4. InsertAt(s, p, e) = c \o b
  BY DEF InsertAt
<1>5. <<e>> \in Seq(S) /\ Len(<<e>>) = 1 /\ <<e>>[1] = e
  OBVIOUS
<1> HIDE DEF n, a, b
<1>6. /\ c \in Seq(S) /\ Len(c) = p
      /\ \A i \in 1..p : c[i] = IF i < p THEN s[i] ELSE e
  BY <1>1, <1>2, <1>5
<1> HIDE DEF c
<1>7. /\ c \o b \in Seq(S) /\ Len(c \o b) = n + 1
      /\ \A i \in 1..(n + 1) : (c \o b)[i] = IF i <= p THEN c[i] ELSE b[i - p]
  <2>1. p + ((n - p) + 1) = n + 1
    BY <1>1
  <2> QED
    <3>1. /\ c \o b \in Seq(S)
          /\ Len(c \o b) = Len(c) + Len(b)
          /\ \A i \in 1..(Len(c) + Len(b)) :
               (c \o b)[i] = IF i <= Len(c) THEN c[i] ELSE b[i - Len(c)]
      BY <1>3, <1>6, ConcatSeq, Zenon
    <3>2. Len(c) + Len(b) = n + 1 /\ Len(c) = p
      BY <1>3, <1>6, <2>1
    <3> QED
      BY <3>1, <3>2, Zenon
<1>8. ASSUME NEW i \in 1..(n + 1)
      PROVE  (c \o b)[i] = InsertedAt(s, p, e, i)
  <2>1. CASE i <= p
    BY <1>1, <1>6, <1>7, <2>1 DEF InsertedAt
  <2>2. CASE ~(i <= p)
    <3>1. i - p \in 1..((n - p) + 1) /\ (p + (i - p)) - 1 = i - 1
      BY <1>1, <2>2
    <3> QED
      BY <1>1, <1>3, <1>7, <2>2, <3>1 DEF InsertedAt
  <2> QED
    BY <2>1, <2>2
<1> QED
  BY <1>4, <1>7, <1>8 DEF n

-----------------------------------------------------------------------------
(* One window *)

Window == [tabs : Seq(TabIds), current : Nat]

(* The tabs a window lists, and that it lists none twice.                  *)
Listed(w) == Range(w.tabs)
Injective(s) == \A i, j \in 1..Len(s) : s[i] = s[j] => i = j

(* A window that shows one of its tabs, if it has any.                     *)
Good(w) == Injective(w.tabs) /\ (w.tabs # << >> => w.current \in 1..Len(w.tabs))

(* What ShownTabKept says of one window.                                   *)
Kept(w, u) ==
    ( /\ u.tabs # w.tabs
      /\ Range(u.tabs) \subseteq Range(w.tabs)
      /\ Shown(w) \in Range(u.tabs) ) => Shown(u) = Shown(w)

(* The tabs a window lists are the ones at its positions.                  *)
LEMMA ListedAt ==
    ASSUME NEW w \in Window
    PROVE  /\ w.tabs \in Seq(TabIds) /\ Len(w.tabs) \in Nat /\ w.current \in Nat
           /\ \A t : t \in Listed(w) <=> \E i \in 1..Len(w.tabs) : w.tabs[i] = t
           /\ \A i \in 1..Len(w.tabs) : w.tabs[i] \in Listed(w) /\ w.tabs[i] \in TabIds
<1>1. w.tabs \in Seq(TabIds) /\ w.current \in Nat
  BY DEF Window
<1>2. Len(w.tabs) \in Nat /\ DOMAIN w.tabs = 1..Len(w.tabs)
  BY <1>1
<1>3. \A i \in 1..Len(w.tabs) : w.tabs[i] \in TabIds
  BY <1>1
<1>4. Listed(w) = {w.tabs[i] : i \in 1..Len(w.tabs)}
  BY <1>2 DEF Listed, Range
<1> QED
  BY <1>1, <1>2, <1>3, <1>4

(* A listed tab has a position.                                            *)
LEMMA PositionFound ==
    ASSUME NEW w \in Window, NEW t \in Listed(w)
    PROVE  PositionOf(w, t) \in 1..Len(w.tabs) /\ w.tabs[PositionOf(w, t)] = t
<1>1. \E i \in 1..Len(w.tabs) : w.tabs[i] = t
  BY ListedAt
<1> QED
  BY <1>1 DEF PositionOf

(* A new window lists nothing.                                             *)
LEMMA EmptyWindow ==
    /\ NewWindow \in Window /\ NewWindow.tabs = << >> /\ NewWindow.current = 1
    /\ Listed(NewWindow) = {} /\ Injective(NewWindow.tabs)
<1>1. NewWindow.tabs = << >> /\ NewWindow.current = 1
  BY DEF NewWindow
<1>2. << >> \in Seq(TabIds) /\ Len(<< >>) = 0 /\ \A j \in 1..0 : FALSE
  OBVIOUS
<1>3. NewWindow \in Window
  BY <1>2 DEF NewWindow, Window
<1>4. Listed(NewWindow) = {}
  BY <1>1, <1>2, <1>3, ListedAt
<1> QED
  BY <1>1, <1>2, <1>3, <1>4 DEF Injective

(* Appending a tab that the window does not list.                          *)
LEMMA Appended ==
    ASSUME NEW w \in Window, NEW t \in TabIds, t \notin Listed(w), Injective(w.tabs),
           NEW u \in Window, u.tabs = Append(w.tabs, t)
    PROVE  /\ Injective(u.tabs) /\ Listed(u) = Listed(w) \cup {t}
           /\ Len(u.tabs) = Len(w.tabs) + 1 /\ u.tabs[Len(u.tabs)] = t
<1> DEFINE s == w.tabs
           n == Len(s)
           r == u.tabs
<1>1. /\ s \in Seq(TabIds) /\ n \in Nat /\ \A i \in 1..n : s[i] # t
      /\ \A x : x \in Listed(w) <=> \E i \in 1..n : s[i] = x
  BY ListedAt
<1>2. Len(r) = n + 1 /\ r[n + 1] = t /\ \A i \in 1..n : r[i] = s[i]
  BY <1>1
<1>3. \A x : x \in Listed(u) <=> \E i \in 1..(n + 1) : r[i] = x
  <2>1. \A x : x \in Listed(u) <=> \E i \in 1..Len(r) : r[i] = x
    BY ListedAt, Zenon
  <2> HIDE DEF r, n
  <2> QED
    BY <1>2, <2>1, Zenon
<1>4. \A i, j \in 1..n : s[i] = s[j] => i = j
  BY DEF Injective
<1> HIDE DEF s, n, r
<1>5. \A i \in 1..(n + 1) : i \in 1..n \/ i = n + 1
  BY <1>1
<1>6. 1..n \subseteq 1..(n + 1) /\ n + 1 \in 1..(n + 1)
  BY <1>1
<1>7. \A i, j \in 1..(n + 1) : r[i] = r[j] => i = j
  BY <1>1, <1>2, <1>4, <1>5
<1>8. \A x : x \in Listed(u) <=> x \in Listed(w) \/ x = t
  BY <1>1, <1>2, <1>3, <1>5, <1>6
<1> QED
  BY <1>2, <1>7, <1>8 DEF Injective, r, s, n

(* Window::add_tab appends the tab and shows it.                           *)
LEMMA AddedTab ==
    ASSUME NEW w \in Window, NEW t \in TabIds, t \notin Listed(w), Injective(w.tabs)
    PROVE  /\ AddTab(w, t) \in Window /\ Good(AddTab(w, t))
           /\ Listed(AddTab(w, t)) = Listed(w) \cup {t}
           /\ Kept(w, AddTab(w, t))
<1>1. w.tabs \in Seq(TabIds) /\ Len(w.tabs) \in Nat
  BY ListedAt
<1>2. /\ AddTab(w, t).tabs = Append(w.tabs, t)
      /\ AddTab(w, t).current = Len(w.tabs) + 1
  BY DEF AddTab
<1>3. AddTab(w, t) \in Window
  BY <1>1 DEF AddTab, Window
<1>4. /\ Injective(AddTab(w, t).tabs) /\ Listed(AddTab(w, t)) = Listed(w) \cup {t}
      /\ Len(AddTab(w, t).tabs) = Len(w.tabs) + 1
  BY <1>2, <1>3, Appended
<1>5. Good(AddTab(w, t))
  BY <1>1, <1>2, <1>4 DEF Good
<1>6. ~(Range(AddTab(w, t).tabs) \subseteq Range(w.tabs))
  BY <1>4 DEF Listed
<1> QED
  BY <1>3, <1>4, <1>5, <1>6 DEF Kept

(* The window made for a tab that moves out.                               *)
LEMMA MovedOut ==
    ASSUME NEW t \in TabIds
    PROVE  /\ InsertTabAt(NewWindow, 1, t) \in Window /\ Good(InsertTabAt(NewWindow, 1, t))
           /\ Listed(InsertTabAt(NewWindow, 1, t)) = {t}
<1> DEFINE u == InsertTabAt(NewWindow, 1, t)
<1>1. Len(<< >>) = 0 /\ 1 > 0
  OBVIOUS
<1>2. u = [NewWindow EXCEPT !.tabs = Append(@, t)]
  BY <1>1, EmptyWindow DEF InsertTabAt
<1>3. u.tabs = Append(NewWindow.tabs, t) /\ u.current = 1
  BY <1>2 DEF NewWindow
<1>4. Append(<< >>, t) \in Seq(TabIds) /\ 1 \in Nat
  OBVIOUS
<1>5. u \in Window
  BY <1>2, <1>4 DEF NewWindow, Window
<1> HIDE DEF u
<1>6. /\ Injective(u.tabs) /\ Listed(u) = Listed(NewWindow) \cup {t}
      /\ Len(u.tabs) = Len(NewWindow.tabs) + 1
  BY <1>3, <1>5, EmptyWindow, Appended
<1>7. Len(u.tabs) = 1
  BY <1>1, <1>6, EmptyWindow
<1>8. Good(u) /\ Listed(u) = {t}
  BY <1>3, <1>6, <1>7, EmptyWindow DEF Good
<1> QED
  BY <1>5, <1>8 DEF u

(* Inserting a tab that the window does not list.                          *)
LEMMA Inserted ==
    ASSUME NEW w \in Window, NEW t \in TabIds, t \notin Listed(w), Injective(w.tabs),
           NEW p \in 1..Len(w.tabs),
           NEW u \in Window, u.tabs = InsertAt(w.tabs, p, t)
    PROVE  Injective(u.tabs) /\ Listed(u) = Listed(w) \cup {t}
<1> DEFINE s == w.tabs
           n == Len(s)
           r == u.tabs
<1>1. /\ s \in Seq(TabIds) /\ n \in Nat /\ \A i \in 1..n : s[i] # t
      /\ \A x : x \in Listed(w) <=> \E i \in 1..n : s[i] = x
  BY ListedAt
<1>2. p \in 1..n /\ p \in 1..(n + 1)
  BY <1>1
<1>3. /\ Len(r) = n + 1
      /\ \A i \in 1..(n + 1) : r[i] = IF i < p THEN s[i] ELSE IF i = p THEN t ELSE s[i - 1]
  <2>1. r = InsertAt(s, p, t) /\ s \in Seq(TabIds) /\ p \in 1..(Len(s) + 1)
    BY <1>1, <1>2
  <2> HIDE DEF r, s
  <2>2. /\ Len(InsertAt(s, p, t)) = Len(s) + 1
        /\ \A i \in 1..(Len(s) + 1) : InsertAt(s, p, t)[i] = InsertedAt(s, p, t, i)
    BY <2>1, InsertAtSeq, Zenon
  <2>3. Len(r) = n + 1 /\ \A i \in 1..(n + 1) : r[i] = InsertedAt(s, p, t, i)
    BY <2>1, <2>2, Zenon
  <2> HIDE DEF n
  <2> QED
    BY <2>3 DEF InsertedAt
<1>4. \A x : x \in Listed(u) <=> \E i \in 1..(n + 1) : r[i] = x
  <2>1. \A x : x \in Listed(u) <=> \E i \in 1..Len(r) : r[i] = x
    BY ListedAt, Zenon
  <2> HIDE DEF r, n
  <2> QED
    BY <1>3, <2>1, Zenon
<1>5. \A i, j \in 1..n : s[i] = s[j] => i = j
  BY DEF Injective
<1> HIDE DEF s, n, r
<1>6. ASSUME NEW i \in 1..(n + 1)
      PROVE  \/ i < p /\ i \in 1..n /\ r[i] = s[i]
             \/ i = p /\ r[i] = t
             \/ i > p /\ i - 1 \in 1..n /\ r[i] = s[i - 1]
  BY <1>1, <1>2, <1>3
<1>7. ASSUME NEW i \in 1..(n + 1), NEW j \in 1..(n + 1), r[i] = r[j]
      PROVE  i = j
  <2>1. /\ \/ i < p /\ i \in 1..n /\ r[i] = s[i]
           \/ i = p /\ r[i] = t
           \/ i > p /\ i - 1 \in 1..n /\ r[i] = s[i - 1]
        /\ \/ j < p /\ j \in 1..n /\ r[j] = s[j]
           \/ j = p /\ r[j] = t
           \/ j > p /\ j - 1 \in 1..n /\ r[j] = s[j - 1]
    BY <1>6
  <2>2. \/ i < p /\ j < p /\ i = j
        \/ i < p /\ j > p /\ i = j - 1
        \/ i = p /\ j = p
        \/ i > p /\ j < p /\ i - 1 = j
        \/ i > p /\ j > p /\ i - 1 = j - 1
    BY <1>1, <1>5, <1>7, <2>1
  <2> QED
    BY <1>1, <1>2, <2>2
<1>8. ASSUME NEW k \in 1..n
      PROVE  \E i \in 1..(n + 1) : r[i] = s[k]
  <2>1. CASE k < p
    BY <1>1, <1>2, <1>3, <2>1
  <2>2. CASE k >= p
    <3>1. k + 1 \in 1..(n + 1) /\ (k + 1) - 1 = k /\ ~(k + 1 < p) /\ k + 1 # p
      BY <1>1, <1>2, <2>2
    <3> QED
      BY <1>3, <3>1
  <2> QED
    BY <1>1, <1>2, <2>1, <2>2
<1>9. ASSUME NEW x
      PROVE  x \in Listed(u) <=> x \in Listed(w) \/ x = t
  <2>1. ASSUME x \in Listed(u)
        PROVE  x \in Listed(w) \/ x = t
    <3>1. PICK i \in 1..(n + 1) : r[i] = x
      BY <1>4, <2>1
    <3> QED
      BY <1>1, <1>6, <3>1
  <2>2. ASSUME x \in Listed(w)
        PROVE  x \in Listed(u)
    BY <1>1, <1>4, <1>8, <2>2
  <2>3. t \in Listed(u)
    BY <1>2, <1>3, <1>4
  <2> QED
    BY <2>1, <2>2, <2>3
<1> QED
  BY <1>3, <1>7, <1>9 DEF Injective, r

(* execute_tab_merge: the window takes the tab in and shows it.            *)
LEMMA MergedTab ==
    ASSUME NEW w \in Window, NEW t \in TabIds, t \notin Listed(w), Good(w),
           NEW i \in Nat \ {0}
    PROVE  /\ Merged(w, i, t) \in Window /\ Good(Merged(w, i, t))
           /\ Listed(Merged(w, i, t)) = Listed(w) \cup {t}
           /\ Shown(Merged(w, i, t)) = t
           /\ Kept(w, Merged(w, i, t))
<1> DEFINE u == InsertTabAt(w, i, t)
           m == Merged(w, i, t)
<1>1. /\ w.tabs \in Seq(TabIds) /\ Len(w.tabs) \in Nat /\ w.current \in Nat
      /\ Injective(w.tabs)
  BY ListedAt DEF Good
<1>2. u \in Window /\ Injective(u.tabs) /\ Listed(u) = Listed(w) \cup {t}
  <2>1. CASE i > Len(w.tabs)
    <3>1. u = [w EXCEPT !.tabs = Append(@, t)]
      BY <2>1 DEF InsertTabAt
    <3>2. Append(w.tabs, t) \in Seq(TabIds)
      BY <1>1
    <3>3. u \in Window /\ u.tabs = Append(w.tabs, t)
      BY <3>1, <3>2 DEF Window
    <3> QED
      BY <1>1, <3>3, Appended
  <2>2. CASE ~(i > Len(w.tabs))
    <3>1. u = [tabs    |-> InsertAt(w.tabs, i, t),
               current |-> w.current + IF i <= w.current THEN 1 ELSE 0]
      BY <2>2 DEF InsertTabAt
    <3>2. i \in 1..Len(w.tabs)
      BY <1>1, <2>2
    <3>3. InsertAt(w.tabs, i, t) \in Seq(TabIds)
      <4>1. PICK s : s = w.tabs
        OBVIOUS
      <4>2. s \in Seq(TabIds) /\ i \in 1..(Len(s) + 1)
        BY <1>1, <3>2, <4>1
      <4>3. InsertAt(s, i, t) \in Seq(TabIds)
        BY <4>2, InsertAtSeq, Zenon
      <4> QED
        BY <4>1, <4>3
    <3>4. w.current + (IF i <= w.current THEN 1 ELSE 0) \in Nat
      BY <1>1
    <3>5. u \in Window /\ u.tabs = InsertAt(w.tabs, i, t)
      BY <3>1, <3>3, <3>4 DEF Window
    <3> QED
      BY <1>1, <3>2, <3>5, Inserted
  <2> QED
    BY <2>1, <2>2
<1>3. PositionOf(u, t) \in 1..Len(u.tabs) /\ u.tabs[PositionOf(u, t)] = t
  BY <1>2, PositionFound
<1>4. m = [u EXCEPT !.current = PositionOf(u, t)]
  BY DEF Merged
<1> HIDE DEF u, m
<1>5. PositionOf(u, t) \in Nat
  BY <1>2, <1>3, ListedAt
<1>6. m \in Window /\ m.tabs = u.tabs /\ m.current = PositionOf(u, t)
  BY <1>2, <1>4, <1>5 DEF Window
<1>7. Good(m) /\ Listed(m) = Listed(w) \cup {t} /\ Shown(m) = t
  BY <1>2, <1>3, <1>6 DEF Good, Listed, Shown
<1>8. ~(Range(m.tabs) \subseteq Range(w.tabs))
  BY <1>7 DEF Listed
<1>9. Kept(w, m)
  BY <1>8 DEF Kept
<1> QED
  BY <1>6, <1>7, <1>9 DEF m

(* Window::remove_tab: the position stays with the tab that is shown.      *)
LEMMA RemovedTab ==
    ASSUME NEW w \in Window, Good(w), NEW t \in Listed(w)
    PROVE  LET u == WindowRemoveTab(w, t)
           IN  /\ u \in Window /\ Listed(u) = Listed(w) \ {t}
               /\ Good(u) /\ Kept(w, u)
               /\ u.tabs = << >> <=> Len(w.tabs) = 1
<1> DEFINE s == w.tabs
           n == Len(s)
           p == PositionOf(w, t)
           r == RemoveAt(s, p)
           c == w.current
           d == IF r = << >> THEN 1
                ELSE IF c > Len(r) THEN Len(r)
                ELSE IF p < c THEN c - 1
                ELSE c
           u == WindowRemoveTab(w, t)
<1>1. /\ s \in Seq(TabIds) /\ n \in Nat /\ c \in 1..n
      /\ \A x : x \in Listed(w) <=> \E i \in 1..n : s[i] = x
      /\ \A i, j \in 1..n : s[i] = s[j] => i = j
  <2>1. /\ s \in Seq(TabIds) /\ n \in Nat
        /\ \A x : x \in Listed(w) <=> \E i \in 1..n : s[i] = x
    BY ListedAt
  <2>2. s # << >>
    BY <2>1
  <2> QED
    BY <2>1, <2>2 DEF Good, Injective
<1>2. p \in 1..n /\ s[p] = t
  BY PositionFound
<1>3. /\ r \in Seq(TabIds) /\ Len(r) = n - 1
      /\ \A i \in 1..(n - 1) : r[i] = IF i < p THEN s[i] ELSE s[i + 1]
  <2>1. s \in Seq(TabIds) /\ p \in 1..Len(s)
    BY <1>1, <1>2
  <2> HIDE DEF s, p
  <2> QED
    BY <2>1, RemoveAtSeq, Zenon
<1>4. u = [tabs |-> r, current |-> d]
  BY DEF WindowRemoveTab
<1>5. Shown(w) = s[c]
  BY DEF Shown
<1>6. \A i \in 1..(n - 1) : i \in 1..n /\ i + 1 \in 1..n
  BY <1>1
<1>7. r = << >> <=> n - 1 = 0
  <2>1. r = << >> => Len(r) = 0
    OBVIOUS
  <2>2. Len(r) = 0 => r = << >>
    BY <1>3
  <2> QED
    BY <1>3, <2>1, <2>2
<1> HIDE DEF s, n, p, r, c, u
<1>8. /\ d \in Nat
      /\ n - 1 # 0 => /\ d \in 1..(n - 1)
                      /\ c # p => IF d < p THEN d = c ELSE d + 1 = c
  BY <1>1, <1>2, <1>3, <1>7
<1> HIDE DEF d
<1>9. u \in Window /\ u.tabs = r /\ u.current = d
  BY <1>3, <1>4, <1>8 DEF Window
<1>10. \A x : x \in Listed(u) <=> \E i \in 1..(n - 1) : r[i] = x
  BY <1>3, <1>9, ListedAt
<1>11. ASSUME NEW i \in 1..(n - 1), NEW j \in 1..(n - 1), r[i] = r[j]
       PROVE  i = j
  <2>1. (IF i < p THEN i ELSE i + 1) = (IF j < p THEN j ELSE j + 1)
    BY <1>1, <1>3, <1>6, <1>11
  <2> QED
    BY <1>1, <1>2, <2>1
<1>12. \A i \in 1..(n - 1) : r[i] # t
  <2> SUFFICES ASSUME NEW i \in 1..(n - 1), r[i] = t PROVE FALSE
    OBVIOUS
  <2>1. (IF i < p THEN i ELSE i + 1) = p
    BY <1>1, <1>2, <1>3, <1>6
  <2> QED
    BY <1>1, <1>2, <2>1
<1>13. ASSUME NEW k \in 1..n, k # p
       PROVE  \E i \in 1..(n - 1) : r[i] = s[k]
  <2>1. CASE k < p
    <3>1. k \in 1..(n - 1)
      BY <1>1, <1>2, <2>1
    <3> QED
      BY <1>3, <2>1, <3>1
  <2>2. CASE k > p
    <3>1. k - 1 \in 1..(n - 1) /\ ~(k - 1 < p) /\ (k - 1) + 1 = k
      BY <1>1, <1>2, <2>2
    <3> QED
      BY <1>3, <3>1
  <2> QED
    BY <1>1, <1>2, <1>13, <2>1, <2>2
<1>14. Listed(u) = Listed(w) \ {t}
  <2>1. ASSUME NEW x \in Listed(u)
        PROVE  x \in Listed(w) /\ x # t
    <3>1. PICK i \in 1..(n - 1) : r[i] = x
      BY <1>10
    <3> QED
      BY <1>1, <1>3, <1>6, <1>12, <3>1
  <2>2. ASSUME NEW x \in Listed(w), x # t
        PROVE  x \in Listed(u)
    <3>1. PICK k \in 1..n : s[k] = x
      BY <1>1
    <3> QED
      BY <1>2, <1>10, <1>13, <2>2, <3>1
  <2> QED
    BY <2>1, <2>2
<1>15. CASE r = << >>
  <2>1. n = 1
    BY <1>1, <1>7, <1>15
  <2>2. Good(u)
    BY <1>9, <1>11, <1>3, <1>15 DEF Good, Injective
  <2>3. Kept(w, u)
    <3>1. \A x : x \notin Listed(u)
      BY <1>1, <1>10, <2>1
    <3> QED
      BY <3>1 DEF Kept, Listed
  <2> QED
    BY <1>9, <1>14, <1>15, <2>1, <2>2, <2>3 DEF u, n, s
<1>16. CASE r # << >>
  <2>1. d \in 1..(n - 1) /\ (c # p => IF d < p THEN d = c ELSE d + 1 = c)
    BY <1>7, <1>8, <1>16
  <2>2. Good(u)
    BY <1>3, <1>9, <1>11, <2>1 DEF Good, Injective
  <2>3. ASSUME Shown(w) \in Range(u.tabs)
        PROVE  Shown(u) = Shown(w)
    <3>1. c # p
      BY <1>2, <1>5, <1>14, <2>3 DEF Listed
    <3>2. r[d] = s[c]
      BY <1>3, <2>1, <3>1
    <3> QED
      BY <1>5, <1>9, <3>2 DEF Shown
  <2>4. n # 1
    BY <1>7, <1>16
  <2> QED
    BY <1>9, <1>14, <1>16, <2>2, <2>3, <2>4 DEF Kept, u, n, s
<1> QED
  BY <1>15, <1>16

(* Window::reorder_tab: a permutation, and the position moves with the tab *)
(* that is shown.                                                          *)
LEMMA Reordered ==
    ASSUME NEW w \in Window, Good(w), NEW from \in 1..Len(w.tabs), NEW to \in 1..Len(w.tabs)
    PROVE  LET u == ReorderTab(w, from, to)
           IN  /\ u \in Window /\ Good(u) /\ Listed(u) = Listed(w)
               /\ Shown(u) = Shown(w) /\ u.tabs # << >>
<1> DEFINE s == w.tabs
           n == Len(s)
           q == RemoveAt(s, from)
           r == InsertAt(q, to, s[from])
           c == w.current
           d == IF c = from THEN to
                ELSE IF from < c /\ to >= c THEN c - 1
                ELSE IF from > c /\ to <= c THEN c + 1
                ELSE c
           u == ReorderTab(w, from, to)
           (* where the tab at i was, and where the one at k goes *)
           Old(i) == IF i = to THEN from
                     ELSE LET j == IF i < to THEN i ELSE i - 1
                          IN  IF j < from THEN j ELSE j + 1
           New(k) == IF k = from THEN to
                     ELSE LET j == IF k < from THEN k ELSE k - 1
                          IN  IF j < to THEN j ELSE j + 1
<1>1. /\ s \in Seq(TabIds) /\ n \in Nat /\ c \in 1..n /\ from \in 1..n /\ to \in 1..n
      /\ \A x : x \in Listed(w) <=> \E i \in 1..n : s[i] = x
      /\ \A i, j \in 1..n : s[i] = s[j] => i = j
  <2>1. /\ s \in Seq(TabIds) /\ n \in Nat
        /\ \A x : x \in Listed(w) <=> \E i \in 1..n : s[i] = x
    BY ListedAt
  <2>2. s # << >>
    BY <2>1
  <2> QED
    BY <2>1, <2>2 DEF Good, Injective
<1>2. s[from] \in TabIds
  BY <1>1
<1>3. /\ q \in Seq(TabIds) /\ Len(q) = n - 1
      /\ \A i \in 1..(n - 1) : q[i] = IF i < from THEN s[i] ELSE s[i + 1]
  <2>1. s \in Seq(TabIds) /\ from \in 1..Len(s)
    BY <1>1
  <2> HIDE DEF s
  <2> QED
    BY <2>1, RemoveAtSeq, Zenon
<1>4. (n - 1) + 1 = n
  BY <1>1
<1>5. /\ r \in Seq(TabIds) /\ Len(r) = n
      /\ \A i \in 1..n : r[i] = IF i < to THEN q[i] ELSE IF i = to THEN s[from] ELSE q[i - 1]
  <2>1. Len(q) + 1 = n
    BY <1>3, <1>4
  <2>2. q \in Seq(TabIds) /\ to \in 1..(Len(q) + 1)
    BY <1>1, <1>3, <2>1
  <2> HIDE DEF s, n, q
  <2>3. /\ InsertAt(q, to, s[from]) \in Seq(TabIds)
        /\ Len(InsertAt(q, to, s[from])) = Len(q) + 1
        /\ \A i \in 1..(Len(q) + 1) :
             InsertAt(q, to, s[from])[i] = InsertedAt(q, to, s[from], i)
    BY <1>2, <2>2, InsertAtSeq, Zenon
  <2>4. r \in Seq(TabIds) /\ Len(r) = n /\ \A i \in 1..n : r[i] = InsertedAt(q, to, s[from], i)
    BY <2>1, <2>3, Zenon
  <2> HIDE DEF r
  <2> QED
    BY <2>4 DEF InsertedAt
<1>6. u = [tabs |-> r, current |-> d]
  BY DEF ReorderTab
<1>7. Shown(w) = s[c]
  BY DEF Shown
<1> HIDE DEF s, n, q, r, c, u
<1>8. ASSUME NEW i \in 1..n
      PROVE  Old(i) \in 1..n /\ r[i] = s[Old(i)] /\ New(Old(i)) = i
  <2>1. Old(i) \in 1..n /\ New(Old(i)) = i
    BY <1>1
  <2>2. CASE i = to
    BY <1>1, <1>5, <2>2
  <2>3. CASE i < to
    <3>1. i \in 1..(n - 1) /\ r[i] = q[i] /\ Old(i) = IF i < from THEN i ELSE i + 1
      BY <1>1, <1>5, <2>3
    <3> QED
      BY <1>3, <2>1, <3>1
  <2>4. CASE i > to
    <3>1. /\ i - 1 \in 1..(n - 1) /\ r[i] = q[i - 1]
          /\ Old(i) = IF i - 1 < from THEN i - 1 ELSE (i - 1) + 1
      BY <1>1, <1>5, <2>4
    <3> QED
      BY <1>3, <2>1, <3>1
  <2> QED
    BY <1>1, <2>1, <2>2, <2>3, <2>4
<1>9. ASSUME NEW k \in 1..n
      PROVE  New(k) \in 1..n /\ Old(New(k)) = k
  BY <1>1
<1>10. d \in 1..n /\ d \in Nat /\ Old(d) = c
  BY <1>1
<1> HIDE DEF Old, New, d
<1>11. u \in Window /\ u.tabs = r /\ u.current = d
  BY <1>5, <1>6, <1>10 DEF Window
<1>12. \A x : x \in Listed(u) <=> \E i \in 1..n : r[i] = x
  BY <1>5, <1>11, ListedAt
<1>13. ASSUME NEW i \in 1..n, NEW j \in 1..n, r[i] = r[j]
       PROVE  i = j
  <2>1. Old(i) = Old(j)
    <3>1. /\ Old(i) \in 1..n /\ r[i] = s[Old(i)]
          /\ Old(j) \in 1..n /\ r[j] = s[Old(j)]
      BY <1>8
    <3> QED
      BY <1>1, <1>13, <3>1
  <2> QED
    BY <1>8, <2>1
<1>14. Listed(u) = Listed(w)
  <2>1. ASSUME NEW k \in 1..n
        PROVE  New(k) \in 1..n /\ r[New(k)] = s[k]
    BY <1>8, <1>9
  <2> QED
    <3>1. ASSUME NEW x \in Listed(u)
          PROVE  x \in Listed(w)
      <4>1. PICK i \in 1..n : r[i] = x
        BY <1>12
      <4>2. Old(i) \in 1..n /\ s[Old(i)] = x
        BY <1>8, <4>1
      <4> QED
        BY <1>1, <4>2
    <3>2. ASSUME NEW x \in Listed(w)
          PROVE  x \in Listed(u)
      <4>1. PICK k \in 1..n : s[k] = x
        BY <1>1
      <4> QED
        BY <1>12, <2>1, <4>1
    <3> QED
      BY <3>1, <3>2
<1>15. Good(u)
  BY <1>5, <1>10, <1>11, <1>13 DEF Good, Injective
<1>16. Shown(u) = Shown(w)
  BY <1>7, <1>8, <1>10, <1>11 DEF Shown
<1>17. u.tabs # << >>
  BY <1>1, <1>5, <1>11
<1> QED
  BY <1>11, <1>14, <1>15, <1>16, <1>17 DEF u

-----------------------------------------------------------------------------
(* The windows of the registry *)

(* ws are windows that list the tabs T: each of them shows one of its      *)
(* tabs, and every tab of T is listed in one of them.                      *)
Partition(ws, T) ==
    /\ ws \in [DOMAIN ws -> Window]
    /\ \A w \in DOMAIN ws : Good(ws[w])
    /\ \A v, w \in DOMAIN ws : v # w => \A t \in Listed(ws[v]) : t \notin Listed(ws[w])
    /\ \A t : t \in T <=> \E w \in DOMAIN ws : t \in Listed(ws[w])

(* No window that stays shows another of the tabs it keeps.                *)
AllKept(ws, us) == \A w \in DOMAIN ws \cap DOMAIN us : Kept(ws[w], us[w])

(* A window that does not change keeps what it shows.                      *)
LEMMA KeptSame ==
    ASSUME NEW w
    PROVE  Kept(w, w)
BY DEF Kept

(* A window takes the place of another: it may list the same tabs and ones *)
(* that no window lists.                                                   *)
LEMMA Replaced ==
    ASSUME NEW ws, NEW T, Partition(ws, T), NEW a \in DOMAIN ws,
           NEW u \in Window, Good(u),
           \A t \in Listed(u) : t \in T => t \in Listed(ws[a])
    PROVE  /\ Partition([ws EXCEPT ![a] = u], (T \ Listed(ws[a])) \cup Listed(u))
           /\ Kept(ws[a], u) => AllKept(ws, [ws EXCEPT ![a] = u])
<1> DEFINE us == [ws EXCEPT ![a] = u]
           U  == (T \ Listed(ws[a])) \cup Listed(u)
<1>1. /\ ws \in [DOMAIN ws -> Window]
      /\ \A w \in DOMAIN ws : Good(ws[w])
      /\ \A v, w \in DOMAIN ws : v # w => \A t \in Listed(ws[v]) : t \notin Listed(ws[w])
      /\ \A t : t \in T <=> \E w \in DOMAIN ws : t \in Listed(ws[w])
  BY DEF Partition
<1>2. /\ DOMAIN us = DOMAIN ws /\ us[a] = u
      /\ \A w \in DOMAIN ws : w # a => us[w] = ws[w]
      /\ us \in [DOMAIN us -> Window]
  BY <1>1
<1> HIDE DEF us
<1>3. \A w \in DOMAIN us : Good(us[w])
  BY <1>1, <1>2
<1>4. \A v, w \in DOMAIN us : v # w => \A t \in Listed(us[v]) : t \notin Listed(us[w])
  <2> SUFFICES ASSUME NEW v \in DOMAIN us, NEW w \in DOMAIN us, v # w,
                      NEW t \in Listed(us[v]), t \in Listed(us[w])
               PROVE  FALSE
    OBVIOUS
  <2>1. CASE v = a
    BY <1>1, <1>2, <2>1
  <2>2. CASE w = a
    BY <1>1, <1>2, <2>2
  <2>3. CASE v # a /\ w # a
    BY <1>1, <1>2, <2>3
  <2> QED
    BY <2>1, <2>2, <2>3
<1>5. ASSUME NEW t
      PROVE  t \in U <=> \E w \in DOMAIN us : t \in Listed(us[w])
  <2>1. ASSUME t \in T, t \notin Listed(ws[a])
        PROVE  \E w \in DOMAIN us : t \in Listed(us[w])
    <3>1. PICK w \in DOMAIN ws : t \in Listed(ws[w])
      BY <1>1, <2>1
    <3> QED
      BY <1>2, <2>1, <3>1
  <2>2. ASSUME t \in Listed(u)
        PROVE  \E w \in DOMAIN us : t \in Listed(us[w])
    BY <1>2, <2>2
  <2>3. ASSUME NEW w \in DOMAIN us, t \in Listed(us[w])
        PROVE  t \in U
    <3>1. CASE w = a
      BY <1>2, <2>3, <3>1
    <3>2. CASE w # a
      BY <1>1, <1>2, <2>3, <3>2
    <3> QED
      BY <3>1, <3>2
  <2> QED
    BY <2>1, <2>2, <2>3
<1>6. Partition(us, U)
  <2> HIDE DEF U
  <2> QED
    BY <1>2, <1>3, <1>4, <1>5 DEF Partition
<1>7. Kept(ws[a], u) => AllKept(ws, us)
  BY <1>2, KeptSame DEF AllKept
<1> QED
  BY <1>6, <1>7 DEF us

(* A window u, under an id and with tabs that are not in use.              *)
Fresh(ws, T, a, u) ==
    /\ a \notin DOMAIN ws /\ u \in Window /\ Good(u)
    /\ \A t \in Listed(u) : t \notin T

(* Registering such a window.                                              *)
LEMMA Added ==
    ASSUME NEW ws, NEW T, Partition(ws, T), NEW a, NEW u, Fresh(ws, T, a, u)
    PROVE  Partition(With(ws, a, u), T \cup Listed(u))
<1> DEFINE us == With(ws, a, u)
           U  == T \cup Listed(u)
<1>1. /\ ws \in [DOMAIN ws -> Window]
      /\ \A w \in DOMAIN ws : Good(ws[w])
      /\ \A v, w \in DOMAIN ws : v # w => \A t \in Listed(ws[v]) : t \notin Listed(ws[w])
      /\ \A t : t \in T <=> \E w \in DOMAIN ws : t \in Listed(ws[w])
  BY DEF Partition
<1>2. /\ a \notin DOMAIN ws /\ u \in Window /\ Good(u)
      /\ \A t \in Listed(u) : t \notin T
  BY DEF Fresh
<1>3. /\ DOMAIN us = DOMAIN ws \cup {a} /\ us[a] = u
      /\ \A w \in DOMAIN ws : us[w] = ws[w]
      /\ us \in [DOMAIN us -> Window]
  BY <1>1, <1>2 DEF With
<1> HIDE DEF us
<1>4. \A w \in DOMAIN us : Good(us[w])
  BY <1>1, <1>2, <1>3
<1>5. \A v, w \in DOMAIN us : v # w => \A t \in Listed(us[v]) : t \notin Listed(us[w])
  <2> SUFFICES ASSUME NEW v \in DOMAIN us, NEW w \in DOMAIN us, v # w,
                      NEW t \in Listed(us[v]), t \in Listed(us[w])
               PROVE  FALSE
    OBVIOUS
  <2>1. CASE v = a
    BY <1>1, <1>2, <1>3, <2>1
  <2>2. CASE w = a
    BY <1>1, <1>2, <1>3, <2>2
  <2>3. CASE v # a /\ w # a
    BY <1>1, <1>2, <1>3, <2>3
  <2> QED
    BY <2>1, <2>2, <2>3
<1>6. \A t : t \in U <=> \E w \in DOMAIN us : t \in Listed(us[w])
  BY <1>1, <1>2, <1>3
<1>7. Partition(us, U)
  <2> HIDE DEF U
  <2> QED
    BY <1>3, <1>4, <1>5, <1>6 DEF Partition
<1> QED
  BY <1>7 DEF us

(* A window goes, and its tabs with it.                                    *)
LEMMA Dropped ==
    ASSUME NEW ws, NEW T, Partition(ws, T), NEW a \in DOMAIN ws
    PROVE  /\ Partition(Without(ws, a), T \ Listed(ws[a]))
           /\ DOMAIN Without(ws, a) = DOMAIN ws \ {a}
           /\ \A w \in DOMAIN ws \ {a} : Without(ws, a)[w] = ws[w]
<1> DEFINE us == Without(ws, a)
           U  == T \ Listed(ws[a])
<1>1. /\ ws \in [DOMAIN ws -> Window]
      /\ \A w \in DOMAIN ws : Good(ws[w])
      /\ \A v, w \in DOMAIN ws : v # w => \A t \in Listed(ws[v]) : t \notin Listed(ws[w])
      /\ \A t : t \in T <=> \E w \in DOMAIN ws : t \in Listed(ws[w])
  BY DEF Partition
<1>2. /\ DOMAIN us = DOMAIN ws \ {a}
      /\ \A w \in DOMAIN ws \ {a} : us[w] = ws[w]
      /\ us \in [DOMAIN us -> Window]
  BY <1>1 DEF Without
<1> HIDE DEF us
<1>3. \A w \in DOMAIN us : Good(us[w])
  BY <1>1, <1>2
<1>4. \A v, w \in DOMAIN us : v # w => \A t \in Listed(us[v]) : t \notin Listed(us[w])
  BY <1>1, <1>2
<1>5. \A t : t \in U <=> \E w \in DOMAIN us : t \in Listed(us[w])
  BY <1>1, <1>2
<1>6. Partition(us, U)
  <2> HIDE DEF U
  <2> QED
    BY <1>2, <1>3, <1>4, <1>5 DEF Partition
<1> QED
  BY <1>2, <1>6 DEF us

(* The windows of ws that list nothing are in E.                           *)
Filled(ws, E) == \A w \in DOMAIN ws : ws[w].tabs = << >> => w \in E

(* A tab leaves the window that lists it, if one does.                     *)
LEMMA TabGone ==
    ASSUME NEW ws, NEW T, Partition(ws, T), NEW t
    PROVE  LET us == WithoutTab(ws, t)
           IN  /\ Partition(us, T \ {t}) /\ DOMAIN us = DOMAIN ws
               /\ \A w \in DOMAIN ws : /\ Listed(us[w]) = Listed(ws[w]) \ {t}
                                       /\ Kept(ws[w], us[w])
               /\ \A E : Filled(ws, E) => Filled(us, E \cup LeftEmpty(ws, t))
<1> DEFINE us == WithoutTab(ws, t)
<1>1. /\ ws \in [DOMAIN ws -> Window]
      /\ \A w \in DOMAIN ws : ws[w] \in Window /\ Good(ws[w])
      /\ \A v, w \in DOMAIN ws : v # w => \A x \in Listed(ws[v]) : x \notin Listed(ws[w])
      /\ \A x : x \in T <=> \E w \in DOMAIN ws : x \in Listed(ws[w])
  BY DEF Partition
<1>2. /\ DOMAIN us = DOMAIN ws /\ us = [w \in DOMAIN us |-> us[w]]
      /\ \A w \in DOMAIN ws : us[w] = IF t \in Listed(ws[w]) THEN WindowRemoveTab(ws[w], t)
                                      ELSE ws[w]
  BY DEF WithoutTab, WindowsOf, Listed
<1> HIDE DEF us
<1>3. ASSUME NEW w \in DOMAIN ws
      PROVE  /\ us[w] \in Window /\ Good(us[w]) /\ Kept(ws[w], us[w])
             /\ Listed(us[w]) = Listed(ws[w]) \ {t}
             /\ us[w].tabs = << >> => ws[w].tabs = << >> \/ w \in LeftEmpty(ws, t)
  <2>1. ws[w] \in Window /\ Good(ws[w])
    BY <1>1
  <2>2. CASE t \in Listed(ws[w])
    <3>1. PICK u : u = WindowRemoveTab(ws[w], t)
      OBVIOUS
    <3>2. /\ u \in Window /\ Listed(u) = Listed(ws[w]) \ {t}
          /\ Good(u) /\ Kept(ws[w], u)
          /\ (u.tabs = << >> <=> Len(ws[w].tabs) = 1)
      BY <2>1, <2>2, <3>1, RemovedTab
    <3>3. us[w] = u
      BY <1>2, <2>2, <3>1
    <3>4. Len(ws[w].tabs) = 1 => w \in LeftEmpty(ws, t)
      BY <2>2 DEF LeftEmpty, WindowsOf, Listed
    <3> QED
      BY <3>2, <3>3, <3>4
  <2>3. CASE t \notin Listed(ws[w])
    <3>1. us[w] = ws[w]
      BY <1>2, <2>3
    <3> QED
      BY <2>1, <2>3, <3>1, KeptSame
  <2> QED
    BY <2>2, <2>3
<1>4. us \in [DOMAIN us -> Window]
  BY <1>2, <1>3
<1>5. \A v, w \in DOMAIN us : v # w => \A x \in Listed(us[v]) : x \notin Listed(us[w])
  BY <1>1, <1>2, <1>3
<1>6. \A x : x \in T \ {t} <=> \E w \in DOMAIN us : x \in Listed(us[w])
  BY <1>1, <1>2, <1>3
<1>7. Partition(us, T \ {t})
  <2>1. PICK U : U = T \ {t}
    OBVIOUS
  <2> QED
    BY <1>2, <1>3, <1>4, <1>5, <1>6, <2>1 DEF Partition
<1>8. ASSUME NEW E, Filled(ws, E)
      PROVE  Filled(us, E \cup LeftEmpty(ws, t))
  BY <1>2, <1>3, <1>8 DEF Filled
<1> QED
  BY <1>2, <1>3, <1>7, <1>8 DEF us

(* A window goes if it is empty.                                           *)
LEMMA EmptyDropped ==
    ASSUME NEW ws, NEW T, Partition(ws, T), NEW a \in DOMAIN ws
    PROVE  LET us == WithoutEmpty(ws, a)
           IN  /\ Partition(us, T) /\ DOMAIN us \subseteq DOMAIN ws
               /\ \A w \in DOMAIN us : us[w] = ws[w]
               /\ \A w \in DOMAIN ws : w # a => w \in DOMAIN us
               /\ \A E : Filled(ws, E) => Filled(us, E \ {a})
<1>1. CASE ws[a].tabs = << >>
  <2>1. PICK us : us = Without(ws, a)
    OBVIOUS
  <2>2. /\ Partition(us, T \ Listed(ws[a])) /\ DOMAIN us = DOMAIN ws \ {a}
        /\ \A w \in DOMAIN ws \ {a} : us[w] = ws[w]
    BY <2>1, Dropped
  <2>3. Listed(ws[a]) = {}
    <3>1. ws[a] \in Window
      BY DEF Partition
    <3>2. Len(ws[a].tabs) = 0 /\ \A i \in 1..0 : FALSE
      BY <1>1
    <3> QED
      BY <3>1, <3>2, ListedAt
  <2>4. Partition(us, T)
    BY <2>2, <2>3
  <2>5. WithoutEmpty(ws, a) = us
    BY <1>1, <2>1 DEF WithoutEmpty
  <2>6. \A E : Filled(ws, E) => Filled(us, E \ {a})
    BY <2>2 DEF Filled
  <2> QED
    BY <2>2, <2>4, <2>5, <2>6
<1>2. CASE ws[a].tabs # << >>
  <2>1. WithoutEmpty(ws, a) = ws
    BY <1>2 DEF WithoutEmpty
  <2>2. \A E : Filled(ws, E) => Filled(ws, E \ {a})
    BY <1>2 DEF Filled
  <2> QED
    BY <2>1, <2>2
<1> QED
  BY <1>1, <1>2

(* The close of a tab that a lists.                                        *)
LEMMA ClosedTab ==
    ASSUME NEW ws, NEW T, Partition(ws, T), NEW a \in DOMAIN ws, NEW t \in Listed(ws[a]),
           NEW E, Filled(ws, E)
    PROVE  LET us == WithoutEmpty(WithoutTab(ws, t), a)
           IN  /\ Partition(us, T \ {t}) /\ DOMAIN us \subseteq DOMAIN ws
               /\ AllKept(ws, us) /\ Filled(us, E)
<1>1. PICK vs : vs = WithoutTab(ws, t)
  OBVIOUS
<1>2. /\ Partition(vs, T \ {t}) /\ DOMAIN vs = DOMAIN ws
      /\ \A w \in DOMAIN ws : Kept(ws[w], vs[w])
      /\ Filled(vs, E \cup LeftEmpty(ws, t))
  BY <1>1, TabGone
<1>3. PICK us : us = WithoutEmpty(vs, a)
  OBVIOUS
<1>4. PICK U, F : U = T \ {t} /\ F = E \cup LeftEmpty(ws, t)
  OBVIOUS
<1>5. /\ Partition(us, U) /\ DOMAIN us \subseteq DOMAIN vs
      /\ \A w \in DOMAIN us : us[w] = vs[w]
      /\ Filled(us, F \ {a})
  BY <1>2, <1>3, <1>4, EmptyDropped
<1>6. LeftEmpty(ws, t) \subseteq {a}
  BY DEF LeftEmpty, WindowsOf, Partition, Listed
<1>7. Filled(us, E)
  BY <1>4, <1>5, <1>6 DEF Filled
<1>8. AllKept(ws, us)
  BY <1>2, <1>5 DEF AllKept
<1> QED
  BY <1>1, <1>2, <1>3, <1>4, <1>5, <1>7, <1>8

(* The move of a tab, listed or not, to a new window, whose id is not in   *)
(* use, and the window a that goes if it is empty.                         *)
LEMMA MovesOut ==
    ASSUME NEW ws, NEW T, Partition(ws, T), NEW a \in DOMAIN ws, NEW t \in TabIds,
           NEW n, n \notin DOMAIN ws, NEW E, Filled(ws, E)
    PROVE  LET us == WithoutEmpty(MovedTo(ws, n, t), a)
           IN  /\ Partition(us, T \cup {t})
               /\ DOMAIN us \subseteq DOMAIN ws \cup {n} /\ n \in DOMAIN us
               /\ AllKept(ws, us)
               /\ Filled(us, E \cup (LeftEmpty(ws, t) \ {a}))
<1>1. PICK vs : vs = WithoutTab(ws, t)
  OBVIOUS
<1>2. /\ Partition(vs, T \ {t}) /\ DOMAIN vs = DOMAIN ws
      /\ \A w \in DOMAIN ws : Kept(ws[w], vs[w])
      /\ Filled(vs, E \cup LeftEmpty(ws, t))
  BY <1>1, TabGone
<1>3. PICK m : m = InsertTabAt(NewWindow, 1, t)
  OBVIOUS
<1>4. m \in Window /\ Good(m) /\ Listed(m) = {t}
  BY <1>3, MovedOut
<1>5. PICK U, F, rs : U = T \ {t} /\ F = E \cup LeftEmpty(ws, t) /\ rs = With(vs, n, m)
  OBVIOUS
<1>6. /\ DOMAIN rs = DOMAIN vs \cup {n} /\ rs[n] = m
      /\ \A w \in DOMAIN vs : rs[w] = vs[w]
  BY <1>2, <1>5 DEF With
<1>7. Partition(rs, U \cup Listed(m))
  <2>1. Partition(vs, U) /\ Fresh(vs, U, n, m)
    BY <1>2, <1>4, <1>5 DEF Fresh
  <2>2. Partition(With(vs, n, m), U \cup Listed(m))
    BY <2>1, Added, Zenon
  <2> QED
    BY <1>5, <2>2
<1>8. U \cup Listed(m) = T \cup {t}
  BY <1>4, <1>5
<1>9. Filled(rs, F)
  <2>1. m.tabs # << >>
    <3>1. PICK i \in 1..Len(m.tabs) : m.tabs[i] = t
      BY <1>4, ListedAt
    <3> QED
      BY <1>4, <3>1 DEF Window
  <2> QED
    BY <1>2, <1>5, <1>6, <2>1 DEF Filled
<1>10. PICK us, V : us = WithoutEmpty(rs, a) /\ V = T \cup {t}
  OBVIOUS
<1>11. /\ Partition(us, V) /\ DOMAIN us \subseteq DOMAIN rs
       /\ \A w \in DOMAIN us : us[w] = rs[w]
       /\ \A w \in DOMAIN rs : w # a => w \in DOMAIN us
       /\ Filled(us, F \ {a})
  <2>1. Partition(rs, V) /\ a \in DOMAIN rs
    BY <1>2, <1>6, <1>7, <1>8, <1>10
  <2> QED
    BY <1>9, <1>10, <2>1, EmptyDropped
<1>12. WithoutEmpty(MovedTo(ws, n, t), a) = us
  BY <1>1, <1>3, <1>5, <1>10 DEF MovedTo
<1>13. AllKept(ws, us)
  BY <1>2, <1>6, <1>11 DEF AllKept
<1>14. Filled(us, E \cup (LeftEmpty(ws, t) \ {a}))
  BY <1>5, <1>11 DEF Filled
<1>15. n \in DOMAIN us /\ DOMAIN us \subseteq DOMAIN ws \cup {n}
  BY <1>2, <1>6, <1>11
<1> QED
  BY <1>10, <1>11, <1>12, <1>13, <1>14, <1>15

(* The merge of t into the window b; the window d goes with what it lists. *)
AfterMerge(ws, d, b, i, t) ==
    LET out == WithoutTab(ws, t)
    IN  Without([out EXCEPT ![b] = Merged(@, i, t)], d)

LEMMA MergedInto ==
    ASSUME NEW ws, NEW T, Partition(ws, T), NEW d \in DOMAIN ws, NEW t \in TabIds,
           NEW b \in DOMAIN ws \ {d}, NEW i \in Nat \ {0}, NEW E, Filled(ws, E)
    PROVE  /\ Partition(AfterMerge(ws, d, b, i, t),
                        (T \cup {t}) \ Listed(WithoutTab(ws, t)[d]))
           /\ Listed(WithoutTab(ws, t)[d]) = Listed(ws[d]) \ {t}
           /\ DOMAIN AfterMerge(ws, d, b, i, t) = DOMAIN ws \ {d}
           /\ Shown(AfterMerge(ws, d, b, i, t)[b]) = t
           /\ \A w \in DOMAIN AfterMerge(ws, d, b, i, t) :
                w # b => Kept(ws[w], AfterMerge(ws, d, b, i, t)[w])
           /\ Filled(AfterMerge(ws, d, b, i, t), E \cup (LeftEmpty(ws, t) \ {d, b}))
<1>1. PICK out : out = WithoutTab(ws, t)
  OBVIOUS
<1>2. /\ Partition(out, T \ {t}) /\ DOMAIN out = DOMAIN ws
      /\ \A w \in DOMAIN ws : /\ Listed(out[w]) = Listed(ws[w]) \ {t}
                              /\ Kept(ws[w], out[w])
      /\ Filled(out, E \cup LeftEmpty(ws, t))
  BY <1>1, TabGone
<1>3. PICK m : m = Merged(out[b], i, t)
  OBVIOUS
<1>4. m \in Window /\ Good(m) /\ Listed(m) = Listed(out[b]) \cup {t} /\ Shown(m) = t
  <2>1. out[b] \in Window /\ Good(out[b]) /\ t \notin Listed(out[b])
    BY <1>2 DEF Partition
  <2> QED
    BY <1>3, <2>1, MergedTab
<1>5. PICK U, vs : U = T \ {t} /\ vs = [out EXCEPT ![b] = m]
  OBVIOUS
<1>6. /\ DOMAIN vs = DOMAIN ws /\ vs[b] = m
      /\ \A w \in DOMAIN ws : w # b => vs[w] = out[w]
  BY <1>2, <1>5
<1>7. Partition(vs, (U \ Listed(out[b])) \cup Listed(m))
  <2>1. \A x \in Listed(m) : x \in U => x \in Listed(out[b])
    BY <1>4, <1>5
  <2> QED
    BY <1>2, <1>4, <1>5, <2>1, Replaced
<1>8. (U \ Listed(out[b])) \cup Listed(m) = T \cup {t}
  <2>1. \A x \in Listed(out[b]) : x \in U
    BY <1>2, <1>5 DEF Partition
  <2> QED
    BY <1>4, <1>5, <2>1
<1>9. PICK V, rs : V = T \cup {t} /\ rs = Without(vs, d)
  OBVIOUS
<1>10. /\ Partition(rs, V \ Listed(vs[d])) /\ DOMAIN rs = DOMAIN vs \ {d}
       /\ \A w \in DOMAIN vs \ {d} : rs[w] = vs[w]
  <2>1. Partition(vs, V) /\ d \in DOMAIN vs
    BY <1>6, <1>7, <1>8, <1>9
  <2> QED
    BY <1>9, <2>1, Dropped
<1>11. vs[d] = out[d]
  BY <1>6
<1>12. Partition(rs, (T \cup {t}) \ Listed(out[d]))
  BY <1>9, <1>10, <1>11
<1>13. m.tabs # << >>
  <2>1. PICK k \in 1..Len(m.tabs) : m.tabs[k] = t
    BY <1>4, ListedAt
  <2> QED
    BY <1>4, <2>1 DEF Window
<1>14. Filled(rs, E \cup (LeftEmpty(ws, t) \ {d, b}))
  BY <1>2, <1>6, <1>10, <1>13 DEF Filled
<1>15. /\ DOMAIN rs = DOMAIN ws \ {d} /\ Shown(rs[b]) = t
       /\ \A w \in DOMAIN rs : w # b => Kept(ws[w], rs[w])
  BY <1>2, <1>4, <1>6, <1>10
<1>16. Listed(out[d]) = Listed(ws[d]) \ {t}
  BY <1>2
<1>17. AfterMerge(ws, d, b, i, t) = rs
  BY <1>1, <1>3, <1>5, <1>9 DEF AfterMerge
<1> QED
  BY <1>1, <1>12, <1>14, <1>15, <1>16, <1>17

-----------------------------------------------------------------------------
(* The invariant *)

(* The tabs that have been given an id.                                    *)
Used == 1..(nextTab - 1)

(* Ids are given out once, so a new tab or window is not in use.           *)
Ids ==
    /\ nextTab \in 1..(MaxTabs + 1) /\ tabs \subseteq Used
    /\ nextWindow \in 1..(MaxWindows + 1) /\ DOMAIN windows \subseteq 1..(nextWindow - 1)

(* Nor is it held by an event or by a drag: the names they hold may be of  *)
(* closed tabs, never of tabs to come.                                     *)
Held ==
    /\ moves \in Seq(Used)
    /\ grabs \in [DOMAIN grabs -> Used] /\ DOMAIN grabs \subseteq DOMAIN windows
    /\ drag # NoDrag => drag \in Drags /\ drag.tab \in Used
    /\ astray \subseteq TabIds /\ hollow \subseteq WindowIds

(* The windows partition the names they list, the registered tabs but for  *)
(* those that went astray.                                                 *)
Layout ==
    /\ Partition(windows, ListedTabs) /\ ListedTabs \subseteq Used
    /\ tabs \ astray = ListedTabs \ astray
    /\ active \in DOMAIN windows
    /\ Filled(windows, hollow)

Inv == Ids /\ Held /\ Layout

(* What ShownTabKept says of the windows in a step.                        *)
ShownStep ==
    \A w \in DOMAIN windows \cap DOMAIN windows' :
      \/ Kept(windows[w], windows'[w])
      \/ drag # NoDrag /\ drag' = NoDrag /\ Shown(windows'[w]) = drag.tab

(* The names the windows partition are the ones they list.                 *)
LEMMA NamesListed ==
    ASSUME NEW ws, NEW T, Partition(ws, T)
    PROVE  T = UNION {Range(ws[w].tabs) : w \in DOMAIN ws}
BY DEF Partition, Listed

(* The invariant in the form of the properties.                            *)
LEMMA InvMeans ==
    ASSUME Inv
    PROVE  TypeOK /\ TabsPartition
<1> USE DEF Inv
<1>1. /\ windows \in [DOMAIN windows -> Window]
      /\ \A w \in DOMAIN windows : Good(windows[w]) /\ windows[w] \in Window
      /\ \A v, w \in DOMAIN windows : v # w =>
           \A t \in Listed(windows[v]) : t \notin Listed(windows[w])
  BY DEF Layout, Partition
<1>2. Used \subseteq TabIds /\ DOMAIN windows \subseteq WindowIds
  <2>1. {MaxTabs, MaxWindows} \subseteq Nat
    BY WindowsAssumption
  <2> QED
    BY <2>1 DEF Ids, Used, TabIds, WindowIds
<1>3. TypeOK
  <2>1. active \in WindowIds
    BY <1>2 DEF Layout
  <2>2. /\ tabs \subseteq 1..(nextTab - 1) /\ nextTab \in 1..(MaxTabs + 1)
        /\ DOMAIN windows \subseteq 1..(nextWindow - 1) /\ nextWindow \in 1..(MaxWindows + 1)
    BY DEF Ids, Used
  <2>3. windows \in [DOMAIN windows -> [tabs : Seq(TabIds), current : Nat]]
    BY <1>1 DEF Window
  <2>4. drag \in Drags \cup {NoDrag}
    BY DEF Held
  <2>5. moves \in Seq(TabIds)
    BY <1>2 DEF Held
  <2>6. DOMAIN grabs \subseteq DOMAIN windows /\ grabs \in [DOMAIN grabs -> TabIds]
    BY <1>2 DEF Held
  <2>7. astray \subseteq TabIds /\ hollow \subseteq WindowIds
    BY DEF Held
  <2> QED
    BY <2>1, <2>2, <2>3, <2>4, <2>5, <2>6, <2>7 DEF TypeOK
<1>4. ListedOnce
  <2> SUFFICES ASSUME NEW v \in DOMAIN windows, NEW w \in DOMAIN windows,
                      NEW i \in 1..Len(windows[v].tabs), NEW j \in 1..Len(windows[w].tabs),
                      windows[v].tabs[i] = windows[w].tabs[j]
               PROVE  v = w /\ i = j
    BY DEF ListedOnce
  <2>1. windows[v] \in Window /\ windows[w] \in Window
    BY <1>1
  <2>2. windows[v].tabs[i] \in Listed(windows[v]) /\ windows[w].tabs[j] \in Listed(windows[w])
    BY <2>1, ListedAt
  <2>3. v = w
    BY <1>1, <2>2
  <2> QED
    BY <1>1, <2>3 DEF Good, Injective
<1>5. ASSUME NEW w \in DOMAIN windows
      PROVE  \/ w \in hollow /\ windows[w].tabs = << >>
             \/ windows[w].current \in 1..Len(windows[w].tabs)
  BY <1>1 DEF Layout, Filled, Good
<1> QED
  BY <1>3, <1>4, <1>5 DEF TabsPartition, Layout

(* It holds of the first window and its tab.                               *)
LEMMA InvInit ==
    ASSUME Init
    PROVE  Inv
<1>1. 1 \in TabIds /\ 1 \in WindowIds
  BY WindowsAssumption DEF TabIds, WindowIds
<1>2. PICK u : u = AddTab(NewWindow, 1)
  OBVIOUS
<1>3. u \in Window /\ Good(u) /\ Listed(u) = {1} /\ u.tabs # << >>
  <2>1. u \in Window /\ Good(u) /\ Listed(u) = {1}
    BY <1>1, <1>2, EmptyWindow, AddedTab
  <2>2. PICK i \in 1..Len(u.tabs) : u.tabs[i] = 1
    BY <2>1, ListedAt
  <2>3. Len(u.tabs) # 0
    BY <2>1, <2>2 DEF Window
  <2> QED
    BY <2>1, <2>3
<1>4. windows = [w \in {1} |-> u] /\ tabs = {1}
  BY <1>2 DEF Init
<1>5. Partition(windows, {1})
  BY <1>3, <1>4 DEF Partition
<1>6. ListedTabs = {1}
  BY <1>3, <1>4 DEF ListedTabs, Listed
<1>7. Used = {1}
  BY DEF Init, Used
<1>8. Layout
  BY <1>3, <1>4, <1>5, <1>6, <1>7 DEF Init, Layout, Filled
<1>9. Ids
  BY <1>1, <1>4, <1>7, WindowsAssumption DEF Init, Ids
<1>10. Held
  <2>1. moves = << >> /\ << >> \in Seq(Used)
    BY DEF Init
  <2>2. grabs \in [DOMAIN grabs -> Used] /\ DOMAIN grabs = {}
    BY DEF Init
  <2> QED
    BY <2>1, <2>2 DEF Init, Held
<1> QED
  BY <1>8, <1>9, <1>10 DEF Inv

(* transfer_focus_from finds a window that exists.                         *)
LEMMA Refocused ==
    ASSUME TransferFocus
    PROVE  active' \in DOMAIN windows'
BY DEF TransferFocus

(* The drags that stay are of windows that stay.                           *)
LEMMA GrabsKept ==
    ASSUME NEW S, NEW g, g \in [DOMAIN g -> S], KeepGrabs(g)
    PROVE  grabs' \in [DOMAIN grabs' -> S] /\ DOMAIN grabs' \subseteq DOMAIN windows'
BY DEF KeepGrabs, Within

(* The names listed after a step are the ones its windows partition.       *)
LEMMA Relaid ==
    ASSUME NEW T, Partition(windows', T), T \subseteq Used',
           tabs' \ astray' = T \ astray', active' \in DOMAIN windows',
           Filled(windows', hollow')
    PROVE  Layout'
<1>1. T = ListedTabs'
  BY NamesListed, Zenon DEF ListedTabs
<1> QED
  BY <1>1 DEF Layout

(* The steps that leave the windows and their tabs as they are.            *)
LEMMA Untouched ==
    ASSUME Inv, UNCHANGED <<tabs, windows, active, nextTab, astray, hollow>>,
           \/ nextWindow' = nextWindow
           \/ nextWindow <= MaxWindows /\ nextWindow' = nextWindow + 1
    PROVE  /\ Ids' /\ Layout' /\ ShownStep
           /\ Used' = Used /\ DOMAIN windows' = DOMAIN windows
<1> USE DEF Inv
<1>1. Used' = Used
  BY DEF Used
<1>2. Layout'
  BY <1>1 DEF Layout, ListedTabs
<1>3. Ids'
  BY <1>1, WindowsAssumption DEF Ids
<1>4. ShownStep
  BY KeptSame DEF ShownStep
<1> QED
  BY <1>1, <1>2, <1>3, <1>4

(* The steps that edit the active window and leave it its tabs.            *)
LEMMA Edited ==
    ASSUME Inv, UNCHANGED <<tabs, active, nextTab, nextWindow, astray, hollow>>,
           NEW u \in Window, Good(u), u.tabs # << >>,
           Listed(u) = Listed(windows[active]), Kept(windows[active], u),
           windows' = [windows EXCEPT ![active] = u]
    PROVE  /\ Ids' /\ Layout' /\ ShownStep
           /\ Used' = Used /\ DOMAIN windows' = DOMAIN windows
<1> USE DEF Inv
<1>1. Used' = Used /\ DOMAIN windows' = DOMAIN windows
  BY DEF Used
<1>2. PICK T : T = ListedTabs
  OBVIOUS
<1>3. Partition(windows, T) /\ active \in DOMAIN windows
  BY <1>2 DEF Layout
<1>4. /\ Partition(windows', (T \ Listed(windows[active])) \cup Listed(u))
      /\ AllKept(windows, windows')
  BY <1>3, Replaced
<1>5. (T \ Listed(windows[active])) \cup Listed(u) = T
  BY <1>3 DEF Partition
<1>6. Filled(windows', hollow')
  BY <1>3 DEF Layout, Filled
<1>7. Layout'
  <2>1. /\ Partition(windows', T) /\ T \subseteq Used'
        /\ tabs' \ astray' = T \ astray' /\ active' \in DOMAIN windows'
    BY <1>1, <1>2, <1>3, <1>4, <1>5 DEF Layout
  <2> QED
    BY <1>6, <2>1, Relaid
<1>8. Ids'
  BY <1>1 DEF Ids
<1>9. ShownStep
  BY <1>4 DEF AllKept, ShownStep
<1> QED
  BY <1>1, <1>7, <1>8, <1>9

(* The move of a name to a new window, or its refusal.                     *)
LEMMA MoveOutKeeps ==
    ASSUME Inv, NEW t \in Used, Refused \/ NotMade \/ MoveOut(t)
    PROVE  /\ Ids' /\ Layout' /\ ShownStep /\ Used' = Used
           /\ astray' \subseteq TabIds /\ hollow' \subseteq WindowIds
<1> USE DEF Inv
<1>1. t \in TabIds /\ DOMAIN windows \subseteq WindowIds
  BY WindowsAssumption DEF Ids, Used, TabIds, WindowIds
<1>2. CASE Refused \/ NotMade
  <2>1. /\ UNCHANGED <<tabs, windows, active, nextTab, astray, hollow>>
        /\ \/ nextWindow' = nextWindow
           \/ nextWindow <= MaxWindows /\ nextWindow' = nextWindow + 1
    BY <1>2 DEF Refused, NotMade
  <2> QED
    BY <2>1, Untouched DEF Held
<1>3. CASE MoveOut(t)
  <2>1. /\ windows' = WithoutEmpty(MovedTo(windows, nextWindow, t), active)
        /\ astray' = astray \cup ({t} \ tabs)
        /\ hollow' = hollow \cup (LeftEmpty(windows, t) \ {active})
        /\ nextWindow <= MaxWindows /\ nextWindow' = nextWindow + 1
        /\ tabs' = tabs /\ nextTab' = nextTab /\ TransferFocus
    BY <1>3 DEF MoveOut
  <2>2. PICK T : T = ListedTabs
    OBVIOUS
  <2>3. /\ Partition(windows, T) /\ active \in DOMAIN windows /\ Filled(windows, hollow)
        /\ T \subseteq Used /\ tabs \ astray = T \ astray
    BY <2>2 DEF Layout
  <2>4. nextWindow \notin DOMAIN windows
    BY WindowsAssumption DEF Ids
  <2>5. PICK n : n = nextWindow
    OBVIOUS
  <2>6. /\ Partition(windows', T \cup {t})
        /\ DOMAIN windows' \subseteq DOMAIN windows \cup {n}
        /\ AllKept(windows, windows')
        /\ Filled(windows', hollow')
    BY <1>1, <2>1, <2>3, <2>4, <2>5, MovesOut
  <2>7. Used' = Used
    BY <2>1 DEF Used
  <2>8. active' \in DOMAIN windows'
    BY <2>1, Refocused
  <2>9. T \cup {t} \subseteq Used' /\ tabs' \ astray' = (T \cup {t}) \ astray'
    BY <2>1, <2>3, <2>7
  <2>10. Layout'
    BY <2>6, <2>8, <2>9, Relaid
  <2>11. Ids'
    <3>1. /\ nextWindow' \in 1..(MaxWindows + 1)
          /\ \A w \in 1..(nextWindow - 1) : w \in 1..(nextWindow' - 1)
          /\ nextWindow \in 1..(nextWindow' - 1)
      BY <2>1, WindowsAssumption DEF Ids
    <3>2. DOMAIN windows' \subseteq 1..(nextWindow' - 1)
      BY <2>5, <2>6, <3>1 DEF Ids
    <3> QED
      BY <2>1, <2>7, <3>1, <3>2 DEF Ids
  <2>12. ShownStep
    BY <2>6 DEF AllKept, ShownStep
  <2>13. astray' \subseteq TabIds /\ hollow' \subseteq WindowIds
    BY <1>1, <2>1 DEF Held, LeftEmpty, WindowsOf
  <2> QED
    BY <2>7, <2>10, <2>11, <2>12, <2>13
<1> QED
  BY <1>2, <1>3

(* Every step keeps it, and what the windows show.                         *)
LEMMA InvNext ==
    ASSUME Inv, [Next]_vars
    PROVE  Inv' /\ ShownStep
<1> USE DEF Inv
<1>1. /\ nextTab \in Nat \ {0} /\ nextTab \notin Used
      /\ nextWindow \in Nat /\ nextWindow \notin DOMAIN windows
      /\ {MaxTabs, MaxWindows} \subseteq Nat
  BY WindowsAssumption DEF Ids, Used
<1>2. PICK T : T = ListedTabs
  OBVIOUS
<1>3. /\ Partition(windows, T) /\ T \subseteq Used /\ tabs \ astray = T \ astray
      /\ active \in DOMAIN windows /\ Filled(windows, hollow)
      /\ \A w \in DOMAIN windows : windows[w] \in Window /\ Good(windows[w])
      /\ \A w \in DOMAIN windows : \A t \in Listed(windows[w]) : t \in T
  BY <1>2 DEF Layout, Partition
<1>4. Used \subseteq TabIds /\ DOMAIN windows \subseteq WindowIds
  BY <1>1 DEF Ids, Used, TabIds, WindowIds
<1>5. /\ moves \in Seq(Used)
      /\ grabs \in [DOMAIN grabs -> Used] /\ DOMAIN grabs \subseteq DOMAIN windows
      /\ drag # NoDrag => drag \in Drags /\ drag.tab \in Used
      /\ astray \subseteq TabIds /\ hollow \subseteq WindowIds
  BY DEF Held
<1>7. ASSUME NEW w
      PROVE  /\ Without(grabs, w) \in [DOMAIN Without(grabs, w) -> Used]
             /\ DOMAIN Without(grabs, w) \subseteq DOMAIN windows
  BY <1>5 DEF Without
<1>8. ASSUME NEW w, NEW t \in Used
      PROVE  /\ With(grabs, w, t) \in [DOMAIN With(grabs, w, t) -> Used]
             /\ DOMAIN With(grabs, w, t) = DOMAIN grabs \cup {w}
  BY <1>5 DEF With
<1>9. CASE NewTabInWindow
  <2>1. PICK u : u = AddTab(windows[active], nextTab)
    OBVIOUS
  <2>2. /\ nextTab <= MaxTabs /\ nextTab' = nextTab + 1 /\ tabs' = tabs \cup {nextTab}
        /\ windows' = [windows EXCEPT ![active] = u]
        /\ UNCHANGED <<active, moves, grabs, drag, nextWindow, astray, hollow>>
    BY <1>9, <2>1 DEF NewTabInWindow
  <2>3. nextTab \in TabIds /\ nextTab \notin Listed(windows[active])
    BY <1>1, <1>3, <2>2 DEF TabIds
  <2>4. /\ u \in Window /\ Good(u) /\ Listed(u) = Listed(windows[active]) \cup {nextTab}
        /\ Kept(windows[active], u) /\ u.tabs # << >>
    <3>1. /\ u \in Window /\ Good(u) /\ Kept(windows[active], u)
          /\ Listed(u) = Listed(windows[active]) \cup {nextTab}
      BY <1>3, <2>1, <2>3, AddedTab DEF Good
    <3>2. PICK i \in 1..Len(u.tabs) : u.tabs[i] = nextTab
      BY <3>1, ListedAt
    <3>3. Len(u.tabs) # 0
      BY <3>1, <3>2 DEF Window
    <3> QED
      BY <3>1, <3>3
  <2>5. /\ Partition(windows', (T \ Listed(windows[active])) \cup Listed(u))
        /\ AllKept(windows, windows')
    <3>1. \A t \in Listed(u) : t \in T => t \in Listed(windows[active])
      BY <1>1, <1>3, <2>4
    <3> QED
      BY <1>3, <2>2, <2>4, <3>1, Replaced
  <2>6. (T \ Listed(windows[active])) \cup Listed(u) = T \cup {nextTab}
    BY <1>3, <2>4
  <2>7. DOMAIN windows' = DOMAIN windows
    BY <2>2
  <2>8. /\ nextTab' \in 1..(MaxTabs + 1) /\ Used \subseteq Used' /\ nextTab \in Used'
    BY <1>1, <2>2 DEF Ids, Used
  <2>9. Layout'
    <3>1. Filled(windows', hollow')
      BY <1>3, <2>2, <2>4 DEF Filled
    <3>2. /\ Partition(windows', T \cup {nextTab}) /\ T \cup {nextTab} \subseteq Used'
          /\ tabs' \ astray' = (T \cup {nextTab}) \ astray' /\ active' \in DOMAIN windows'
      BY <1>3, <2>2, <2>5, <2>6, <2>7, <2>8
    <3> QED
      BY <3>1, <3>2, Relaid
  <2>10. Ids'
    BY <2>2, <2>7, <2>8 DEF Ids
  <2>11. Held'
    BY <1>5, <2>2, <2>7, <2>8 DEF Held
  <2>12. ShownStep
    BY <2>5 DEF AllKept, ShownStep
  <2> QED
    BY <2>9, <2>10, <2>11, <2>12
<1>10. ASSUME NEW t \in TabIds, CloseTab(t)
       PROVE  Inv' /\ ShownStep
  <2>1. /\ t \in Listed(windows[active]) /\ tabs' = tabs \ {t}
        /\ windows' = WithoutEmpty(WithoutTab(windows, t), active)
        /\ TransferFocus /\ KeepGrabs(grabs)
        /\ UNCHANGED <<moves, drag, nextTab, nextWindow, astray, hollow>>
    BY <1>10 DEF CloseTab, Listed
  <2>2. /\ Partition(windows', T \ {t}) /\ DOMAIN windows' \subseteq DOMAIN windows
        /\ AllKept(windows, windows') /\ Filled(windows', hollow)
    BY <1>3, <2>1, ClosedTab
  <2>3. active' \in DOMAIN windows' /\ Used' = Used
    BY <2>1, Refocused DEF Used
  <2>4. Layout'
    <3>1. T \ {t} \subseteq Used' /\ tabs' \ astray' = (T \ {t}) \ astray'
      BY <1>3, <2>1, <2>3
    <3> QED
      BY <2>1, <2>2, <2>3, <3>1, Relaid
  <2>5. Ids'
    BY <2>1, <2>2, <2>3 DEF Ids
  <2>6. Held'
    <3>1. grabs' \in [DOMAIN grabs' -> Used] /\ DOMAIN grabs' \subseteq DOMAIN windows'
      BY <1>5, <2>1, GrabsKept
    <3> QED
      BY <1>5, <2>1, <2>3, <3>1 DEF Held
  <2>7. ShownStep
    BY <2>2 DEF AllKept, ShownStep
  <2> QED
    BY <2>4, <2>5, <2>6, <2>7
<1>11. ASSUME NEW t \in TabIds, MoveTabToNewWindowDeferred(t)
       PROVE  Inv' /\ ShownStep
  <2>1. /\ t \in Listed(windows[active]) /\ moves' = Append(moves, t)
        /\ UNCHANGED <<tabs, windows, active, grabs, drag, nextTab, nextWindow, astray, hollow>>
    BY <1>11 DEF MoveTabToNewWindowDeferred, Listed
  <2>2. /\ Ids' /\ Layout' /\ ShownStep
        /\ Used' = Used /\ DOMAIN windows' = DOMAIN windows
    BY <2>1, Untouched
  <2>3. moves' \in Seq(Used)
    BY <1>3, <1>5, <2>1
  <2> QED
    BY <1>5, <2>1, <2>2, <2>3 DEF Held
<1>12. ASSUME NEW i \in TabIds, SwitchToTab(i) \/ GrabTab(i)
       PROVE  Inv' /\ ShownStep
  <2>1. PICK w, u : w = windows[active] /\ u = [w EXCEPT !.current = i]
    OBVIOUS
  <2>2. /\ i \in 1..Len(w.tabs) /\ windows' = [windows EXCEPT ![active] = u]
        /\ grabs' = grabs \/ grabs' = With(grabs, active, w.tabs[i])
        /\ UNCHANGED <<tabs, active, moves, drag, nextTab, nextWindow, astray, hollow>>
    BY <1>12, <2>1 DEF SwitchToTab, GrabTab
  <2>3. w \in Window /\ Good(w) /\ i \in Nat
    BY <1>1, <1>3, <2>1 DEF TabIds
  <2>4. u \in Window /\ u.tabs = w.tabs /\ u.current = i
    BY <2>1, <2>3 DEF Window
  <2>5. Good(u) /\ Listed(u) = Listed(w) /\ Kept(w, u)
    BY <2>2, <2>3, <2>4 DEF Good, Listed, Kept
  <2>6. u.tabs # << >>
    <3>1. w.tabs \in Seq(TabIds)
      BY <2>3 DEF Window
    <3>2. w.tabs = << >> => Len(w.tabs) = 0
      OBVIOUS
    <3> QED
      BY <2>2, <2>4, <3>1, <3>2
  <2>7. /\ Ids' /\ Layout' /\ ShownStep
        /\ Used' = Used /\ DOMAIN windows' = DOMAIN windows
    BY <2>1, <2>2, <2>4, <2>5, <2>6, Edited
  <2>8. w.tabs[i] \in Used
    <3>1. w.tabs[i] \in Listed(w)
      BY <2>2, <2>3, ListedAt
    <3> QED
      BY <1>3, <2>1, <3>1
  <2>9. grabs' \in [DOMAIN grabs' -> Used] /\ DOMAIN grabs' \subseteq DOMAIN windows
    <3>1. PICK k : k = w.tabs[i]
      OBVIOUS
    <3>2. PICK g : g = With(grabs, active, k)
      OBVIOUS
    <3>3. g \in [DOMAIN g -> Used] /\ DOMAIN g = DOMAIN grabs \cup {active}
      BY <1>8, <2>8, <3>1, <3>2
    <3>4. grabs' = grabs \/ grabs' = g
      BY <2>2, <3>1, <3>2
    <3> QED
      BY <1>3, <1>5, <3>3, <3>4
  <2> QED
    BY <1>5, <2>2, <2>7, <2>9 DEF Held
<1>13. CASE ReleaseTab
  <2>1. /\ grabs' = Without(grabs, active)
        /\ UNCHANGED <<tabs, windows, active, moves, drag, nextTab, nextWindow, astray, hollow>>
    BY <1>13 DEF ReleaseTab
  <2>2. /\ Ids' /\ Layout' /\ ShownStep
        /\ Used' = Used /\ DOMAIN windows' = DOMAIN windows
    BY <2>1, Untouched
  <2> QED
    BY <1>5, <1>7, <2>1, <2>2 DEF Held
<1>14. ASSUME NEW i \in TabIds, NEW j \in TabIds, MoveTab(i, j)
       PROVE  Inv' /\ ShownStep
  <2>1. PICK w, u : w = windows[active] /\ u = ReorderTab(w, i, j)
    OBVIOUS
  <2>2. /\ i \in 1..Len(w.tabs) /\ j \in 1..Len(w.tabs)
        /\ windows' = [windows EXCEPT ![active] = u]
        /\ grabs' \in {grabs, Without(grabs, active)}
        /\ UNCHANGED <<tabs, active, moves, drag, nextTab, nextWindow, astray, hollow>>
    BY <1>14, <2>1 DEF MoveTab
  <2>3. w \in Window /\ Good(w)
    BY <1>3, <2>1
  <2>4. /\ u \in Window /\ Good(u) /\ Listed(u) = Listed(w) /\ Shown(u) = Shown(w)
        /\ u.tabs # << >>
    BY <2>1, <2>2, <2>3, Reordered
  <2>5. Kept(w, u)
    BY <2>4 DEF Kept
  <2>6. /\ Ids' /\ Layout' /\ ShownStep
        /\ Used' = Used /\ DOMAIN windows' = DOMAIN windows
    BY <2>1, <2>2, <2>4, <2>5, Edited
  <2>7. grabs' \in [DOMAIN grabs' -> Used] /\ DOMAIN grabs' \subseteq DOMAIN windows
    BY <1>5, <1>7, <2>2
  <2> QED
    BY <1>5, <2>2, <2>6, <2>7 DEF Held
<1>15. CASE MoveTabToNewWindow
  <2>1. PICK t : t = Head(moves)
    OBVIOUS
  <2>2. /\ moves # << >> /\ moves' = Tail(moves) /\ drag' = drag
        /\ Refused \/ NotMade \/ MoveOut(t)
        /\ KeepGrabs(grabs)
    BY <1>15, <2>1 DEF MoveTabToNewWindow
  <2>3. t \in Used /\ moves' \in Seq(Used)
    BY <1>5, <2>1, <2>2
  <2>4. /\ Ids' /\ Layout' /\ ShownStep /\ Used' = Used
        /\ astray' \subseteq TabIds /\ hollow' \subseteq WindowIds
    BY <2>2, <2>3, MoveOutKeeps
  <2>5. grabs' \in [DOMAIN grabs' -> Used] /\ DOMAIN grabs' \subseteq DOMAIN windows'
    BY <1>5, <2>2, GrabsKept
  <2> QED
    BY <1>5, <2>2, <2>3, <2>4, <2>5 DEF Held
<1>16. CASE TearOffTab
  <2>1. PICK t, g : t = grabs[active] /\ g = Without(grabs, active)
    OBVIOUS
  <2>2. /\ active \in DOMAIN grabs /\ moves' = moves /\ KeepGrabs(g)
        /\ \/ (Refused \/ NotMade) /\ drag' = drag
           \/ MoveOut(t) /\ drag' \in {drag, [window |-> nextWindow, tab |-> t]}
    BY <1>16, <2>1 DEF TearOffTab
  <2>3. t \in Used
    BY <1>5, <2>1, <2>2
  <2>4. /\ Ids' /\ Layout' /\ ShownStep /\ Used' = Used
        /\ astray' \subseteq TabIds /\ hollow' \subseteq WindowIds
    BY <2>2, <2>3, MoveOutKeeps
  <2>5. grabs' \in [DOMAIN grabs' -> Used] /\ DOMAIN grabs' \subseteq DOMAIN windows'
    BY <1>7, <2>1, <2>2, GrabsKept
  <2>6. drag' # NoDrag => drag' \in Drags /\ drag'.tab \in Used
    <3>1. CASE drag' = drag
      BY <1>5, <3>1
    <3>2. CASE MoveOut(t) /\ drag' = [window |-> nextWindow, tab |-> t]
      <4>1. nextWindow \in WindowIds
        BY <1>1, <3>2 DEF MoveOut, Ids, WindowIds
      <4> QED
        BY <1>4, <2>3, <3>2, <4>1 DEF Drags
    <3> QED
      BY <2>2, <3>1, <3>2
  <2> QED
    BY <1>5, <2>2, <2>4, <2>5, <2>6 DEF Held
<1>17. CASE DragSingleTab
  <2>1. /\ active \in DOMAIN grabs /\ grabs' = Without(grabs, active)
        /\ drag' = [window |-> active, tab |-> grabs[active]]
        /\ UNCHANGED <<tabs, windows, active, moves, nextTab, nextWindow, astray, hollow>>
    BY <1>17 DEF DragSingleTab
  <2>2. /\ Ids' /\ Layout' /\ ShownStep
        /\ Used' = Used /\ DOMAIN windows' = DOMAIN windows
    BY <2>1, Untouched
  <2>3. drag' \in Drags /\ drag'.tab \in Used
    BY <1>3, <1>4, <1>5, <2>1 DEF Drags
  <2> QED
    BY <1>5, <1>7, <2>1, <2>2, <2>3 DEF Held
<1>18. ASSUME NEW b \in WindowIds, NEW i \in TabIds, ExecuteTabMerge(b, i)
       PROVE  Inv' /\ ShownStep
  <2>1. PICK d, t, out : d = drag.window /\ t = drag.tab /\ out = WithoutTab(windows, t)
    OBVIOUS
  <2>2. /\ drag # NoDrag /\ d \in DOMAIN windows /\ b \in DOMAIN windows \ {d}
        /\ windows' = Without([out EXCEPT ![b] = Merged(@, i, t)], d)
        /\ astray' = astray \cup ({t} \ tabs) \cup (tabs \cap Range(out[d].tabs))
        /\ hollow' = hollow \cup (LeftEmpty(windows, t) \ {d, b})
        /\ active' = b
        /\ KeepGrabs(grabs) \/ KeepGrabs(With(grabs, b, t))
        /\ drag' = NoDrag
        /\ UNCHANGED <<tabs, moves, nextTab, nextWindow>>
    BY <1>18, <2>1 DEF ExecuteTabMerge
  <2>3. t \in Used /\ t \in TabIds /\ i \in Nat \ {0}
    BY <1>1, <1>4, <1>5, <2>1, <2>2 DEF TabIds
  <2>4. /\ Partition(windows', (T \cup {t}) \ Listed(out[d]))
        /\ Listed(out[d]) = Listed(windows[d]) \ {t}
        /\ DOMAIN windows' = DOMAIN windows \ {d}
        /\ Shown(windows'[b]) = t
        /\ \A w \in DOMAIN windows' : w # b => Kept(windows[w], windows'[w])
        /\ Filled(windows', hollow \cup (LeftEmpty(windows, t) \ {d, b}))
    <3>1. PICK E : E = hollow
      OBVIOUS
    <3>2. /\ Partition(windows, T) /\ Filled(windows, E) /\ i \in Nat \ {0}
          /\ d \in DOMAIN windows /\ b \in DOMAIN windows \ {d} /\ t \in TabIds
      BY <1>3, <2>2, <2>3, <3>1
    <3>3. /\ Partition(AfterMerge(windows, d, b, i, t),
                       (T \cup {t}) \ Listed(WithoutTab(windows, t)[d]))
          /\ Listed(WithoutTab(windows, t)[d]) = Listed(windows[d]) \ {t}
          /\ DOMAIN AfterMerge(windows, d, b, i, t) = DOMAIN windows \ {d}
          /\ Shown(AfterMerge(windows, d, b, i, t)[b]) = t
          /\ \A w \in DOMAIN AfterMerge(windows, d, b, i, t) :
               w # b => Kept(windows[w], AfterMerge(windows, d, b, i, t)[w])
          /\ Filled(AfterMerge(windows, d, b, i, t),
                    E \cup (LeftEmpty(windows, t) \ {d, b}))
      BY <3>2, MergedInto, Zenon
    <3>4. windows' = AfterMerge(windows, d, b, i, t)
      BY <2>1, <2>2 DEF AfterMerge
    <3> QED
      BY <2>1, <3>1, <3>3, <3>4, Zenon
  <2>5. Used' = Used /\ active' \in DOMAIN windows'
    BY <2>2, <2>4 DEF Used
  <2>6. Layout'
    <3>1. PICK U : U = (T \cup {t}) \ Listed(out[d])
      OBVIOUS
    <3>2. U \subseteq Used' /\ tabs' \ astray' = U \ astray'
      BY <1>3, <2>2, <2>3, <2>4, <2>5, <3>1 DEF Listed
    <3> QED
      BY <2>2, <2>4, <2>5, <3>1, <3>2, Relaid
  <2>7. Ids'
    BY <2>2, <2>4, <2>5 DEF Ids
  <2>8. grabs' \in [DOMAIN grabs' -> Used] /\ DOMAIN grabs' \subseteq DOMAIN windows'
    BY <1>5, <1>8, <2>2, <2>3, GrabsKept
  <2>9. astray' \subseteq TabIds /\ hollow' \subseteq WindowIds
    <3>1. Range(out[d].tabs) \subseteq TabIds
      BY <1>3, <1>4, <2>2, <2>4 DEF Listed
    <3> QED
      BY <1>4, <1>5, <2>2, <2>3, <3>1 DEF LeftEmpty, WindowsOf
  <2>10. Held'
    BY <1>5, <2>2, <2>5, <2>8, <2>9 DEF Held
  <2>11. ShownStep
    BY <2>1, <2>2, <2>4 DEF ShownStep
  <2> QED
    BY <2>6, <2>7, <2>10, <2>11
<1>19. CASE EndDrag
  <2>1. /\ drag' = NoDrag
        /\ UNCHANGED <<tabs, windows, active, moves, grabs, nextTab, nextWindow, astray, hollow>>
    BY <1>19 DEF EndDrag
  <2>2. /\ Ids' /\ Layout' /\ ShownStep
        /\ Used' = Used /\ DOMAIN windows' = DOMAIN windows
    BY <2>1, Untouched
  <2> QED
    BY <1>5, <2>1, <2>2 DEF Held
<1>20. ASSUME NEW w \in WindowIds, FocusWindow(w)
       PROVE  Inv' /\ ShownStep
  <2>1. /\ active' \in DOMAIN windows
        /\ UNCHANGED <<tabs, windows, moves, grabs, drag, nextTab, nextWindow, astray, hollow>>
    BY <1>20 DEF FocusWindow
  <2>2. Used' = Used
    BY <2>1 DEF Used
  <2>3. Ids' /\ Layout'
    BY <2>1, <2>2 DEF Ids, Layout, ListedTabs
  <2>4. ShownStep
    BY <2>1, KeptSame DEF ShownStep
  <2> QED
    BY <1>5, <2>1, <2>2, <2>3, <2>4 DEF Held
<1>21. CASE CreateWindow
  <2>1. /\ nextWindow <= MaxWindows /\ nextWindow' = nextWindow + 1
        /\ UNCHANGED <<moves, grabs, drag, astray, hollow>>
    BY <1>21 DEF CreateWindow
  <2>2. CASE UNCHANGED <<tabs, windows, active, nextTab>>
    <3>1. /\ Ids' /\ Layout' /\ ShownStep
          /\ Used' = Used /\ DOMAIN windows' = DOMAIN windows
      BY <2>1, <2>2, Untouched
    <3> QED
      BY <1>5, <2>1, <3>1 DEF Held
  <2>3. CASE /\ nextTab <= MaxTabs
             /\ nextTab' = nextTab + 1
             /\ tabs' = tabs \cup {nextTab}
             /\ windows' = With(windows, nextWindow, AddTab(NewWindow, nextTab))
             /\ active' = nextWindow
    <3>1. PICK u, n : u = AddTab(NewWindow, nextTab) /\ n = nextWindow
      OBVIOUS
    <3>2. nextTab \in TabIds
      BY <1>1, <2>3 DEF TabIds
    <3>3. u \in Window /\ Good(u) /\ Listed(u) = {nextTab}
      BY <3>1, <3>2, EmptyWindow, AddedTab
    <3>4. u.tabs # << >>
      <4>1. PICK i \in 1..Len(u.tabs) : u.tabs[i] = nextTab
        BY <3>3, ListedAt
      <4>2. Len(u.tabs) # 0
        BY <3>3, <4>1 DEF Window
      <4> QED
        BY <4>2
    <3>5. windows' = With(windows, n, u)
      BY <2>3, <3>1
    <3>6. /\ DOMAIN windows' = DOMAIN windows \cup {n} /\ windows'[n] = u
          /\ \A w \in DOMAIN windows : windows'[w] = windows[w]
      BY <1>1, <3>1, <3>5 DEF With
    <3>7. Partition(windows', T \cup Listed(u))
      <4>1. Fresh(windows, T, n, u)
        BY <1>1, <1>3, <3>1, <3>3 DEF Fresh
      <4>2. Partition(With(windows, n, u), T \cup Listed(u))
        BY <1>3, <4>1, Added, Zenon
      <4> QED
        BY <3>5, <4>2
    <3>8. /\ nextTab' \in 1..(MaxTabs + 1) /\ Used \subseteq Used' /\ nextTab \in Used'
      BY <1>1, <2>3 DEF Ids, Used
    <3>9. Layout'
      <4>1. PICK U : U = T \cup Listed(u)
        OBVIOUS
      <4>2. Filled(windows', hollow')
        BY <1>3, <2>1, <3>4, <3>6 DEF Filled
      <4>3. /\ U \subseteq Used' /\ tabs' \ astray' = U \ astray'
            /\ active' \in DOMAIN windows'
        BY <1>3, <2>1, <2>3, <3>1, <3>3, <3>6, <3>8, <4>1
      <4> QED
        BY <3>7, <4>1, <4>2, <4>3, Relaid
    <3>10. Ids'
      <4>1. /\ nextWindow' \in 1..(MaxWindows + 1)
            /\ \A w \in 1..(nextWindow - 1) : w \in 1..(nextWindow' - 1)
            /\ nextWindow \in 1..(nextWindow' - 1)
        BY <1>1, <2>1 DEF Ids
      <4>2. DOMAIN windows' \subseteq 1..(nextWindow' - 1)
        BY <3>1, <3>6, <4>1 DEF Ids
      <4>3. tabs' \subseteq Used'
        BY <2>3, <3>8 DEF Ids
      <4> QED
        BY <3>8, <4>1, <4>2, <4>3 DEF Ids
    <3>11. Held'
      BY <1>5, <2>1, <3>6, <3>8 DEF Held
    <3>12. ShownStep
      BY <3>6, KeptSame DEF ShownStep
    <3> QED
      BY <3>9, <3>10, <3>11, <3>12
  <2> QED
    BY <1>21, <2>2, <2>3 DEF CreateWindow
<1>22. ASSUME NEW w \in WindowIds, CloseWindow(w)
       PROVE  Inv' /\ ShownStep
  <2>1. /\ w \in DOMAIN windows /\ windows' = Without(windows, w)
        /\ tabs' = tabs \ Listed(windows[w])
        /\ TransferFocus /\ KeepGrabs(grabs)
        /\ UNCHANGED <<moves, drag, nextTab, nextWindow, astray, hollow>>
    BY <1>22 DEF CloseWindow, Listed
  <2>2. /\ Partition(windows', T \ Listed(windows[w])) /\ DOMAIN windows' = DOMAIN windows \ {w}
        /\ \A v \in DOMAIN windows \ {w} : windows'[v] = windows[v]
    BY <1>3, <2>1, Dropped
  <2>3. active' \in DOMAIN windows' /\ Used' = Used
    BY <2>1, Refocused DEF Used
  <2>4. Layout'
    <3>1. PICK U : U = T \ Listed(windows[w])
      OBVIOUS
    <3>2. Filled(windows', hollow')
      BY <1>3, <2>1, <2>2 DEF Filled
    <3>3. U \subseteq Used' /\ tabs' \ astray' = U \ astray'
      BY <1>3, <2>1, <2>3, <3>1
    <3> QED
      BY <2>2, <2>3, <3>1, <3>2, <3>3, Relaid
  <2>5. Ids'
    BY <2>1, <2>2, <2>3 DEF Ids
  <2>6. Held'
    <3>1. grabs' \in [DOMAIN grabs' -> Used] /\ DOMAIN grabs' \subseteq DOMAIN windows'
      BY <1>5, <2>1, GrabsKept
    <3> QED
      BY <1>5, <2>1, <2>3, <3>1 DEF Held
  <2>7. ShownStep
    BY <2>2, KeptSame DEF ShownStep
  <2> QED
    BY <2>4, <2>5, <2>6, <2>7
<1>23. CASE UNCHANGED vars
  <2>1. UNCHANGED <<tabs, windows, active, nextTab, nextWindow, astray, hollow>>
    BY <1>23 DEF vars
  <2>2. /\ Ids' /\ Layout' /\ ShownStep
        /\ Used' = Used /\ DOMAIN windows' = DOMAIN windows
    BY <2>1, Untouched
  <2> QED
    BY <1>5, <1>23, <2>2 DEF vars, Held
<1> QED
  BY <1>9, <1>10, <1>11, <1>12, <1>13, <1>14, <1>15, <1>16, <1>17, <1>18, <1>19, <1>20,
     <1>21, <1>22, <1>23 DEF Next

-----------------------------------------------------------------------------
(* The theorems *)

(* The registry, the windows, and the names that events and drags hold     *)
(* have their types in every behaviour.                                    *)
THEOREM RegistryTypeCorrect == Spec => []TypeOK
<1>1. Init => Inv
  BY InvInit
<1>2. Inv /\ [Next]_vars => Inv'
  BY InvNext
<1>3. Inv => TypeOK
  BY InvMeans
<1> QED
  BY <1>1, <1>2, <1>3, PTL DEF Spec

(* However many tabs and windows there are, and however long ago the names *)
(* of tabs were taken that moves, tear-offs and merges act on: no tab is   *)
(* listed twice, the active window exists, a window that lists tabs shows  *)
(* one of them, and the listed tabs are the registered ones but for those  *)
(* that went astray.                                                       *)
THEOREM TabsArePartitioned == Spec => []TabsPartition
<1>1. Init => Inv
  BY InvInit
<1>2. Inv /\ [Next]_vars => Inv'
  BY InvNext
<1>3. Inv => TabsPartition
  BY InvMeans
<1> QED
  BY <1>1, <1>2, <1>3, PTL DEF Spec

(* No reordering, closing or moving of other tabs changes which tab a      *)
(* window shows.                                                           *)
THEOREM ShownIsKept == Spec => ShownTabKept
<1>1. Init => Inv
  BY InvInit
<1>2. Inv /\ [Next]_vars => Inv'
  BY InvNext
<1>3. Inv /\ [Next]_vars =>
        \A w \in DOMAIN windows \cap DOMAIN windows' :
          ( /\ windows'[w].tabs # windows[w].tabs
            /\ Range(windows'[w].tabs) \subseteq Range(windows[w].tabs)
            /\ Shown(windows[w]) \in Range(windows'[w].tabs) )
          => \/ Shown(windows'[w]) = Shown(windows[w])
             \/ drag # NoDrag /\ drag' = NoDrag /\ Shown(windows'[w]) = drag.tab
  BY InvNext DEF ShownStep, Kept
<1> QED
  BY <1>1, <1>2, <1>3, PTL DEF Spec, ShownTabKept
=============================================================================
