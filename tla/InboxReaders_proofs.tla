------------------------- MODULE InboxReaders_proofs -------------------------
(***************************************************************************)
(* What the readers of the notification journal see, for any number of     *)
(* Agents and notices, any size of the journal, of a page and of a         *)
(* compaction, and any crashes: a follower sees each notice once, in order *)
(* and with none left out, and so does a client that turns the pages.      *)
(*                                                                         *)
(* The journal is selected from by a recursion over its lines (Selected).  *)
(* The induction theorems of the library take a predicate as a parameter;  *)
(* here induction is over a set (NatInduct), from the well-foundedness of  *)
(* the natural numbers.                                                    *)
(***************************************************************************)
EXTENDS Inbox_proofs, WellFoundedInduction

-----------------------------------------------------------------------------
(* The invariant.                                                          *)

(* The largest number that a line can have: the one that is being written  *)
(* has none before its last piece.                                         *)
Writing == \E w \in Writers : pub[w].pc \in {"line", "torn"}

Top == IF Writing THEN counter - 1 ELSE counter

(* The lines that can be parsed are in the order of their numbers.         *)
Ascending(s) == \A i, j \in 1 .. Len(s) : i < j /\ s[i] # 0 /\ s[j] # 0 => s[i] < s[j]

Lines == /\ Ascending(journal)
         /\ \A i \in 1 .. Len(journal) : journal[i] <= Top
         /\ ack \in Nat /\ ack <= Top

(* An Agent that works, or is about to record its event, has an advance    *)
(* left that no bound refuses.                                             *)
Budget == \A a \in Agents :
  progress[a] + (IF status[a] = "working" THEN 1 ELSE 0)
              + (IF pub[a].pc = "event" THEN 1 ELSE 0) <= MaxProgress + 2

Clocks == /\ Budget
          /\ \A a \in Agents : notified[a] <= Never

Flags == /\ up \in {"down", "booting", "running"}
         /\ lock \in Writers \cup {Nobody}
         /\ tail \in {"whole", "torn", "bare"}
         /\ \A w \in Writers : pub[w].seq <= counter

(* What the follower has seen is in order, above where it started, and up  *)
(* to where it goes on; nothing between is left out.                       *)
FollowOK ==
  /\ follow \in [on : BOOLEAN, start : Nat, after : Nat, min : Nat, pc : {"poll", "read"},
                 ack : Nat, seen : Seq(Nat)]
  /\ follow.start <= follow.after /\ follow.after <= Top
  /\ follow.ack <= ack

InOrder ==
  /\ \A i \in 1 .. Len(follow.seen) : follow.start < follow.seen[i] /\ follow.seen[i] <= follow.after
  /\ \A i, j \in 1 .. Len(follow.seen) : i < j => follow.seen[i] < follow.seen[j]

NoneMissed ==
  \A n \in Elements(journal) \ {0} :
    follow.start < n /\ n <= follow.after /\ Priority(n) >= follow.min
      => n \in Elements(follow.seen) \/ n <= ack

(* So for the pages, from the first record shown to the last.              *)
PageOK ==
  /\ page \in [on : BOOLEAN, all : BOOLEAN, top : Nat, items : Seq(Nat)]
  /\ page.top <= Top
  /\ ~page.on => page = NoPage
  /\ page.on => page.items # <<>>

ItemsInOrder ==
  /\ \A i \in 1 .. Len(page.items) : 0 < page.items[i] /\ page.items[i] <= page.top
  /\ \A i, j \in 1 .. Len(page.items) : i < j => page.items[i] > page.items[j]

NoneSkipped ==
  page.on =>
    \A n \in Elements(Visible) \ {0} :
      Last(page.items) <= n /\ n <= page.top
        => n \in Elements(page.items) \/ (~page.all /\ n <= ack)

Shared == Lines /\ Clocks /\ Flags

ReaderInv == /\ Shared /\ FollowOK /\ InOrder /\ NoneMissed
             /\ PageOK /\ ItemsInOrder /\ NoneSkipped

-----------------------------------------------------------------------------
(* Induction over the natural numbers, for sets.                           *)

LEMMA NatLeast ==
  ASSUME NEW T \in SUBSET Nat, T # {}
  PROVE  \E x \in T : \A y \in T : x <= y
<1> DEFINE R == OpToRel(<, Nat)
<1>1. \A x, y \in Nat : <<y, x>> \in R <=> y < x
  BY DEF OpToRel
<1>2. IsWellFoundedOn(R, Nat)
  BY NatLessThanWellFounded
<1> HIDE DEF R
<1>3. PICK x \in T : \A y \in T : ~ (<<y, x>> \in R)
  BY <1>2, WFMin
<1>4. \A y \in T : ~ (y < x)
  BY <1>1, <1>3
<1>5. \A y \in T : x <= y
  BY <1>4
<1> QED
  BY <1>5

LEMMA NatInduct ==
  ASSUME NEW S, 0 \in S, \A n \in Nat : n \in S => n + 1 \in S
  PROVE  \A n \in Nat : n \in S
<1> SUFFICES ASSUME Nat \ S # {} PROVE FALSE
  OBVIOUS
<1>1. PICK x \in Nat \ S : \A y \in Nat \ S : x <= y
  BY NatLeast
<1>2. x # 0 /\ x - 1 \in Nat /\ ~ (x <= x - 1)
  BY <1>1
<1>3. x - 1 \in S
  BY <1>1, <1>2
<1>4. (x - 1) + 1 = x
  BY <1>1
<1> QED
  BY <1>2, <1>3, <1>4

-----------------------------------------------------------------------------
(* Selected.                                                               *)

(* The members of the first i elements of s that belong to S, up to n.     *)
UpTo(g, n, s, S) == g = [i \in 0 .. n |->
  IF i = 0 THEN <<>>
  ELSE IF s[i] \in S THEN Append(g[i - 1], s[i]) ELSE g[i - 1]]

LEMMA UpToExists == \A s, S : \A n \in Nat : \E g : UpTo(g, n, s, S)
<1> SUFFICES ASSUME NEW s, NEW S PROVE \A n \in Nat : \E g : UpTo(g, n, s, S)
  OBVIOUS
<1> DEFINE N == {n \in Nat : \E g : UpTo(g, n, s, S)}
<1>1. 0 \in N
  <2>1. UpTo([i \in 0 .. 0 |-> <<>>], 0, s, S)
    BY DEF UpTo
  <2> QED
    BY <2>1
<1>2. ASSUME NEW n \in Nat, n \in N PROVE n + 1 \in N
  <2>1. PICK g : UpTo(g, n, s, S)
    BY <1>2
  <2> DEFINE next == IF s[n + 1] \in S THEN Append(g[n], s[n + 1]) ELSE g[n]
             h == [i \in 0 .. n + 1 |-> IF i = n + 1 THEN next ELSE g[i]]
             k == [i \in 0 .. n + 1 |-> IF i = 0 THEN <<>>
                     ELSE IF s[i] \in S THEN Append(h[i - 1], s[i]) ELSE h[i - 1]]
  <2>2. ASSUME NEW i \in 0 .. n + 1 PROVE h[i] = k[i]
    <3>1. CASE i = n + 1
      <4>1. h[i] = next /\ h[i - 1] = g[n] /\ i # 0
        BY <3>1
      <4> QED
        BY <3>1, <4>1
    <3>2. CASE i = 0
      <4>1. h[i] = g[0] /\ k[i] = <<>>
        BY <3>2
      <4>2. g[0] = <<>>
        BY <2>1 DEF UpTo
      <4> QED
        BY <4>1, <4>2
    <3>3. CASE i \in 1 .. n
      <4>1. h[i] = g[i] /\ h[i - 1] = g[i - 1] /\ i \in 0 .. n /\ i # 0
        BY <3>3
      <4>2. g[i] = IF s[i] \in S THEN Append(g[i - 1], s[i]) ELSE g[i - 1]
        BY <2>1, <4>1 DEF UpTo
      <4>3. k[i] = IF s[i] \in S THEN Append(h[i - 1], s[i]) ELSE h[i - 1]
        BY <4>1
      <4> QED
        BY <4>1, <4>2, <4>3
    <3> QED
      BY <3>1, <3>2, <3>3
  <2>3. h = k
    BY <2>2
  <2>4. UpTo(h, n + 1, s, S)
    BY <2>3 DEF UpTo
  <2> QED
    BY <2>4
<1> HIDE DEF N
<1>3. \A n \in Nat : n \in N
  BY <1>1, <1>2, NatInduct
<1> QED
  BY <1>3 DEF N

LEMMA SelectedByUpTo ==
  ASSUME NEW S, NEW s \in Seq(Nat)
  PROVE  \E g : UpTo(g, Len(s), s, S) /\ Selected(s, S) = g[Len(s)]
<1> DEFINE g == CHOOSE g : UpTo(g, Len(s), s, S)
<1>1. UpTo(g, Len(s), s, S)
  BY UpToExists, LenProperties
<1>2. Selected(s, S) = g[Len(s)]
  BY DEF Selected, UpTo
<1> QED
  BY <1>1, <1>2

Pairwise(s, R) == \A i, j \in 1 .. Len(s) : i < j => <<s[i], s[j]>> \in R

(* What is selected is what belongs to S, in the order it had.             *)
LEMMA SelectedProperties ==
  ASSUME NEW s \in Seq(Nat), NEW S
  PROVE  /\ Selected(s, S) \in Seq(Nat)
         /\ Elements(Selected(s, S)) = Elements(s) \cap S
         /\ \A R : Pairwise(s, R) => Pairwise(Selected(s, S), R)
<1>0. Len(s) \in Nat /\ DOMAIN s = 1 .. Len(s) /\ \A i \in 1 .. Len(s) : s[i] \in Nat
  BY LenProperties, ElementOfSeq
<1>1. PICK g : UpTo(g, Len(s), s, S) /\ Selected(s, S) = g[Len(s)]
  BY SelectedByUpTo
<1>2. /\ g[0] = <<>>
      /\ \A i \in 1 .. Len(s) : g[i] = IF s[i] \in S THEN Append(g[i - 1], s[i]) ELSE g[i - 1]
  <2>1. g[0] = <<>>
    BY <1>0, <1>1 DEF UpTo
  <2>2. ASSUME NEW i \in 1 .. Len(s)
        PROVE  g[i] = IF s[i] \in S THEN Append(g[i - 1], s[i]) ELSE g[i - 1]
    <3>1. i \in 0 .. Len(s) /\ i # 0
      BY <1>0
    <3> QED
      BY <1>1, <3>1 DEF UpTo
  <2> QED
    BY <2>1, <2>2
<1> DEFINE Good(n) ==
      /\ g[n] \in Seq(Nat)
      /\ \A k \in 1 .. Len(g[n]) : \E i \in 1 .. n : g[n][k] = s[i] /\ s[i] \in S
      /\ \A i \in 1 .. n : s[i] \in S => \E k \in 1 .. Len(g[n]) : g[n][k] = s[i]
      /\ \A R : Pairwise(s, R) => Pairwise(g[n], R)
    N == {n \in Nat : n <= Len(s) => Good(n)}
<1>3. 0 \in N
  <2>1. g[0] \in Seq(Nat) /\ Len(g[0]) = 0
    BY <1>2
  <2> QED
    BY <2>1 DEF Pairwise
<1>4. ASSUME NEW n \in Nat, n \in N PROVE n + 1 \in N
  <2> SUFFICES ASSUME n + 1 <= Len(s) PROVE Good(n + 1)
    OBVIOUS
  <2> DEFINE old == g[n]
             new == g[n + 1]
             e   == s[n + 1]
  <2>0. n <= Len(s) /\ n + 1 \in 1 .. Len(s) /\ (n + 1) - 1 = n
    BY <1>0
  <2>1. Good(n) /\ n + 1 \in 1 .. Len(s) /\ e \in Nat /\ (n + 1) - 1 = n
    <3>1. n <= Len(s) => Good(n)
      BY <1>4
    <3>2. e \in Nat
      BY <1>0, <2>0
    <3> HIDE DEF Good, N
    <3> QED
      BY <2>0, <3>1, <3>2
  <2>2. new = IF e \in S THEN Append(old, e) ELSE old
    BY <1>2, <2>1
  <2>3. /\ old \in Seq(Nat) /\ Len(old) \in Nat
        /\ \A k \in 1 .. Len(old) : \E i \in 1 .. n : old[k] = s[i] /\ s[i] \in S
        /\ \A i \in 1 .. n : s[i] \in S => \E k \in 1 .. Len(old) : old[k] = s[i]
        /\ \A R : Pairwise(s, R) => Pairwise(old, R)
    BY <2>1, LenProperties
  <2>4. \A i \in 1 .. n + 1 : i \in 1 .. n \/ i = n + 1
    OBVIOUS
  <2>5. \A i \in 1 .. n : i \in 1 .. n + 1
    OBVIOUS
  <2> HIDE DEF old, new, e
  <2>6. CASE e \notin S
    <3>1. new = old
      BY <2>2, <2>6
    <3>2. \A k \in 1 .. Len(new) : \E i \in 1 .. n + 1 : new[k] = s[i] /\ s[i] \in S
      BY <2>3, <2>5, <3>1
    <3>3. \A i \in 1 .. n + 1 : s[i] \in S => \E k \in 1 .. Len(new) : new[k] = s[i]
      BY <2>3, <2>4, <2>6, <3>1 DEF e
    <3> QED
      BY <2>3, <3>1, <3>2, <3>3 DEF new
  <2>7. CASE e \in S
    <3>1. /\ new \in Seq(Nat) /\ Len(new) = Len(old) + 1
          /\ \A k \in 1 .. Len(old) : new[k] = old[k]
          /\ new[Len(old) + 1] = e
      BY <2>1, <2>2, <2>3, <2>7, AppendProperties
    <3>2. \A k \in 1 .. Len(new) : \E i \in 1 .. n + 1 : new[k] = s[i] /\ s[i] \in S
      <4> TAKE k \in 1 .. Len(new)
      <4>1. CASE k = Len(old) + 1
        BY <2>7, <3>1, <4>1 DEF e
      <4>2. CASE k \in 1 .. Len(old)
        BY <2>3, <2>5, <3>1, <4>2
      <4>3. k = Len(old) + 1 \/ k \in 1 .. Len(old)
        BY <2>3, <3>1
      <4> QED
        BY <4>1, <4>2, <4>3
    <3>3. \A i \in 1 .. n + 1 : s[i] \in S => \E k \in 1 .. Len(new) : new[k] = s[i]
      <4> TAKE i \in 1 .. n + 1
      <4> HAVE s[i] \in S
      <4>1. CASE i = n + 1
        <5>1. Len(old) + 1 \in 1 .. Len(new) /\ new[Len(old) + 1] = s[i]
          BY <2>3, <3>1, <4>1 DEF e
        <5> QED
          BY <5>1
      <4>2. CASE i \in 1 .. n
        <5>1. PICK k \in 1 .. Len(old) : old[k] = s[i]
          BY <2>3, <4>2
        <5>2. k \in 1 .. Len(new) /\ new[k] = s[i]
          BY <2>3, <3>1, <5>1
        <5> QED
          BY <5>2
      <4> QED
        BY <4>1, <4>2
    <3>4. ASSUME NEW R, Pairwise(s, R) PROVE Pairwise(new, R)
      <4> SUFFICES ASSUME NEW a \in 1 .. Len(new), NEW b \in 1 .. Len(new), a < b
                   PROVE  <<new[a], new[b]>> \in R
        BY DEF Pairwise
      <4>0. a \in 1 .. Len(old)
        BY <2>3, <3>1
      <4>1. CASE b = Len(old) + 1
        <5>1. PICK i \in 1 .. n : old[a] = s[i]
          BY <2>3, <4>0
        <5>2. i \in 1 .. Len(s) /\ i < n + 1
          BY <1>0, <2>1
        <5>3. <<s[i], s[n + 1]>> \in R
          BY <2>1, <3>4, <5>2 DEF Pairwise
        <5> QED
          BY <3>1, <4>0, <4>1, <5>1, <5>3 DEF e
      <4>2. CASE b \in 1 .. Len(old)
        <5>1. Pairwise(old, R)
          BY <2>3, <3>4
        <5> QED
          BY <3>1, <4>0, <4>2, <5>1 DEF Pairwise
      <4> QED
        BY <2>3, <3>1, <4>1, <4>2
    <3> QED
      BY <3>1, <3>2, <3>3, <3>4 DEF new
  <2> QED
    BY <2>6, <2>7
<1> HIDE DEF N
<1>5. \A n \in Nat : n \in N
  BY <1>3, <1>4, NatInduct
<1>6. Good(Len(s))
  <2>1. Len(s) \in N
    BY <1>0, <1>5
  <2>2. Len(s) <= Len(s)
    BY <1>0
  <2> HIDE DEF Good
  <2> QED
    BY <2>1, <2>2 DEF N
<1> DEFINE sel == g[Len(s)]
<1>7. /\ sel \in Seq(Nat) /\ DOMAIN sel = 1 .. Len(sel)
      /\ \A k \in 1 .. Len(sel) : \E i \in 1 .. Len(s) : sel[k] = s[i] /\ s[i] \in S
      /\ \A i \in 1 .. Len(s) : s[i] \in S => \E k \in 1 .. Len(sel) : sel[k] = s[i]
      /\ \A R : Pairwise(s, R) => Pairwise(sel, R)
  BY <1>6, LenProperties
<1> HIDE DEF sel
<1>8. Elements(sel) = Elements(s) \cap S
  <2>1. ASSUME NEW e \in Elements(sel) PROVE e \in Elements(s) /\ e \in S
    <3>1. PICK k \in 1 .. Len(sel) : e = sel[k]
      BY <1>7 DEF Elements
    <3>2. PICK i \in 1 .. Len(s) : sel[k] = s[i] /\ s[i] \in S
      BY <1>7
    <3> QED
      BY <1>0, <3>1, <3>2 DEF Elements
  <2>2. ASSUME NEW e \in Elements(s), e \in S PROVE e \in Elements(sel)
    <3>1. PICK i \in 1 .. Len(s) : e = s[i]
      BY <1>0 DEF Elements
    <3>2. PICK k \in 1 .. Len(sel) : sel[k] = s[i]
      BY <1>7, <2>2, <3>1
    <3> QED
      BY <1>7, <3>1, <3>2 DEF Elements
  <2> QED
    BY <2>1, <2>2
<1> QED
  BY <1>1, <1>7, <1>8 DEF sel

-----------------------------------------------------------------------------
(* The lines of the journal.                                               *)

(* The newest Keep of a sequence, newest first, and turned round again.    *)
LEMMA NewestLines ==
  ASSUME NEW s \in Seq(Nat), NEW v, v = Reverse(Newest(Keep, s))
  PROVE  /\ v \in Seq(Nat)
         /\ Len(v) = IF Len(s) > Keep THEN Keep ELSE Len(s)
         /\ \A i \in 1 .. Len(v) : v[i] = s[Len(s) + 1 - i]
         /\ Reverse(v) \in Seq(Nat)
         /\ Len(Reverse(v)) = Len(v)
         /\ \A i \in 1 .. Len(v) : Reverse(v)[i] = s[Len(s) - Len(v) + i]
<1> DEFINE n == Len(s)
           from == IF n > Keep THEN n - Keep + 1 ELSE 1
           kept == SubSeq(s, from, n)
           m == n - from + 1
           back == [i \in 1 .. m |-> s[n + 1 - i]]
<1>1. n \in Nat /\ Keep \in Nat \ {0} /\ \A i \in 1 .. n : s[i] \in Nat
  BY LenProperties, ElementOfSeq, InboxAssumption
<1>2. from \in 1 .. n + 1 /\ m \in Nat /\ m <= n /\ m = IF n > Keep THEN Keep ELSE n
  BY <1>1
<1>3. \A i \in from .. n : s[i] \in Nat
  BY <1>1, <1>2
<1> HIDE DEF n
<1>4. /\ kept \in Seq(Nat) /\ Len(kept) = m
      /\ \A i \in 1 .. m : kept[i] = s[from + i - 1]
  <2> HIDE DEF from
  <2>1. from \in Int /\ n \in Int /\ Len(SubSeq(s, from, n)) = (IF from <= n THEN n - from + 1 ELSE 0)
        /\ SubSeq(s, from, n) \in Seq(Nat)
        /\ \A i \in 1 .. n - from + 1 : SubSeq(s, from, n)[i] = s[from + i - 1]
    BY <1>1, <1>2, <1>3, SubSeqProperties
  <2> QED
    BY <1>1, <1>2, <2>1
<1> HIDE DEF kept
<1>5. v = [i \in 1 .. m |-> kept[m - i + 1]]
  BY <1>4 DEF Reverse, Newest, kept, n
<1>6. ASSUME NEW i \in 1 .. m
      PROVE  /\ m - i + 1 \in 1 .. m
             /\ kept[m - i + 1] = s[n + 1 - i]
             /\ n + 1 - i \in 1 .. n
  <2>1. m - i + 1 \in 1 .. m /\ n + 1 - i \in 1 .. n
    BY <1>1, <1>2
  <2>2. from + (m - i + 1) - 1 = n + 1 - i
    BY <1>1, <1>2
  <2>3. kept[m - i + 1] = s[from + (m - i + 1) - 1]
    BY <1>4, <2>1
  <2> QED
    BY <2>1, <2>2, <2>3
<1>7. v = back
  BY <1>5, <1>6
<1>8. back \in Seq(Nat) /\ Len(back) = m
  <2>1. \A i \in 1 .. m : s[n + 1 - i] \in Nat
    BY <1>1, <1>6
  <2> QED
    BY <1>2, <2>1, IsASeq
<1>9. Reverse(v) = [i \in 1 .. m |-> v[m - i + 1]] /\ Len(v) = m
  BY <1>7, <1>8 DEF Reverse
<1>10. ASSUME NEW i \in 1 .. m
       PROVE  v[m - i + 1] = s[n - m + i] /\ n - m + i \in 1 .. n
  <2>1. m - i + 1 \in 1 .. m /\ n + 1 - (m - i + 1) = n - m + i /\ n - m + i \in 1 .. n
    BY <1>1, <1>2
  <2> QED
    BY <1>7, <2>1
<1> DEFINE r == [i \in 1 .. m |-> v[m - i + 1]]
<1>11. r \in Seq(Nat) /\ Len(r) = m
  <2>1. \A i \in 1 .. m : v[m - i + 1] \in Nat
    BY <1>1, <1>10
  <2> QED
    BY <1>2, <2>1, IsASeq
<1>12. \A i \in 1 .. m : r[i] = s[n - m + i]
  BY <1>10
<1>13. \A i \in 1 .. m : v[i] = s[n + 1 - i]
  BY <1>7
<1> QED
  BY <1>2, <1>7, <1>8, <1>9, <1>11, <1>12, <1>13 DEF n

(* The lines that a page can show.                                         *)
LEMMA ShownLines ==
  ASSUME NEW s \in Seq(Nat), NEW n
  PROVE  n \in Elements(Reverse(Newest(Keep, s)))
           <=> \E i \in 1 .. Len(s) : i + Keep > Len(s) /\ n = s[i]
<1> DEFINE v == Reverse(Newest(Keep, s))
<1>1. /\ v \in Seq(Nat)
      /\ Len(v) = IF Len(s) > Keep THEN Keep ELSE Len(s)
      /\ \A i \in 1 .. Len(v) : v[i] = s[Len(s) + 1 - i]
  BY NewestLines
<1>2. DOMAIN v = 1 .. Len(v) /\ Len(s) \in Nat /\ Keep \in Nat \ {0}
  BY <1>1, LenProperties, InboxAssumption
<1> HIDE DEF v
<1>3. ASSUME n \in Elements(v) PROVE \E i \in 1 .. Len(s) : i + Keep > Len(s) /\ n = s[i]
  <2>1. PICK k \in 1 .. Len(v) : n = v[k]
    BY <1>2, <1>3 DEF Elements
  <2>2. Len(s) + 1 - k \in 1 .. Len(s) /\ (Len(s) + 1 - k) + Keep > Len(s)
    BY <1>1, <1>2
  <2> QED
    BY <1>1, <2>1, <2>2
<1>4. ASSUME NEW i \in 1 .. Len(s), i + Keep > Len(s), n = s[i] PROVE n \in Elements(v)
  <2>1. Len(s) + 1 - i \in 1 .. Len(v) /\ Len(s) + 1 - (Len(s) + 1 - i) = i
    BY <1>1, <1>2, <1>4
  <2>2. v[Len(s) + 1 - i] = n
    BY <1>1, <1>4, <2>1
  <2> QED
    BY <1>2, <2>1, <2>2 DEF Elements
<1> QED
  BY <1>3, <1>4 DEF v

(* What a step may do to the journal, for those who read it: a line that   *)
(* is new to them has a number that none had before.                       *)
Grown == /\ Top <= Top' /\ ack <= ack'
         /\ \A n \in 1 .. Top : history'[n] = history[n]
         /\ \A n \in Elements(journal') : n = 0 \/ n \in Elements(journal) \/ n > Top
         /\ \A n \in Elements(Visible') : n = 0 \/ n \in Elements(Visible) \/ n > Top

LEMMA TopType ==
  ASSUME Inv
  PROVE  Top \in Nat /\ Top <= counter /\ counter <= Top + 1 /\ counter \in Nat
<1>1. counter \in Nat
  BY DEF Inv, Types, JournalOK
<1>2. Writing => counter > 0
  BY DEF Inv, LockHeld, Writing, Holding
<1> QED
  BY <1>1, <1>2 DEF Top

(* Nothing is written and no number is given out.                          *)
LEMMA CalmLines ==
  ASSUME Inv, Lines, UNCHANGED <<counter, journal, history>>, Writing' => Writing,
         ack' \in Nat, ack <= ack', ack' <= Top
  PROVE  Lines' /\ Grown
<1>1. Top \in Nat /\ Top' \in Nat /\ Top <= Top'
  BY TopType DEF Top
<1>2. Visible' = Visible
  BY DEF Visible
<1>3. \A i \in 1 .. Len(journal) : journal[i] \in Nat
  BY ElementOfSeq DEF Inv, Types, JournalOK
<1>4. Lines'
  <2>1. \A i \in 1 .. Len(journal) : journal[i] <= Top'
    BY <1>1, <1>3 DEF Lines
  <2>2. ack' <= Top'
    BY <1>1
  <2> QED
    BY <2>1, <2>2 DEF Lines
<1> QED
  BY <1>1, <1>2, <1>4 DEF Grown, Lines

LEMMA CountLines == ASSUME Inv, Lines, NEW w \in Writers, Count(w) PROVE Lines' /\ Grown
<1>1. /\ pub[w].pc = "want" /\ lock = Nobody /\ counter' = counter + 1
      /\ history' = Append(history, pub[w].record)
      /\ UNCHANGED <<journal, ack>>
  BY DEF Count, LockFree
<1>2. ~Writing
  BY <1>1, WriterApart DEF Inv, LockHeld, Holding, Writing
<1>3. Top \in Nat /\ Top' \in Nat /\ Top = counter /\ Top <= Top' /\ ack' <= Top'
  BY <1>1, <1>2, TopType DEF Top, Lines
<1>4. Visible' = Visible
  BY <1>1 DEF Visible
<1>5. \A i \in 1 .. Len(journal) : journal[i] \in Nat
  BY ElementOfSeq DEF Inv, Types, JournalOK
<1>6. Lines'
  <2>1. \A i \in 1 .. Len(journal) : journal[i] <= Top'
    BY <1>3, <1>5 DEF Lines
  <2> QED
    BY <1>1, <1>3, <2>1 DEF Lines
<1>7. \A n \in 1 .. Top : history'[n] = history[n]
  <2>1. JournalOK
    BY DEF Inv, Types
  <2>2. \A n \in 1 .. counter' : n # counter' => history'[n] = history[n]
    BY <1>1, <2>1, Numbered
  <2>3. \A n \in 1 .. Top : n \in 1 .. counter' /\ n # counter'
    BY <1>1, <1>3
  <2> QED
    BY <2>2, <2>3
<1>8. ack <= ack'
  BY <1>1 DEF Lines
<1> QED
  BY <1>1, <1>3, <1>4, <1>6, <1>7, <1>8 DEF Grown

(* The last line, or a new one, is put down: it cannot be parsed, or it    *)
(* has the last number.                                                    *)
LEMMA LinePut ==
  ASSUME Inv, Lines, NEW n \in Nat,
         \/ journal' = Append(journal, 0) /\ n = 0
         \/ journal' = [journal EXCEPT ![Len(journal)] = n],
         UNCHANGED <<counter, history, ack>>,
         Writing, n = 0 \/ (n = counter /\ ~Writing')
  PROVE  Lines' /\ Grown
<1>1. journal \in Seq(Nat) /\ Len(journal) \in Nat /\ Keep \in Nat \ {0}
  BY LenProperties, InboxAssumption DEF Inv, Types, JournalOK
<1>2. \A i \in 1 .. Len(journal) : journal[i] \in Nat
  BY <1>1, ElementOfSeq
<1>3. /\ Top = counter - 1 /\ Top \in Nat /\ Top' \in Nat /\ Top <= Top'
      /\ n = 0 \/ n = Top'
      /\ n = 0 \/ n = Top + 1
  BY TopType DEF Top
<1>4. PICK m \in {Len(journal), Len(journal) + 1} :
         /\ journal' \in Seq(Nat) /\ Len(journal') = m
         /\ \A i \in 1 .. m : journal'[i] = IF i = m THEN n ELSE journal[i]
         /\ \A i \in 1 .. m : i = m \/ i \in 1 .. Len(journal)
  <2>1. CASE journal' = Append(journal, 0) /\ n = 0
    <3>1. /\ journal' \in Seq(Nat) /\ Len(journal') = Len(journal) + 1
          /\ \A i \in 1 .. Len(journal) : journal'[i] = journal[i]
          /\ journal'[Len(journal) + 1] = 0
      BY <1>1, <2>1, AppendProperties
    <3>2. \A i \in 1 .. Len(journal) + 1 : i = Len(journal) + 1 \/ i \in 1 .. Len(journal)
      BY <1>1
    <3> QED
      BY <1>1, <2>1, <3>1, <3>2
  <2>2. CASE journal' = [journal EXCEPT ![Len(journal)] = n]
    <3>1. /\ journal' \in Seq(Nat) /\ Len(journal') = Len(journal)
          /\ \A i \in 1 .. Len(journal) : journal'[i] = IF i = Len(journal) THEN n ELSE journal[i]
      BY <1>1, <2>2, LastLine
    <3> QED
      BY <3>1
  <2> QED
    BY <2>1, <2>2
<1>5. Lines'
  <2>1. Ascending(journal')
    <3> SUFFICES ASSUME NEW i \in 1 .. m, NEW j \in 1 .. m, i < j,
                        journal'[i] # 0, journal'[j] # 0
                 PROVE  journal'[i] < journal'[j]
      BY <1>4 DEF Ascending
    <3>1. i # m /\ i \in 1 .. Len(journal) /\ journal'[i] = journal[i]
      BY <1>1, <1>4
    <3>2. CASE j = m
      <4>1. journal'[j] = Top + 1 /\ journal[i] <= Top
        BY <1>3, <1>4, <3>1, <3>2 DEF Lines
      <4> QED
        BY <1>2, <1>3, <3>1, <4>1
    <3>3. CASE j # m
      BY <1>4, <3>1, <3>3 DEF Lines, Ascending
    <3> QED
      BY <3>2, <3>3
  <2>2. ASSUME NEW i \in 1 .. m PROVE journal'[i] <= Top'
    <3>1. CASE i = m
      BY <1>3, <1>4, <3>1
    <3>2. CASE i # m
      <4>1. i \in 1 .. Len(journal) /\ journal'[i] = journal[i] /\ journal[i] <= Top
        BY <1>4, <3>2 DEF Lines
      <4> QED
        BY <1>2, <1>3, <4>1
    <3> QED
      BY <3>1, <3>2
  <2>3. ack \in Nat /\ ack <= Top'
    BY <1>3 DEF Lines
  <2> QED
    BY <1>4, <2>1, <2>2, <2>3 DEF Lines
<1>6. ASSUME NEW k \in Elements(journal') PROVE k = 0 \/ k \in Elements(journal) \/ k > Top
  <2>1. PICK i \in 1 .. m : k = journal'[i]
    BY <1>4, <1>6, LenProperties DEF Elements
  <2>2. CASE i = m
    BY <1>3, <1>4, <2>1, <2>2
  <2>3. CASE i # m
    <3>1. i \in DOMAIN journal /\ k = journal[i]
      BY <1>1, <1>4, <2>1, <2>3, LenProperties
    <3> QED
      BY <3>1 DEF Elements
  <2> QED
    BY <2>2, <2>3
<1>7. ASSUME NEW k \in Elements(Visible') PROVE k = 0 \/ k \in Elements(Visible) \/ k > Top
  <2>1. PICK i \in 1 .. m : i + Keep > m /\ k = journal'[i]
    BY <1>4, <1>7, ShownLines DEF Visible
  <2>2. CASE i = m
    BY <1>3, <1>4, <2>1, <2>2
  <2>3. CASE i # m
    <3>1. i \in 1 .. Len(journal) /\ k = journal[i] /\ i + Keep > Len(journal)
      BY <1>1, <1>4, <2>1, <2>3
    <3> QED
      BY <1>1, <3>1, ShownLines DEF Visible
  <2> QED
    BY <2>2, <2>3
<1> QED
  BY <1>3, <1>5, <1>6, <1>7 DEF Grown, Lines

(* The oldest lines are dropped: what a page can show is still there.      *)
LEMMA CompactedShown ==
  ASSUME Inv, Lines, journal' = Compacted,
         UNCHANGED <<counter, history, ack>>, ~Writing, ~Writing'
  PROVE  Lines' /\ Grown
<1> DEFINE v == Visible
           n == Len(journal)
           m == Len(v)
<1>1. journal \in Seq(Nat) /\ n \in Nat /\ Keep \in Nat \ {0}
  BY LenProperties, InboxAssumption DEF Inv, Types, JournalOK
<1>2. /\ v \in Seq(Nat) /\ m = IF n > Keep THEN Keep ELSE n
      /\ \A i \in 1 .. m : v[i] = journal[n + 1 - i]
      /\ journal' \in Seq(Nat) /\ Len(journal') = m
      /\ \A i \in 1 .. m : journal'[i] = journal[n - m + i]
  BY <1>1, NewestLines DEF Visible, Compacted
<1> HIDE DEF v
<1>3. Top' = Top /\ Top \in Nat
  BY TopType DEF Top
<1> HIDE DEF n, m
<1>4. \A i \in 1 .. m : n - m + i \in 1 .. n /\ (n - m + i) + Keep > n
  <2>1. m \in Nat /\ m = IF n > Keep THEN Keep ELSE n
    BY <1>1, <1>2
  <2> QED
    BY <1>1, <2>1
<1>5. Ascending(journal')
  <2> SUFFICES ASSUME NEW i \in 1 .. m, NEW j \in 1 .. m, i < j,
                      journal'[i] # 0, journal'[j] # 0
               PROVE  journal'[i] < journal'[j]
    BY <1>2 DEF Ascending
  <2>1. n - m + i < n - m + j /\ m \in Nat
    BY <1>1, <1>2
  <2> QED
    BY <1>2, <1>4, <2>1 DEF Lines, Ascending, n
<1>6. \A i \in 1 .. m : journal'[i] <= Top'
  BY <1>2, <1>3, <1>4 DEF Lines, n
<1>7. Lines'
  BY <1>2, <1>3, <1>5, <1>6 DEF Lines
<1>8. ASSUME NEW k \in Elements(journal') PROVE k \in Elements(journal) /\ k \in Elements(v)
  <2>1. PICK i \in 1 .. m : k = journal'[i]
    BY <1>2, <1>8, LenProperties DEF Elements
  <2>2. n - m + i \in 1 .. n /\ (n - m + i) + Keep > n /\ k = journal[n - m + i]
    BY <1>2, <1>4, <2>1
  <2>3. k \in Elements(journal)
    BY <1>1, <2>2, LenProperties DEF Elements, n
  <2>4. k \in Elements(v)
    BY <1>1, <2>2, ShownLines DEF v, Visible, n
  <2> QED
    BY <2>3, <2>4
<1>9. ASSUME NEW k \in Elements(Visible') PROVE k \in Elements(journal')
  <2>1. PICK i \in 1 .. Len(journal') : k = journal'[i]
    BY <1>2, <1>9, ShownLines DEF Visible
  <2> QED
    BY <1>2, <2>1, LenProperties DEF Elements
<1> QED
  BY <1>3, <1>7, <1>8, <1>9 DEF Grown, Lines, v

(* Every step, of a writer or not.                                         *)
LEMMA LinesKept == ASSUME Inv, Lines, [Next]_vars PROVE Lines' /\ Grown
<1> USE DEF Inv, Types
<1>a. ack \in Nat /\ ack <= ack /\ ack <= Top
  BY DEF Lines
<1>1. ASSUME NEW w \in Writers, Count(w) PROVE Lines' /\ Grown
  BY <1>1, CountLines
<1>2. ASSUME NEW w \in Writers, WriteSome(w) PROVE Lines' /\ Grown
  <2>1. /\ pub[w].pc = "line"
        /\ journal' = IF tail = "whole" THEN Append(journal, 0)
                                        ELSE [journal EXCEPT ![Len(journal)] = 0]
        /\ UNCHANGED <<counter, history, ack>>
    BY <1>2 DEF WriteSome
  <2>2. Writing
    BY <2>1 DEF Writing
  <2>3. \/ journal' = Append(journal, 0)
        \/ journal' = [journal EXCEPT ![Len(journal)] = 0]
    BY <2>1
  <2> QED
    BY <2>1, <2>2, <2>3, LinePut
<1>3. ASSUME NEW w \in Writers, WriteRest(w) PROVE Lines' /\ Grown
  <2>1. /\ pub[w].pc = "torn" /\ pub'[w].pc = "bare"
        /\ \A u \in Writers : u # w => pub'[u] = pub[u]
        /\ journal' = [journal EXCEPT ![Len(journal)] = pub[w].seq]
        /\ UNCHANGED <<counter, history, ack>>
    BY <1>3 DEF WriteRest, Goto, PubOK, Pub
  <2>2. Writing
    BY <2>1 DEF Writing
  <2>3. pub[w].seq = counter /\ counter \in Nat /\ \A u \in Writers : u # w => pub[u].pc \notin Holding
    BY <2>1 DEF LockHeld, Holding, JournalOK
  <2>4. ~Writing'
    BY <2>1, <2>3 DEF Writing, Holding
  <2> QED
    BY <2>1, <2>2, <2>3, <2>4, LinePut
<1>4. ASSUME NEW w \in Writers, WriteNewline(w) PROVE Lines' /\ Grown
  <2>1. /\ UNCHANGED <<counter, journal, history, ack>>
        /\ pub'[w].pc = "whole" /\ \A u \in Writers : u # w => pub'[u] = pub[u]
    BY <1>4 DEF WriteNewline, Goto, PubOK, Pub
  <2> QED
    BY <2>1, <1>a, CalmLines DEF Writing
<1>5. ASSUME NEW w \in Writers, Finish(w) PROVE Lines' /\ Grown
  <2>1. /\ pub[w].pc = "whole" /\ pub'[w].pc = "idle"
        /\ \A u \in Writers : u # w => pub'[u] = pub[u]
        /\ journal' = journal \/ journal' = Compacted
        /\ UNCHANGED <<counter, history, ack>>
    BY <1>5 DEF Finish, PubOK, NoPub
  <2>2. ~Writing /\ ~Writing'
    BY <2>1 DEF Writing, LockHeld, Holding
  <2>3. CASE journal' = journal
    BY <2>1, <2>2, <2>3, <1>a, CalmLines
  <2>4. CASE journal' = Compacted
    BY <2>1, <2>2, <2>4, CompactedShown
  <2> QED
    BY <2>1, <2>3, <2>4
<1>6. ASSUME NEW a \in Agents, Resume(a) PROVE Lines' /\ Grown
  <2>1. UNCHANGED <<pub, counter, journal, history, ack>>
    BY <1>6 DEF Resume, disk
  <2> QED
    BY <2>1, <1>a, CalmLines DEF Writing
<1>7. ASSUME NEW a \in Agents, Notify(a) PROVE Lines' /\ Grown
  <2>1. /\ UNCHANGED <<counter, journal, history, ack>>
        /\ pub'[a].pc = "want" /\ \A u \in Writers : u # a => pub'[u] = pub[u]
    BY <1>7, WriterApart DEF Notify, Begin, PubOK, disk
  <2> QED
    BY <2>1, <1>a, CalmLines DEF Writing
<1>8. ASSUME NEW a \in Agents, End(a) PROVE Lines' /\ Grown
  <2>1. /\ UNCHANGED <<counter, journal, history, ack>>
        /\ pub'[a].pc = "event" /\ \A u \in Writers : u # a => pub'[u] = pub[u]
    BY <1>8, WriterApart DEF End, Begin, PubOK, disk
  <2> QED
    BY <2>1, <1>a, CalmLines DEF Writing
<1>9. ASSUME NEW a \in Agents, Lifecycle(a) PROVE Lines' /\ Grown
  <2>1. /\ UNCHANGED <<counter, journal, history, ack>>
        /\ pub'[a].pc = "want" /\ \A u \in Writers : u # a => pub'[u] = pub[u]
    BY <1>9, WriterApart DEF Lifecycle, Goto, PubOK, Pub, disk
  <2> QED
    BY <2>1, <1>a, CalmLines DEF Writing
<1>10. ASSUME NEW a \in Agents, Advance(a) \/ TimePasses(a) PROVE Lines' /\ Grown
  <2>1. UNCHANGED <<pub, counter, journal, history, ack>>
    BY <1>10 DEF Advance, TimePasses, disk
  <2> QED
    BY <2>1, <1>a, CalmLines DEF Writing
<1>11. ASSUME NEW a \in Agents, CheckStall(a) PROVE Lines' /\ Grown
  <2>1. /\ UNCHANGED <<counter, journal, history, ack>>
        /\ \A u \in Writers : pub'[u] = pub[u] \/ pub'[u].pc = "want"
    BY <1>11, WriterApart DEF CheckStall, Begin, PubOK, disk
  <2> QED
    BY <2>1, <1>a, CalmLines DEF Writing
<1>12. ASSUME NEW n \in 1 .. MaxAck, Acknowledge(n) PROVE Lines' /\ Grown
  <2>1. /\ UNCHANGED <<pub, counter, journal, history>>
        /\ lock = Nobody /\ ack' = n /\ n <= counter /\ n > ack
    BY <1>12 DEF Acknowledge, InJournal
  <2>2. ~Writing
    BY <2>1, WriterApart DEF Writing, LockHeld, Holding
  <2>3. Top = counter /\ n \in Nat
    BY <2>2 DEF Top
  <2>4. ack' \in Nat /\ ack <= ack' /\ ack' <= Top /\ (Writing' => Writing)
    BY <2>1, <2>3, <1>a DEF Writing
  <2> QED
    BY <2>1, <2>4, CalmLines
<1>13. ASSUME UNCHANGED <<pub, disk>> PROVE Lines' /\ Grown
  BY <1>13, <1>a, CalmLines DEF Writing, disk
<1>14. CASE Crash
  <2>1. UNCHANGED <<counter, journal, history, ack>> /\ \A w \in Writers : pub'[w].pc = "idle"
    BY <1>14 DEF Crash, NoPub, disk
  <2> QED
    BY <2>1, <1>a, CalmLines DEF Writing
<1>15. CASE Boot \/ Serve
  BY <1>15, <1>13 DEF Boot, Serve
<1>16. ASSUME NEW start, NEW min, FollowBegin(start, min) PROVE Lines' /\ Grown
  BY <1>16, <1>13 DEF FollowBegin
<1>17. CASE FollowAck \/ FollowRead
  BY <1>17, <1>13 DEF FollowAck, FollowRead
<1>18. ASSUME NEW all, PageRead(all) PROVE Lines' /\ Grown
  BY <1>18, <1>13 DEF PageRead
<1>19. CASE UNCHANGED vars
  BY <1>19, <1>13 DEF vars
<1> QED
  BY <1>1, <1>2, <1>3, <1>4, <1>5, <1>6, <1>7, <1>8, <1>9, <1>10, <1>11, <1>12,
     <1>14, <1>15, <1>16, <1>17, <1>18, <1>19
  DEF Next, Publish, Work, Client

-----------------------------------------------------------------------------
(* The bounds on the numbers.                                              *)

(* A step that neither begins a run nor an event, nor moves the Agent.     *)
LEMMA CalmClocks ==
  ASSUME Inv, Clocks, UNCHANGED <<progress, notified>>,
         \A a \in Agents : /\ status'[a] = "working" => status[a] = "working"
                           /\ pub'[a].pc = "event" => pub[a].pc = "event"
  PROVE  Clocks'
<1>1. MaxProgress \in Nat /\ \A a \in Agents : progress[a] \in Nat
  BY InboxAssumption DEF Inv, Types, AgentsOK
<1> QED
  BY <1>1 DEF Clocks, Budget

LEMMA ClocksKept == ASSUME Inv, Clocks, [Next]_vars PROVE Clocks'
<1> USE DEF Inv, Types
<1>m. MaxProgress \in Nat
  BY InboxAssumption
<1>p. \A a \in Agents : progress[a] \in Nat /\ a \in Writers
  BY WriterApart DEF AgentsOK
<1>1. ASSUME NEW w \in Writers, Count(w) PROVE Clocks'
  <2>1. UNCHANGED <<status, progress, notified>> /\ pub'[w].pc = "line"
        /\ \A u \in Writers : u # w => pub'[u] = pub[u]
    BY <1>1 DEF Count, agents, PubOK
  <2> QED
    BY <2>1, <1>p, CalmClocks
<1>2. ASSUME NEW w \in Writers, WriteSome(w) \/ WriteRest(w) \/ WriteNewline(w) PROVE Clocks'
  <2>1. UNCHANGED <<status, progress, notified>> /\ pub'[w].pc # "event"
        /\ \A u \in Writers : u # w => pub'[u] = pub[u]
    BY <1>2 DEF WriteSome, WriteRest, WriteNewline, Goto, agents, PubOK, Pub
  <2> QED
    BY <2>1, <1>p, CalmClocks
<1>3. ASSUME NEW w \in Writers, Finish(w) PROVE Clocks'
  <2>1. /\ UNCHANGED <<status, progress>> /\ pub'[w].pc = "idle" /\ pub[w].pc = "whole"
        /\ \A u \in Writers : u # w => pub'[u] = pub[u]
        /\ \/ notified' = notified
           \/ w = Watchdog /\ notified' = [notified EXCEPT ![pub[w].record.id] = pub[w].record.mark]
    BY <1>3 DEF Finish, Remember, NoPub, PubOK
  <2>2. Budget'
    BY <2>1, <1>p, <1>m DEF Clocks, Budget
  <2>3. CASE notified' = notified
    BY <2>2, <2>3 DEF Clocks
  <2>4. CASE w = Watchdog /\ notified' = [notified EXCEPT ![pub[w].record.id] = pub[w].record.mark]
    <3>1. /\ pub[w].record.id \in Agents /\ pub[w].record.mark \in Nat
          /\ pub[w].record.mark <= progress[pub[w].record.id]
      BY <2>1, <2>4 DEF OwnStalls, Record
    <3>2. progress[pub[w].record.id] <= MaxProgress + 2
      BY <3>1, <1>p, <1>m DEF Clocks, Budget
    <3>3. pub[w].record.mark <= Never
      BY <3>1, <3>2, <1>p, <1>m DEF Never
    <3> QED
      BY <2>2, <2>4, <3>1, <3>3 DEF Clocks, AgentsOK
  <2> QED
    BY <2>1, <2>3, <2>4
<1>4. ASSUME NEW a \in Agents, Resume(a) PROVE Clocks'
  <2>1. /\ progress[a] < MaxProgress /\ status' = [status EXCEPT ![a] = "working"]
        /\ progress' = [progress EXCEPT ![a] = @ + 1] /\ UNCHANGED <<pub, notified>>
    BY <1>4 DEF Resume, disk
  <2> QED
    BY <2>1, <1>p, <1>m DEF Clocks, Budget, AgentsOK
<1>5. ASSUME NEW a \in Agents, Notify(a) PROVE Clocks'
  <2>1. /\ UNCHANGED <<status, progress, notified>>
        /\ pub'[a].pc = "want" /\ \A u \in Writers : u # a => pub'[u] = pub[u]
    BY <1>5, WriterApart DEF Notify, Begin, PubOK, agents
  <2> QED
    BY <2>1, <1>p, CalmClocks
<1>6. ASSUME NEW a \in Agents, End(a) PROVE Clocks'
  <2>1. /\ status[a] = "working" /\ status' = [status EXCEPT ![a] = "ended"]
        /\ pub[a].pc = "idle" /\ pub'[a].pc = "event"
        /\ \A u \in Writers : u # a => pub'[u] = pub[u]
        /\ UNCHANGED <<progress, notified>>
    BY <1>6, WriterApart DEF End, Begin, Idle, PubOK
  <2> QED
    BY <2>1, <1>p, <1>m DEF Clocks, Budget, AgentsOK
<1>7. ASSUME NEW a \in Agents, Lifecycle(a) PROVE Clocks'
  <2>1. /\ pub[a].pc = "event" /\ pub'[a].pc = "want"
        /\ \A u \in Writers : u # a => pub'[u] = pub[u]
        /\ progress' = [progress EXCEPT ![a] = @ + 1] /\ UNCHANGED <<status, notified>>
    BY <1>7, WriterApart DEF Lifecycle, Goto, PubOK, Pub
  <2> QED
    BY <2>1, <1>p, <1>m DEF Clocks, Budget, AgentsOK
<1>8. ASSUME NEW a \in Agents, Advance(a) PROVE Clocks'
  <2>1. /\ progress[a] < MaxProgress /\ progress' = [progress EXCEPT ![a] = @ + 1]
        /\ UNCHANGED <<pub, status, notified>>
    BY <1>8 DEF Advance
  <2> QED
    BY <2>1, <1>p, <1>m DEF Clocks, Budget, AgentsOK
<1>9. ASSUME NEW a \in Agents, TimePasses(a) PROVE Clocks'
  BY <1>9, CalmClocks DEF TimePasses
<1>10. ASSUME NEW a \in Agents, CheckStall(a) PROVE Clocks'
  <2>1. /\ UNCHANGED <<status, progress>>
        /\ \A q \in Agents : pub'[q] = pub[q]
        /\ notified' = notified \/ notified' = [notified EXCEPT ![a] = Never]
    BY <1>10, WriterApart DEF CheckStall, Begin, PubOK
  <2>2. Budget'
    BY <2>1 DEF Clocks, Budget
  <2>3. \A q \in Agents : notified'[q] <= Never
    BY <2>1, <1>m DEF Clocks, Never, AgentsOK
  <2> QED
    BY <2>2, <2>3 DEF Clocks, Never
<1>11. CASE Crash
  <2>1. /\ UNCHANGED <<status, progress>> /\ notified' = [a \in Agents |-> Never]
        /\ \A w \in Writers : pub'[w].pc = "idle"
    BY <1>11 DEF Crash, NoPub
  <2>2. Budget'
    BY <2>1, <1>p, <1>m DEF Clocks, Budget
  <2>3. \A q \in Agents : notified'[q] <= Never
    BY <2>1, <1>m DEF Never
  <2> QED
    BY <2>2, <2>3 DEF Clocks, Never
<1>12. ASSUME UNCHANGED <<pub, agents>> PROVE Clocks'
  BY <1>12, CalmClocks DEF agents
<1>13. ASSUME NEW n, Acknowledge(n) PROVE Clocks'
  BY <1>13, <1>12 DEF Acknowledge
<1>14. ASSUME NEW start, NEW min, FollowBegin(start, min) PROVE Clocks'
  BY <1>14, <1>12 DEF FollowBegin
<1>15. CASE FollowAck \/ FollowRead \/ Boot \/ Serve
  BY <1>15, <1>12 DEF FollowAck, FollowRead, Boot, Serve
<1>16. ASSUME NEW all, PageRead(all) PROVE Clocks'
  BY <1>16, <1>12 DEF PageRead
<1>17. CASE UNCHANGED vars
  BY <1>17, <1>12 DEF vars
<1> QED
  BY <1>1, <1>2, <1>3, <1>4, <1>5, <1>6, <1>7, <1>8, <1>9, <1>10, <1>11,
     <1>13, <1>14, <1>15, <1>16, <1>17
  DEF Next, Publish, Work, Client

LEMMA FlagsKept == ASSUME Inv, Flags, [Next]_vars PROVE Flags'
<1> USE DEF Inv, Types
<1>c. counter \in Nat /\ \A w \in Writers : pub[w].seq \in Nat
  BY DEF JournalOK, PubOK, Pub
<1>0. ASSUME up' \in {"down", "booting", "running"}, lock' \in Writers \cup {Nobody},
             tail' \in {"whole", "torn", "bare"}, counter' \in Nat, counter <= counter',
             \A w \in Writers : pub'[w].seq = pub[w].seq \/ pub'[w].seq <= counter'
      PROVE  Flags'
  BY <1>0, <1>c DEF Flags
<1>1. ASSUME NEW w \in Writers, Count(w) PROVE Flags'
  <2>1. /\ UNCHANGED <<up, tail>> /\ lock' = w /\ counter' = counter + 1
        /\ \A u \in Writers : pub'[u] = pub[u] \/ pub'[u].seq = counter + 1
    BY <1>1 DEF Count, PubOK
  <2> QED
    BY <2>1, <1>0, <1>c DEF Flags
<1>2. ASSUME NEW w \in Writers, WriteSome(w) \/ WriteRest(w) \/ WriteNewline(w) PROVE Flags'
  <2>1. /\ UNCHANGED <<up, lock, counter>> /\ tail' \in {"whole", "torn", "bare"}
        /\ \A u \in Writers : pub'[u].seq = pub[u].seq
    <3>1. CASE WriteSome(w)
      BY <3>1 DEF WriteSome, Goto, PubOK, Pub
    <3>2. CASE WriteRest(w)
      BY <3>2 DEF WriteRest, Goto, PubOK, Pub
    <3>3. CASE WriteNewline(w)
      BY <3>3 DEF WriteNewline, Goto, PubOK, Pub
    <3> QED
      BY <1>2, <3>1, <3>2, <3>3
  <2> QED
    BY <2>1, <1>0, <1>c DEF Flags
<1>3. ASSUME NEW w \in Writers, Finish(w) PROVE Flags'
  <2>1. /\ UNCHANGED <<up, tail, counter>> /\ lock' = Nobody
        /\ \A u \in Writers : pub'[u] = pub[u] \/ pub'[u].seq = 0
    BY <1>3 DEF Finish, NoPub, PubOK
  <2> QED
    BY <2>1, <1>0, <1>c DEF Flags
<1>4. ASSUME NEW a \in Agents, Notify(a) \/ End(a) \/ CheckStall(a) PROVE Flags'
  <2>1. /\ UNCHANGED <<up, lock, tail, counter>>
        /\ \A u \in Writers : pub'[u] = pub[u] \/ pub'[u].seq = 0
    BY <1>4, WriterApart DEF Notify, End, CheckStall, Begin, PubOK, disk
  <2> QED
    BY <2>1, <1>0, <1>c DEF Flags
<1>5. ASSUME NEW a \in Agents, Lifecycle(a) PROVE Flags'
  <2>1. /\ UNCHANGED <<up, lock, tail, counter>>
        /\ \A u \in Writers : pub'[u].seq = pub[u].seq
    BY <1>5, WriterApart DEF Lifecycle, Goto, PubOK, Pub, disk
  <2> QED
    BY <2>1, <1>0, <1>c DEF Flags
<1>6. ASSUME NEW a \in Agents, Resume(a) \/ Advance(a) \/ TimePasses(a) PROVE Flags'
  <2>1. UNCHANGED <<up, lock, tail, counter, pub>>
    BY <1>6 DEF Resume, Advance, TimePasses, disk
  <2> QED
    BY <2>1 DEF Flags
<1>7. CASE Crash
  <2>1. /\ up' = "down" /\ lock' = Nobody /\ UNCHANGED <<tail, counter>>
        /\ \A u \in Writers : pub'[u].seq = 0
    BY <1>7 DEF Crash, NoPub, disk
  <2> QED
    BY <2>1, <1>0, <1>c DEF Flags
<1>8. CASE Boot \/ Serve
  <2>1. up' \in {"down", "booting", "running"} /\ UNCHANGED <<lock, tail, counter, pub>>
    BY <1>8 DEF Boot, Serve, disk
  <2> QED
    BY <2>1, <1>0, <1>c DEF Flags
<1>9. ASSUME UNCHANGED <<up, lock, tail, counter, pub>> PROVE Flags'
  BY <1>9 DEF Flags
<1>10. ASSUME NEW n, Acknowledge(n) PROVE Flags'
  BY <1>10, <1>9 DEF Acknowledge
<1>11. ASSUME NEW start, NEW min, FollowBegin(start, min) PROVE Flags'
  BY <1>11, <1>9 DEF FollowBegin, disk
<1>12. CASE FollowAck \/ FollowRead
  BY <1>12, <1>9 DEF FollowAck, FollowRead, disk
<1>13. ASSUME NEW all, PageRead(all) PROVE Flags'
  BY <1>13, <1>9 DEF PageRead, disk
<1>14. CASE UNCHANGED vars
  BY <1>14, <1>9 DEF vars, disk
<1> QED
  BY <1>1, <1>2, <1>3, <1>4, <1>5, <1>6, <1>7, <1>8, <1>10, <1>11, <1>12, <1>13, <1>14
  DEF Next, Publish, Work, Client

-----------------------------------------------------------------------------
(* The readers.                                                            *)

LEMMA Numbers ==
  ASSUME Inv, Inv', Lines, Lines', Grown
  PROVE  /\ Top \in Nat /\ Top' \in Int /\ Top <= Top'
         /\ ack \in Nat /\ ack' \in Nat /\ ack <= ack'
         /\ \A n \in Elements(journal') : n \in Nat
         /\ \A n \in Elements(Visible') : n \in Nat
         /\ \A n \in 1 .. Top : Priority(n)' = Priority(n)
<1>1. Top \in Nat /\ counter' \in Nat /\ journal' \in Seq(Nat)
  BY TopType DEF Inv, Types, JournalOK
<1>2. Top' \in Int
  BY <1>1 DEF Top
<1>3. \A n \in Elements(journal') : n \in Nat
  BY <1>1, LenProperties, ElementOfSeq DEF Elements
<1>4. Visible' \in Seq(Nat)
  BY <1>1, NewestLines DEF Visible
<1>5. \A n \in Elements(Visible') : n \in Nat
  BY <1>4, LenProperties, ElementOfSeq DEF Elements
<1>6. \A n \in 1 .. Top : Priority(n)' = Priority(n)
  BY DEF Grown, Priority
<1> QED
  BY <1>1, <1>2, <1>3, <1>5, <1>6 DEF Grown, Lines

(* What is new in the journal does not concern who has read it before.     *)
LEMMA FollowUndisturbed ==
  ASSUME Inv, Inv', Lines, Lines', Grown,
         FollowOK, InOrder, NoneMissed, UNCHANGED follow
  PROVE  FollowOK' /\ InOrder' /\ NoneMissed'
<1>1. /\ follow.start \in Nat /\ follow.after \in Nat /\ follow.ack \in Nat
      /\ follow.after <= Top /\ follow.ack <= ack
  BY DEF FollowOK
<1>2. FollowOK'
  <2>1. follow.after <= Top' /\ follow.ack <= ack'
    BY <1>1, Numbers
  <2> QED
    BY <2>1 DEF FollowOK
<1>3. InOrder'
  BY DEF InOrder
<1>4. NoneMissed'
  <2> SUFFICES ASSUME NEW n \in Elements(journal') \ {0}, follow.start < n, n <= follow.after,
                      Priority(n)' >= follow.min
               PROVE  n \in Elements(follow.seen) \/ n <= ack'
    BY DEF NoneMissed
  <2>1. n \in Nat /\ n # 0 /\ n <= Top
    BY <1>1, Numbers
  <2>2. n \in Elements(journal) /\ ~ (n > Top)
    BY <2>1, Numbers DEF Grown
  <2>3. Priority(n) >= follow.min
    BY <2>1, Numbers
  <2>4. n \in Elements(follow.seen) \/ n <= ack
    BY <2>1, <2>2, <2>3 DEF NoneMissed
  <2> QED
    BY <2>1, <2>4, Numbers
<1> QED
  BY <1>2, <1>3, <1>4

LEMMA PageUndisturbed ==
  ASSUME Inv, Inv', Lines, Lines', Grown,
         PageOK, ItemsInOrder, NoneSkipped, UNCHANGED page
  PROVE  PageOK' /\ ItemsInOrder' /\ NoneSkipped'
<1>1. page.top \in Nat /\ page.top <= Top
  BY DEF PageOK
<1>2. PageOK'
  <2>1. page.top <= Top'
    BY <1>1, Numbers
  <2> QED
    BY <2>1 DEF PageOK
<1>3. ItemsInOrder'
  BY DEF ItemsInOrder
<1>4. NoneSkipped'
  <2> SUFFICES ASSUME page.on, NEW n \in Elements(Visible') \ {0},
                      Last(page.items) <= n, n <= page.top
               PROVE  n \in Elements(page.items) \/ (~page.all /\ n <= ack')
    BY DEF NoneSkipped
  <2>1. n \in Nat /\ n # 0 /\ n <= Top
    BY <1>1, Numbers
  <2>2. n \in Elements(Visible) /\ ~ (n > Top)
    BY <2>1, Numbers DEF Grown
  <2>3. n \in Elements(page.items) \/ (~page.all /\ n <= ack)
    BY <2>1, <2>2 DEF NoneSkipped
  <2> QED
    BY <2>1, <2>3, Numbers
<1> QED
  BY <1>2, <1>3, <1>4

(* A client that has not begun.                                            *)
LEMMA NothingFollowed ==
  ASSUME Inv', Lines', NEW start \in Nat, NEW min \in Nat, start <= Top', NEW on \in BOOLEAN,
         follow' = [on |-> on, start |-> start, after |-> start, min |-> min, pc |-> "poll",
                    ack |-> 0, seen |-> <<>>]
  PROVE  FollowOK' /\ InOrder' /\ NoneMissed'
<1>1. <<>> \in Seq(Nat) /\ Len(<<>>) = 0
  OBVIOUS
<1>2. ack' \in Nat
  BY DEF Lines
<1>3. FollowOK'
  BY <1>1, <1>2 DEF FollowOK
<1>4. InOrder'
  BY <1>1 DEF InOrder
<1>5. NoneMissed'
  <2>1. journal' \in Seq(Nat)
    BY DEF Inv, Types, JournalOK
  <2>2. \A n \in Elements(journal') : n \in Nat
    BY <2>1, LenProperties, ElementOfSeq DEF Elements
  <2>3. \A n \in Nat : ~ (start < n /\ n <= start)
    OBVIOUS
  <2> QED
    BY <2>2, <2>3 DEF NoneMissed
<1> QED
  BY <1>3, <1>4, <1>5

LEMMA NothingPaged ==
  ASSUME Inv', page' = NoPage
  PROVE  PageOK' /\ ItemsInOrder' /\ NoneSkipped'
<1>1. <<>> \in Seq(Nat) /\ Len(<<>>) = 0
  OBVIOUS
<1>2. counter' \in Nat /\ (Writing' => counter' > 0)
  BY DEF Inv, Types, JournalOK, LockHeld, Writing, Holding
<1>3. 0 <= Top'
  <2>1. CASE Writing'
    <3>1. Top' = counter' - 1
      BY <2>1 DEF Top
    <3>2. counter' \in Nat /\ counter' > 0
      BY <1>2, <2>1
    <3>3. \A n \in Nat : n > 0 => 0 <= n - 1
      OBVIOUS
    <3>4. 0 <= counter' - 1
      BY <3>2, <3>3
    <3> QED
      BY <3>1, <3>4
  <2>2. CASE ~Writing'
    BY <1>2, <2>2 DEF Top
  <2> QED
    BY <2>1, <2>2
<1> QED
  BY <1>1, <1>3 DEF NoPage, PageOK, ItemsInOrder, NoneSkipped

(* The journal that can be read is in the order of the numbers, and the    *)
(* page in the opposite order.                                             *)
Upward   == {p \in Nat \X Nat : p[1] < p[2]}
Downward == {p \in Nat \X Nat : p[1] > p[2]}

LEMMA ReadableOrder ==
  ASSUME Inv, Lines, Readable
  PROVE  /\ Pairwise(journal, Upward) /\ Pairwise(Visible, Downward)
         /\ Visible \in Seq(Nat)
         /\ \A n \in Elements(journal) : n \in 1 .. Top
         /\ Elements(Visible) \subseteq Elements(journal)
         /\ journal # <<>> =>
              /\ Last(journal) \in 1 .. Top
              /\ \A n \in Elements(journal) : n <= Last(journal)
<1>1. /\ journal \in Seq(Nat) /\ Len(journal) \in Nat /\ DOMAIN journal = 1 .. Len(journal)
      /\ \A i \in 1 .. Len(journal) : journal[i] \in Nat /\ journal[i] # 0 /\ journal[i] <= Top
  BY LenProperties, ElementOfSeq DEF Inv, Types, JournalOK, Readable, Lines
<1>2. Top \in Nat
  BY TopType
<1>3. \A i, j \in 1 .. Len(journal) : i < j => journal[i] < journal[j]
  BY <1>1 DEF Lines, Ascending
<1>4. Pairwise(journal, Upward)
  BY <1>1, <1>3 DEF Pairwise, Upward
<1>5. /\ Visible \in Seq(Nat) /\ Len(Visible) \in Nat /\ Len(Visible) <= Len(journal)
      /\ \A i \in 1 .. Len(Visible) : Visible[i] = journal[Len(journal) + 1 - i]
  <2>1. /\ Visible \in Seq(Nat)
        /\ Len(Visible) = IF Len(journal) > Keep THEN Keep ELSE Len(journal)
        /\ \A i \in 1 .. Len(Visible) : Visible[i] = journal[Len(journal) + 1 - i]
    BY <1>1, NewestLines DEF Visible
  <2> QED
    BY <1>1, <2>1, InboxAssumption
<1>6. Pairwise(Visible, Downward)
  <2> SUFFICES ASSUME NEW i \in 1 .. Len(Visible), NEW j \in 1 .. Len(Visible), i < j
               PROVE  <<Visible[i], Visible[j]>> \in Downward
    BY DEF Pairwise
  <2>1. /\ Len(journal) + 1 - i \in 1 .. Len(journal)
        /\ Len(journal) + 1 - j \in 1 .. Len(journal)
        /\ Len(journal) + 1 - j < Len(journal) + 1 - i
    BY <1>1, <1>5
  <2>2. journal[Len(journal) + 1 - j] < journal[Len(journal) + 1 - i]
    BY <1>3, <2>1
  <2>3. Visible[j] < Visible[i] /\ Visible[i] \in Nat /\ Visible[j] \in Nat
    BY <1>1, <1>5, <2>1, <2>2
  <2> QED
    BY <2>3 DEF Downward
<1>7. \A n \in Elements(journal) : n \in 1 .. Top
  BY <1>1, <1>2 DEF Elements
<1>8. ASSUME NEW n \in Elements(Visible) PROVE n \in Elements(journal)
  <2>1. PICK i \in 1 .. Len(journal) : n = journal[i]
    BY <1>1, <1>8, ShownLines DEF Visible
  <2> QED
    BY <1>1, <2>1 DEF Elements
<1>9. ASSUME journal # <<>>
      PROVE  /\ Last(journal) \in 1 .. Top
             /\ \A n \in Elements(journal) : n <= Last(journal)
  <2>1. Len(journal) \in 1 .. Len(journal)
    BY <1>1, <1>9, EmptySeq
  <2>2. Last(journal) = journal[Len(journal)]
    BY DEF Last
  <2>3. \A i \in 1 .. Len(journal) : journal[i] <= journal[Len(journal)]
    <3> SUFFICES ASSUME NEW i \in 1 .. Len(journal) PROVE journal[i] <= journal[Len(journal)]
      OBVIOUS
    <3>1. CASE i < Len(journal)
      <4>1. journal[i] < journal[Len(journal)]
        BY <1>3, <2>1, <3>1
      <4> QED
        BY <1>1, <2>1, <4>1
    <3>2. CASE i = Len(journal)
      BY <1>1, <3>2
    <3> QED
      BY <2>1, <3>1, <3>2
  <2> QED
    BY <1>1, <1>2, <2>1, <2>2, <2>3 DEF Elements
<1> QED
  BY <1>4, <1>5, <1>6, <1>7, <1>8, <1>9

LEMMA ElementsConcat ==
  ASSUME NEW s \in Seq(Nat), NEW t \in Seq(Nat)
  PROVE  Elements(s \o t) = Elements(s) \cup Elements(t)
<1>1. /\ s \o t \in Seq(Nat) /\ Len(s \o t) = Len(s) + Len(t)
      /\ \A i \in 1 .. Len(s) + Len(t) :
           (s \o t)[i] = IF i <= Len(s) THEN s[i] ELSE t[i - Len(s)]
  BY ConcatProperties
<1>2. /\ Len(s) \in Nat /\ Len(t) \in Nat
      /\ DOMAIN s = 1 .. Len(s) /\ DOMAIN t = 1 .. Len(t)
      /\ DOMAIN (s \o t) = 1 .. Len(s) + Len(t)
  BY <1>1, LenProperties
<1> DEFINE u == s \o t
<1> HIDE DEF u
<1>3. ASSUME NEW e \in Elements(u) PROVE e \in Elements(s) \cup Elements(t)
  <2>1. PICK i \in 1 .. Len(s) + Len(t) : e = u[i]
    BY <1>2, <1>3 DEF Elements, u
  <2>2. CASE i <= Len(s)
    BY <1>1, <1>2, <2>1, <2>2 DEF Elements, u
  <2>3. CASE i > Len(s)
    <3>1. i - Len(s) \in 1 .. Len(t) /\ e = t[i - Len(s)]
      BY <1>1, <1>2, <2>1, <2>3 DEF u
    <3> QED
      BY <1>2, <3>1 DEF Elements
  <2> QED
    BY <1>2, <2>2, <2>3
<1>4. ASSUME NEW e \in Elements(s) PROVE e \in Elements(u)
  <2>1. PICK i \in 1 .. Len(s) : e = s[i]
    BY <1>2, <1>4 DEF Elements
  <2>2. i \in 1 .. Len(s) + Len(t) /\ u[i] = e
    BY <1>1, <1>2, <2>1 DEF u
  <2> QED
    BY <1>2, <2>2 DEF Elements, u
<1>5. ASSUME NEW e \in Elements(t) PROVE e \in Elements(u)
  <2>1. PICK i \in 1 .. Len(t) : e = t[i]
    BY <1>2, <1>5 DEF Elements
  <2>2. /\ Len(s) + i \in 1 .. Len(s) + Len(t) /\ ~ (Len(s) + i <= Len(s))
        /\ (Len(s) + i) - Len(s) = i
    BY <1>2
  <2>3. u[Len(s) + i] = e
    BY <1>1, <2>1, <2>2 DEF u
  <2> QED
    BY <1>2, <2>2, <2>3 DEF Elements, u
<1> QED
  BY <1>3, <1>4, <1>5 DEF u

(* Two sequences in an order, the second beyond the first.                 *)
LEMMA PairwiseConcat ==
  ASSUME NEW s \in Seq(Nat), NEW t \in Seq(Nat), NEW R, Pairwise(s, R), Pairwise(t, R),
         \A i \in 1 .. Len(s), j \in 1 .. Len(t) : <<s[i], t[j]>> \in R
  PROVE  Pairwise(s \o t, R)
<1>1. /\ s \o t \in Seq(Nat) /\ Len(s \o t) = Len(s) + Len(t)
      /\ \A i \in 1 .. Len(s) + Len(t) :
           (s \o t)[i] = IF i <= Len(s) THEN s[i] ELSE t[i - Len(s)]
  BY ConcatProperties
<1>2. Len(s) \in Nat /\ Len(t) \in Nat
  BY LenProperties
<1> DEFINE u == s \o t
<1> HIDE DEF u
<1>3. ASSUME NEW i \in 1 .. Len(s) + Len(t), NEW j \in 1 .. Len(s) + Len(t), i < j
      PROVE  <<u[i], u[j]>> \in R
  <2>1. CASE j <= Len(s)
    BY <1>1, <1>2, <1>3, <2>1 DEF Pairwise, u
  <2>2. CASE i > Len(s)
    <3>1. i - Len(s) \in 1 .. Len(t) /\ j - Len(s) \in 1 .. Len(t) /\ i - Len(s) < j - Len(s)
      BY <1>2, <1>3, <2>2
    <3>2. u[i] = t[i - Len(s)] /\ u[j] = t[j - Len(s)]
      BY <1>1, <1>2, <1>3, <2>2 DEF u
    <3> QED
      BY <3>1, <3>2 DEF Pairwise
  <2>3. CASE i <= Len(s) /\ j > Len(s)
    <3>1. i \in 1 .. Len(s) /\ j - Len(s) \in 1 .. Len(t)
      BY <1>2, <2>3
    <3>2. u[i] = s[i] /\ u[j] = t[j - Len(s)]
      BY <1>1, <1>2, <2>3 DEF u
    <3> QED
      BY <3>1, <3>2
  <2> QED
    BY <1>2, <2>1, <2>2, <2>3
<1> QED
  BY <1>1, <1>3 DEF Pairwise, u

LEMMA FollowReadKept ==
  ASSUME Inv, Inv', Lines, Lines', Grown, FollowOK, InOrder, NoneMissed, FollowRead
  PROVE  FollowOK' /\ InOrder' /\ NoneMissed'
<1>0. /\ follow \in [on : BOOLEAN, start : Nat, after : Nat, min : Nat, pc : {"poll", "read"},
                     ack : Nat, seen : Seq(Nat)]
      /\ follow.start <= follow.after /\ follow.after <= Top /\ follow.ack <= ack
      /\ UNCHANGED <<lock, pub, counter, journal, ack, history>>
  BY DEF FollowOK, FollowRead, disk
<1>t. Top' = Top /\ Top \in Nat
  BY <1>0, TopType DEF Top, Writing
<1>1. CASE ~Readable
  <2>1. follow' = [follow EXCEPT !.on = FALSE]
    BY <1>1 DEF FollowRead
  <2>2. /\ follow'.start = follow.start /\ follow'.after = follow.after
        /\ follow'.min = follow.min /\ follow'.ack = follow.ack /\ follow'.seen = follow.seen
        /\ follow' \in [on : BOOLEAN, start : Nat, after : Nat, min : Nat, pc : {"poll", "read"},
                        ack : Nat, seen : Seq(Nat)]
    BY <1>0, <2>1
  <2>3. FollowOK' /\ InOrder'
    BY <1>0, <1>t, <2>2 DEF FollowOK, InOrder
  <2>4. NoneMissed'
    BY <1>0, <2>2 DEF NoneMissed, Priority
  <2> QED
    BY <2>3, <2>4
<1>2. CASE Readable
  <2> DEFINE S == {n \in Elements(journal) :
                     n > follow.after /\ n > follow.ack /\ Priority(n) >= follow.min}
             new == Fresh
             seen == follow.seen
             after == IF new = <<>> THEN follow.after ELSE Last(new)
  <2>0. journal \in Seq(Nat) /\ ack \in Nat
    BY DEF Inv, Types, JournalOK, Lines
  <2>1. /\ new \in Seq(Nat)
        /\ Elements(new) = Elements(journal) \cap S
        /\ Pairwise(new, Upward)
    BY <1>2, <2>0, ReadableOrder, SelectedProperties DEF Fresh
  <2>2. follow' = [follow EXCEPT !.pc = "poll", !.ack = 0, !.seen = seen \o new, !.after = after]
    BY <1>2 DEF FollowRead
  <2> HIDE DEF new
  <2>3. /\ Len(new) \in Nat /\ DOMAIN new = 1 .. Len(new)
        /\ \A i \in 1 .. Len(new) : new[i] \in Nat
        /\ seen \in Seq(Nat) /\ Len(seen) \in Nat
        /\ \A i \in 1 .. Len(seen) : seen[i] \in Nat
    BY <1>0, <2>1, LenProperties, ElementOfSeq
  <2>4. \A i, j \in 1 .. Len(new) : i < j => new[i] < new[j]
    BY <2>1, <2>3 DEF Pairwise, Upward
  <2>5. \A i \in 1 .. Len(new) : new[i] > follow.after /\ new[i] \in 1 .. Top
    <3> SUFFICES ASSUME NEW i \in 1 .. Len(new)
                 PROVE  new[i] > follow.after /\ new[i] \in 1 .. Top
      OBVIOUS
    <3>1. new[i] \in Elements(new)
      BY <2>3 DEF Elements
    <3>2. new[i] \in Elements(journal) /\ new[i] \in S
      BY <2>1, <3>1
    <3> QED
      BY <1>2, <3>2, ReadableOrder
  <2>6. /\ after \in Nat /\ follow.after <= after /\ after <= Top
        /\ \A i \in 1 .. Len(new) : new[i] <= after
    <3>1. CASE new = <<>>
      BY <1>0, <3>1
    <3>2. CASE new # <<>>
      <4>1. Len(new) \in 1 .. Len(new) /\ after = new[Len(new)]
        BY <2>1, <2>3, <3>2, EmptySeq DEF Last
      <4>2. ASSUME NEW i \in 1 .. Len(new) PROVE new[i] <= new[Len(new)]
        <5>1. CASE i < Len(new)
          <6>1. new[i] < new[Len(new)]
            BY <2>4, <4>1, <5>1
          <6> QED
            BY <2>3, <4>1, <6>1
        <5>2. CASE i = Len(new)
          BY <2>3, <5>2
        <5> QED
          BY <4>1, <5>1, <5>2
      <4>3. new[Len(new)] \in Nat /\ new[Len(new)] > follow.after /\ new[Len(new)] <= Top
        BY <2>3, <2>5, <4>1, <1>t
      <4> QED
        BY <1>0, <4>1, <4>2, <4>3
    <3> QED
      BY <3>1, <3>2
  <2> HIDE DEF after
  <2>7. /\ seen \o new \in Seq(Nat) /\ Len(seen \o new) = Len(seen) + Len(new)
        /\ \A i \in 1 .. Len(seen) + Len(new) :
             (seen \o new)[i] = IF i <= Len(seen) THEN seen[i] ELSE new[i - Len(seen)]
    BY <2>1, <2>3, ConcatProperties
  <2>8. /\ follow'.start = follow.start /\ follow'.after = after
        /\ follow'.min = follow.min /\ follow'.ack = 0 /\ follow'.seen = seen \o new
        /\ follow' \in [on : BOOLEAN, start : Nat, after : Nat, min : Nat, pc : {"poll", "read"},
                        ack : Nat, seen : Seq(Nat)]
    BY <1>0, <2>2, <2>6, <2>7
  <2>9. FollowOK'
    BY <1>0, <1>t, <2>0, <2>6, <2>8 DEF FollowOK
  <2>10. ASSUME NEW i \in 1 .. Len(seen) + Len(new)
         PROVE  follow.start < (seen \o new)[i] /\ (seen \o new)[i] <= after
    <3>1. CASE i <= Len(seen)
      <4>1. (seen \o new)[i] = seen[i] /\ i \in 1 .. Len(seen)
        BY <2>3, <2>7, <3>1
      <4>2. follow.start < seen[i] /\ seen[i] <= follow.after
        BY <4>1 DEF InOrder
      <4> QED
        BY <1>0, <2>3, <2>6, <4>1, <4>2
    <3>2. CASE i > Len(seen)
      <4>1. i - Len(seen) \in 1 .. Len(new) /\ (seen \o new)[i] = new[i - Len(seen)]
        BY <2>3, <2>7, <3>2
      <4>2. new[i - Len(seen)] > follow.after /\ new[i - Len(seen)] <= after
            /\ new[i - Len(seen)] \in Nat
        BY <2>3, <2>5, <2>6, <4>1
      <4> QED
        BY <1>0, <4>1, <4>2
    <3> QED
      BY <2>3, <3>1, <3>2
  <2>11. Pairwise(seen \o new, Upward)
    <3>1. Pairwise(seen, Upward)
      BY <2>3 DEF InOrder, Pairwise, Upward
    <3>2. ASSUME NEW i \in 1 .. Len(seen), NEW j \in 1 .. Len(new)
          PROVE  <<seen[i], new[j]>> \in Upward
      <4>1. seen[i] <= follow.after /\ new[j] > follow.after
        BY <2>5 DEF InOrder
      <4>2. seen[i] < new[j]
        BY <1>0, <2>3, <4>1
      <4> QED
        BY <2>3, <4>2 DEF Upward
    <3> QED
      BY <2>1, <2>3, <3>1, <3>2, PairwiseConcat
  <2>12. InOrder'
    <3>1. \A i, j \in 1 .. Len(seen \o new) : i < j => (seen \o new)[i] < (seen \o new)[j]
      BY <2>11 DEF Pairwise, Upward
    <3> QED
      BY <2>7, <2>8, <2>10, <3>1 DEF InOrder
  <2>13. NoneMissed'
    <3> SUFFICES ASSUME NEW n \in Elements(journal) \ {0}, follow.start < n, n <= after,
                        Priority(n) >= follow.min
                 PROVE  n \in Elements(seen \o new) \/ n <= ack
      BY <1>0, <2>8 DEF NoneMissed, Priority
    <3>1. Elements(seen \o new) = Elements(seen) \cup Elements(new)
      BY <2>1, <2>3, ElementsConcat
    <3>2. n \in Nat
      BY <1>2, ReadableOrder
    <3>3. CASE n <= follow.after
      BY <3>1, <3>3 DEF NoneMissed
    <3>4. CASE n > follow.after /\ n <= follow.ack
      BY <1>0, <2>0, <3>2, <3>4
    <3>5. CASE n > follow.after /\ n > follow.ack
      <4>1. n \in S
        BY <3>5
      <4> QED
        BY <2>1, <3>1, <4>1
    <3> QED
      BY <1>0, <3>2, <3>3, <3>4, <3>5
  <2> QED
    BY <2>9, <2>12, <2>13
<1> QED
  BY <1>1, <1>2

LEMMA PageReadKept ==
  ASSUME Inv, Inv', Lines, Lines', Grown, PageOK, ItemsInOrder, NoneSkipped,
         NEW all \in BOOLEAN, PageRead(all)
  PROVE  PageOK' /\ ItemsInOrder' /\ NoneSkipped'
<1> DEFINE items == page.items
           rest == OnPage(all, items)
           m == IF Len(rest) < Limit THEN Len(rest) ELSE Limit
           shown == SubSeq(rest, 1, m)
           top == IF page.on THEN page.top ELSE Last(journal)
<1>0. /\ page \in [on : BOOLEAN, all : BOOLEAN, top : Nat, items : Seq(Nat)]
      /\ page.top <= Top /\ (~page.on => page = NoPage) /\ (page.on => items # <<>>)
      /\ (page.on => page.all = all)
      /\ UNCHANGED <<lock, pub, counter, journal, ack, history>>
  BY DEF PageOK, PageRead, disk
<1>t. Top' = Top /\ Top \in Nat /\ ack \in Nat
  BY <1>0, TopType DEF Top, Writing, Lines
<1>v. Visible' = Visible
  BY <1>0 DEF Visible
<1>1. CASE page' = NoPage
  BY <1>1, NothingPaged
<1>2. CASE /\ Readable /\ rest # <<>>
           /\ page' = [on |-> TRUE, all |-> all, top |-> top, items |-> items \o shown]
  <2> DEFINE S == {n \in Elements(Visible) :
                     /\ all \/ n > ack
                     /\ items # <<>> => Older(n, Last(items))}
  <2>1. /\ rest \in Seq(Nat)
        /\ Elements(rest) = Elements(Visible) \cap S
        /\ Pairwise(rest, Downward)
    BY <1>2, ReadableOrder, SelectedProperties DEF OnPage
  <2> HIDE DEF rest
  <2>2. /\ Len(rest) \in Nat \ {0} /\ DOMAIN rest = 1 .. Len(rest)
        /\ \A i \in 1 .. Len(rest) : rest[i] \in Nat
        /\ items \in Seq(Nat) /\ Len(items) \in Nat
        /\ \A i \in 1 .. Len(items) : items[i] \in Nat
        /\ Limit \in Nat \ {0}
    BY <1>0, <1>2, <2>1, LenProperties, ElementOfSeq, EmptySeq, InboxAssumption
  <2>3. m \in 1 .. Len(rest)
    BY <2>2
  <2> HIDE DEF m
  <2>4. /\ shown \in Seq(Nat) /\ Len(shown) = m
        /\ \A i \in 1 .. m : shown[i] = rest[i]
    <3>1. \A i \in 1 .. m : rest[i] \in Nat
      BY <2>2, <2>3
    <3>2. /\ shown \in Seq(Nat)
          /\ Len(shown) = (IF 1 <= m THEN m - 1 + 1 ELSE 0)
          /\ \A i \in 1 .. m - 1 + 1 : shown[i] = rest[1 + i - 1]
      BY <2>3, <3>1, SubSeqProperties
    <3> QED
      BY <2>3, <3>2
  <2> HIDE DEF shown
  <2>5. \A i, j \in 1 .. Len(rest) : i < j => rest[i] > rest[j]
    BY <2>1 DEF Pairwise, Downward
  <2>6. \A i \in 1 .. Len(rest) :
          /\ rest[i] \in Elements(Visible)
          /\ rest[i] \in 1 .. Top
          /\ items # <<>> => rest[i] < Last(items)
    <3> SUFFICES ASSUME NEW i \in 1 .. Len(rest)
                 PROVE  /\ rest[i] \in Elements(Visible)
                        /\ rest[i] \in 1 .. Top
                        /\ items # <<>> => rest[i] < Last(items)
      OBVIOUS
    <3>1. rest[i] \in Elements(rest)
      BY <2>2 DEF Elements
    <3>2. rest[i] \in Elements(Visible) /\ rest[i] \in S
      BY <2>1, <3>1
    <3>3. rest[i] \in Elements(journal)
      BY <1>2, <3>2, ReadableOrder
    <3> QED
      BY <1>2, <3>2, <3>3, ReadableOrder DEF Older
  <2>7. /\ top \in Nat /\ top <= Top
        /\ \A i \in 1 .. Len(rest) : rest[i] <= top
        /\ \A n \in Elements(Visible) : page.on \/ n <= top
    <3>1. CASE page.on
      <4>1. Len(items) \in 1 .. Len(items)
        BY <1>0, <2>2, <3>1, EmptySeq
      <4>2. Last(items) <= page.top /\ Last(items) \in Nat
        BY <2>2, <4>1 DEF Last, ItemsInOrder
      <4>3. \A i \in 1 .. Len(rest) : rest[i] < Last(items)
        BY <1>0, <2>6, <3>1
      <4>4. page.top \in Nat
        BY <1>0
      <4>5. \A i \in 1 .. Len(rest) : rest[i] <= page.top
        BY <2>2, <4>2, <4>3, <4>4
      <4> QED
        BY <1>0, <3>1, <4>5
    <3>2. CASE ~page.on
      <4>1. rest[1] \in Elements(Visible) /\ 1 \in 1 .. Len(rest)
        BY <2>2, <2>6
      <4>2. rest[1] \in Elements(journal)
        BY <1>2, <4>1, ReadableOrder
      <4>3. journal # <<>>
        BY <4>2 DEF Elements
      <4>4. /\ Last(journal) \in 1 .. Top
            /\ \A n \in Elements(journal) : n <= Last(journal)
            /\ Elements(Visible) \subseteq Elements(journal)
        BY <1>2, <4>3, ReadableOrder
      <4> QED
        BY <1>t, <2>6, <3>2, <4>4
    <3> QED
      BY <3>1, <3>2
  <2> HIDE DEF top
  <2>8. /\ items \o shown \in Seq(Nat) /\ Len(items \o shown) = Len(items) + m
        /\ \A i \in 1 .. Len(items) + m :
             (items \o shown)[i] = IF i <= Len(items) THEN items[i] ELSE shown[i - Len(items)]
    <3>1. /\ items \o shown \in Seq(Nat) /\ Len(items \o shown) = Len(items) + Len(shown)
          /\ \A i \in 1 .. Len(items) + Len(shown) :
               (items \o shown)[i] = IF i <= Len(items) THEN items[i] ELSE shown[i - Len(items)]
      BY <2>2, <2>4, ConcatProperties
    <3> QED
      BY <2>4, <3>1
  <2>9. /\ page'.on /\ page'.all = all /\ page'.top = top /\ page'.items = items \o shown
        /\ page' \in [on : BOOLEAN, all : BOOLEAN, top : Nat, items : Seq(Nat)]
    BY <1>2, <2>7, <2>8
  <2>10. PageOK'
    <3>1. items \o shown # <<>>
      BY <2>2, <2>3, <2>8
    <3> QED
      BY <1>t, <2>7, <2>9, <3>1 DEF PageOK
  <2>11. ASSUME NEW i \in 1 .. Len(items) + m
         PROVE  0 < (items \o shown)[i] /\ (items \o shown)[i] <= top
    <3>1. CASE i <= Len(items)
      <4>1. (items \o shown)[i] = items[i] /\ i \in 1 .. Len(items)
        BY <2>2, <2>3, <2>8, <3>1
      <4>2. page.on
        BY <1>0, <4>1 DEF NoPage
      <4> QED
        BY <4>1, <4>2 DEF ItemsInOrder, top
    <3>2. CASE i > Len(items)
      <4>1. /\ i - Len(items) \in 1 .. m /\ i - Len(items) \in 1 .. Len(rest)
            /\ (items \o shown)[i] = rest[i - Len(items)]
        BY <2>2, <2>3, <2>4, <2>8, <3>2
      <4> QED
        BY <1>t, <2>6, <2>7, <4>1
    <3>3. i <= Len(items) \/ i > Len(items)
      <4>1. i \in Nat /\ Len(items) \in Nat
        BY <2>2, <2>3
      <4> QED
        BY <4>1
    <3> QED
      BY <3>1, <3>2, <3>3
  <2>l. items # <<>> => /\ Len(items) \in 1 .. Len(items) /\ Last(items) = items[Len(items)]
                        /\ \A i \in 1 .. Len(items) : items[i] >= Last(items)
    <3> SUFFICES ASSUME items # <<>>
                 PROVE  /\ Len(items) \in 1 .. Len(items) /\ Last(items) = items[Len(items)]
                        /\ \A i \in 1 .. Len(items) : items[i] >= Last(items)
      OBVIOUS
    <3>1. Len(items) \in 1 .. Len(items) /\ Last(items) = items[Len(items)]
      BY <2>2, EmptySeq DEF Last
    <3>2. ASSUME NEW i \in 1 .. Len(items) PROVE items[i] >= items[Len(items)]
      <4>1. CASE i < Len(items)
        <5>1. items[i] > items[Len(items)]
          BY <3>1, <4>1 DEF ItemsInOrder
        <5> QED
          BY <2>2, <3>1, <5>1
      <4>2. CASE i = Len(items)
        BY <2>2, <4>2
      <4> QED
        BY <2>2, <4>1, <4>2
    <3> QED
      BY <3>1, <3>2
  <2>12. Pairwise(items \o shown, Downward)
    <3>1. Pairwise(items, Downward)
      BY <2>2 DEF ItemsInOrder, Pairwise, Downward
    <3>2. Pairwise(shown, Downward)
      <4>1. \A i \in 1 .. m : i \in 1 .. Len(rest)
        BY <2>2, <2>3
      <4> QED
        BY <2>1, <2>4, <4>1 DEF Pairwise
    <3>3. ASSUME NEW i \in 1 .. Len(items), NEW j \in 1 .. m
          PROVE  <<items[i], shown[j]>> \in Downward
      <4>1. items # <<>>
        BY <2>2
      <4>2. j \in 1 .. Len(rest) /\ shown[j] = rest[j]
        BY <2>2, <2>3, <2>4
      <4>3. rest[j] < Last(items) /\ items[i] >= Last(items) /\ Last(items) \in Nat
        BY <2>2, <2>6, <2>l, <4>1, <4>2
      <4>4. rest[j] < items[i] /\ rest[j] \in Nat /\ items[i] \in Nat
        BY <2>2, <4>2, <4>3
      <4> QED
        BY <4>2, <4>4 DEF Downward
    <3> QED
      BY <2>2, <2>4, <3>1, <3>2, <3>3, PairwiseConcat
  <2>13. ItemsInOrder'
    <3>1. \A i, j \in 1 .. Len(items \o shown) : i < j => (items \o shown)[i] > (items \o shown)[j]
      BY <2>12 DEF Pairwise, Downward
    <3> QED
      BY <2>8, <2>9, <2>11, <3>1 DEF ItemsInOrder
  <2>14. NoneSkipped'
    <3>1. Last(items \o shown) = rest[m]
      <4>1. Len(items) + m \in 1 .. Len(items) + m /\ ~ (Len(items) + m <= Len(items))
            /\ (Len(items) + m) - Len(items) = m /\ m \in 1 .. m
        BY <2>2, <2>3
      <4> QED
        BY <2>4, <2>8, <4>1 DEF Last
    <3>2. Elements(items \o shown) = Elements(items) \cup Elements(shown)
      BY <2>2, <2>4, ElementsConcat
    <3> SUFFICES ASSUME NEW n \in Elements(Visible) \ {0}, rest[m] <= n, n <= top
                 PROVE  n \in Elements(items) \cup Elements(shown) \/ (~all /\ n <= ack)
      BY <1>0, <1>v, <2>9, <3>1, <3>2 DEF NoneSkipped
    <3>3. n \in Nat /\ n \in Elements(journal)
      BY <1>2, ReadableOrder
    <3>4. CASE items # <<>> /\ Last(items) <= n
      <4>1. page.on
        BY <1>0, <3>4 DEF NoPage
      <4> QED
        BY <1>0, <3>4, <4>1 DEF NoneSkipped, top
    <3>5. CASE items = <<>> \/ n < Last(items)
      <4>1. CASE ~all /\ n <= ack
        BY <4>1
      <4>2. CASE all \/ n > ack
        <5>1. n \in S
          BY <3>5, <4>2 DEF Older
        <5>2. PICK k \in 1 .. Len(rest) : n = rest[k]
          BY <2>1, <2>2, <5>1 DEF Elements
        <5>3. ~ (m < k)
          <6>1. m < k => rest[m] > rest[k]
            BY <2>3, <2>5
          <6> QED
            BY <2>2, <2>3, <5>2, <6>1
        <5>4. k \in 1 .. m /\ n = shown[k]
          BY <2>2, <2>3, <2>4, <5>2, <5>3
        <5>5. DOMAIN shown = 1 .. m
          BY <2>4, LenProperties
        <5> QED
          BY <5>4, <5>5 DEF Elements
      <4> QED
        BY <1>t, <3>3, <4>1, <4>2
    <3>6. items # <<>> => Last(items) \in Nat
      BY <2>2, <2>l
    <3> QED
      BY <3>3, <3>4, <3>5, <3>6
  <2> QED
    BY <2>10, <2>13, <2>14
<1> QED
  BY <1>1, <1>2 DEF PageRead

-----------------------------------------------------------------------------
(* Every step keeps the invariant.                                         *)

LEMMA FollowKept ==
  ASSUME Inv, Inv', Lines, Lines', Grown, FollowOK, InOrder, NoneMissed, [Next]_vars
  PROVE  FollowOK' /\ InOrder' /\ NoneMissed'
<1>0. Top \in Nat /\ Top' \in Int /\ Top <= Top' /\ ack \in Nat /\ ack <= Top /\ 0 <= Top'
  <2>1. Top \in Nat /\ Top' \in Int /\ Top <= Top' /\ ack \in Nat
    BY Numbers
  <2> QED
    BY <2>1 DEF Lines
<1>1. CASE UNCHANGED follow
  BY <1>1, FollowUndisturbed
<1>2. ASSUME NEW start \in {0, ack}, NEW min \in {1, 2}, FollowBegin(start, min)
      PROVE  FollowOK' /\ InOrder' /\ NoneMissed'
  <2>1. follow' = [on |-> TRUE, start |-> start, after |-> start, min |-> min, pc |-> "poll",
                   ack |-> 0, seen |-> <<>>]
    BY <1>2 DEF FollowBegin, NoFollow
  <2>2. start \in Nat /\ start <= Top' /\ min \in Nat
    BY <1>0
  <2> QED
    BY <2>1, <2>2, NothingFollowed
<1>3. CASE FollowAck
  <2>1. /\ follow \in [on : BOOLEAN, start : Nat, after : Nat, min : Nat, pc : {"poll", "read"},
                       ack : Nat, seen : Seq(Nat)]
        /\ follow.start <= follow.after /\ follow.after <= Top
        /\ follow' = [follow EXCEPT !.pc = "read", !.ack = ack]
        /\ UNCHANGED <<pub, counter, journal, ack, history>>
    BY <1>3 DEF FollowOK, FollowAck, disk
  <2>2. /\ follow'.start = follow.start /\ follow'.after = follow.after
        /\ follow'.min = follow.min /\ follow'.ack = ack /\ follow'.seen = follow.seen
        /\ follow' \in [on : BOOLEAN, start : Nat, after : Nat, min : Nat, pc : {"poll", "read"},
                        ack : Nat, seen : Seq(Nat)]
    BY <1>0, <2>1
  <2>3. Top' = Top
    BY <2>1 DEF Top, Writing
  <2>4. FollowOK'
    BY <1>0, <2>1, <2>2, <2>3 DEF FollowOK
  <2>5. InOrder'
    BY <2>2 DEF InOrder
  <2>6. NoneMissed'
    BY <2>1, <2>2 DEF NoneMissed, Priority
  <2> QED
    BY <2>4, <2>5, <2>6
<1>4. CASE FollowRead
  BY <1>4, FollowReadKept
<1>5. CASE Crash
  <2>1. follow' = [on |-> FALSE, start |-> 0, after |-> 0, min |-> 1, pc |-> "poll",
                   ack |-> 0, seen |-> <<>>]
    BY <1>5 DEF Crash, NoFollow
  <2> QED
    BY <1>0, <2>1, NothingFollowed
<1>6. ASSUME NEW w \in Writers, Publish(w) PROVE UNCHANGED follow
  BY <1>6 DEF Publish, Count, WriteSome, WriteRest, WriteNewline, Finish, readers
<1>7. ASSUME NEW a \in Agents, Work(a) PROVE UNCHANGED follow
  BY <1>7 DEF Work, Resume, Notify, End, Lifecycle, Advance, TimePasses, CheckStall, readers
<1>8. ASSUME NEW n \in 1 .. MaxAck, Acknowledge(n) PROVE UNCHANGED follow
  BY <1>8 DEF Acknowledge, readers
<1>9. ASSUME NEW all \in BOOLEAN, PageRead(all) PROVE UNCHANGED follow
  BY <1>9 DEF PageRead
<1>10. CASE Boot \/ Serve \/ UNCHANGED vars
  <2>1. UNCHANGED follow
    BY <1>10 DEF Boot, Serve, vars, readers
  <2> QED
    BY <1>1, <2>1
<1>11. CASE Client
  BY <1>1, <1>2, <1>3, <1>4, <1>8, <1>9, <1>11 DEF Client
<1> QED
  BY <1>1, <1>5, <1>6, <1>7, <1>10, <1>11 DEF Next

LEMMA PageKept ==
  ASSUME Inv, Inv', Lines, Lines', Grown, PageOK, ItemsInOrder, NoneSkipped, [Next]_vars
  PROVE  PageOK' /\ ItemsInOrder' /\ NoneSkipped'
<1>1. CASE UNCHANGED page
  BY <1>1, PageUndisturbed
<1>2. ASSUME NEW all \in BOOLEAN, PageRead(all) PROVE PageOK' /\ ItemsInOrder' /\ NoneSkipped'
  BY <1>2, PageReadKept
<1>3. CASE Crash
  BY <1>3, NothingPaged DEF Crash
<1>4. ASSUME NEW w \in Writers, Publish(w) PROVE UNCHANGED page
  BY <1>4 DEF Publish, Count, WriteSome, WriteRest, WriteNewline, Finish, readers
<1>5. ASSUME NEW a \in Agents, Work(a) PROVE UNCHANGED page
  BY <1>5 DEF Work, Resume, Notify, End, Lifecycle, Advance, TimePasses, CheckStall, readers
<1>6. ASSUME NEW n \in 1 .. MaxAck, Acknowledge(n) PROVE UNCHANGED page
  BY <1>6 DEF Acknowledge, readers
<1>7. ASSUME NEW start \in {0, ack}, NEW min \in {1, 2}, FollowBegin(start, min)
      PROVE  UNCHANGED page
  BY <1>7 DEF FollowBegin
<1>8. CASE FollowAck \/ FollowRead \/ Boot \/ Serve \/ UNCHANGED vars
  <2>1. UNCHANGED page
    BY <1>8 DEF FollowAck, FollowRead, Boot, Serve, vars, readers
  <2> QED
    BY <1>1, <2>1
<1>9. CASE Client
  BY <1>1, <1>2, <1>6, <1>7, <1>8, <1>9 DEF Client
<1> QED
  BY <1>1, <1>3, <1>4, <1>5, <1>8, <1>9 DEF Next

LEMMA ReadersInit == Init => ReaderInv
<1> SUFFICES ASSUME Init PROVE ReaderInv
  OBVIOUS
<1> USE DEF Init
<1>0. <<>> \in Seq(Nat) /\ Len(<<>>) = 0 /\ ~Writing /\ counter = 0
  BY DEF Writing, NoPub
<1>1. Top = 0
  BY <1>0 DEF Top
<1>2. Lines
  BY <1>0, <1>1 DEF Lines, Ascending
<1>3. Clocks
  BY InboxAssumption, WriterApart DEF Clocks, Budget, Never, NoPub
<1>4. Flags
  BY DEF Flags, NoPub
<1>5. FollowOK /\ InOrder /\ PageOK /\ ItemsInOrder
  BY <1>0, <1>1 DEF FollowOK, InOrder, PageOK, ItemsInOrder, NoFollow, NoPage
<1>6. NoneMissed
  BY DEF NoneMissed, Elements
<1>7. NoneSkipped
  BY DEF NoneSkipped, NoPage
<1> QED
  BY <1>2, <1>3, <1>4, <1>5, <1>6, <1>7 DEF ReaderInv, Shared

LEMMA ReadersNext == Inv /\ Inv' /\ ReaderInv /\ [Next]_vars => ReaderInv'
<1> SUFFICES ASSUME Inv, Inv', ReaderInv, [Next]_vars PROVE ReaderInv'
  OBVIOUS
<1>1. Lines' /\ Grown /\ Clocks' /\ Flags'
  BY LinesKept, ClocksKept, FlagsKept DEF ReaderInv, Shared
<1>2. FollowOK' /\ InOrder' /\ NoneMissed'
  BY <1>1, FollowKept DEF ReaderInv, Shared
<1>3. PageOK' /\ ItemsInOrder' /\ NoneSkipped'
  BY <1>1, PageKept DEF ReaderInv, Shared
<1> QED
  BY <1>1, <1>2, <1>3 DEF ReaderInv, Shared

-----------------------------------------------------------------------------
(* The theorems.                                                           *)

(* Through every crash and compaction, the lines of the journal that can   *)
(* be parsed are in the order of their numbers and below the counter       *)
(* (append_notification_payload, next_sequence), and what a reader has     *)
(* seen agrees with them.                                                  *)
THEOREM JournalInOrder == Spec => [](Inv /\ ReaderInv)
<1>1. Init => Inv /\ ReaderInv
  BY InitInv, ReadersInit
<1>2. (Inv /\ ReaderInv) /\ [Next]_vars => (Inv /\ ReaderInv)'
  BY NextInv, ReadersNext
<1> QED
  BY <1>1, <1>2, PTL DEF Spec

LEMMA BelowCounter ==
  ASSUME Inv, NEW s \in Seq(Nat), NEW low \in Nat, \A i \in 1 .. Len(s) : low <= s[i] /\ s[i] <= Top
  PROVE  s \in Seq(low .. counter)
<1>1. Top \in Nat /\ Top <= counter /\ counter \in Nat
  BY TopType
<1>2. /\ s = [i \in 1 .. Len(s) |-> s[i]] /\ Len(s) \in Nat
      /\ \A i \in 1 .. Len(s) : s[i] \in Nat
  BY LenProperties, ElementOfSeq
<1>3. \A i \in 1 .. Len(s) : s[i] \in low .. counter
  BY <1>1, <1>2
<1>4. [i \in 1 .. Len(s) |-> s[i]] \in Seq(low .. counter)
  BY <1>2, <1>3, IsASeq
<1> QED
  BY <1>2, <1>4

LEMMA ReaderTypes == Inv /\ ReaderInv => TypeOK
<1> SUFFICES ASSUME Inv, ReaderInv PROVE TypeOK
  OBVIOUS
<1> USE DEF ReaderInv, Shared
<1>0. Top \in Nat /\ Top <= counter /\ counter \in Nat /\ MaxProgress \in Nat
  BY TopType, InboxAssumption
<1>1. ASSUME NEW w \in Writers
      PROVE  /\ pub[w].pc \in {"idle", "event", "want", "line", "torn", "bare", "whole"}
             /\ pub[w].seq \in 0 .. counter
             /\ pub[w].pc # "idle" => pub[w].record \in Record
  <2>1. pub[w] \in Pub
    BY DEF Inv, Types, PubOK
  <2>2. pub[w].pc \in {"idle", "event", "want", "line", "torn", "bare", "whole"} /\ pub[w].seq \in Nat
    BY <2>1 DEF Pub, Before, Holding
  <2>3. pub[w].seq <= counter
    BY DEF Flags
  <2>4. pub[w].pc # "idle" => pub[w].record \in Record
    BY WriterApart DEF Inv, OwnNotices, OwnStalls
  <2> QED
    BY <1>0, <2>2, <2>3, <2>4
<1>2. ack \in 0 .. counter
  BY <1>0 DEF Lines
<1>3. journal \in Seq(0 .. counter)
  <2>1. journal \in Seq(Nat)
    BY DEF Inv, Types, JournalOK
  <2>2. \A i \in 1 .. Len(journal) : 0 <= journal[i] /\ journal[i] <= Top
    <3>1. \A i \in 1 .. Len(journal) : journal[i] \in Nat
      BY <2>1, ElementOfSeq
    <3> QED
      BY <3>1 DEF Lines
  <2> QED
    BY <2>1, <2>2, BelowCounter
<1>4. history \in Seq(Record) /\ Len(history) = counter
  BY DEF Inv, Types, JournalOK
<1>5. /\ status \in [Agents -> {"working", "ended"}]
      /\ progress \in [Agents -> 0 .. MaxProgress + 2]
      /\ idle \in [Agents -> BOOLEAN]
      /\ notified \in [Agents -> 0 .. Never]
  <2>1. /\ status \in [Agents -> {"working", "ended"}]
        /\ progress \in [Agents -> Nat]
        /\ idle \in [Agents -> BOOLEAN]
        /\ notified \in [Agents -> Nat]
    BY DEF Inv, Types, AgentsOK
  <2>2. ASSUME NEW a \in Agents PROVE progress[a] \in 0 .. MaxProgress + 2
    <3>1. progress[a] + (IF status[a] = "working" THEN 1 ELSE 0)
            + (IF pub[a].pc = "event" THEN 1 ELSE 0) <= MaxProgress + 2
      BY DEF Clocks, Budget
    <3>2. progress[a] \in Nat
      BY <2>1
    <3> QED
      BY <1>0, <3>1, <3>2
  <2>3. \A a \in Agents : notified[a] \in 0 .. Never
    BY <1>0, <2>1 DEF Clocks, Never
  <2> QED
    BY <2>1, <2>2, <2>3
<1>6. follow.on \in BOOLEAN /\ follow.seen \in Seq(1 .. counter)
  <2>1. /\ follow.on \in BOOLEAN /\ follow.seen \in Seq(Nat)
        /\ follow.start \in Nat /\ follow.after \in Nat /\ follow.after <= Top
    BY DEF FollowOK
  <2>2. \A i \in 1 .. Len(follow.seen) : follow.seen[i] \in Nat
    BY <2>1, ElementOfSeq
  <2>3. \A i \in 1 .. Len(follow.seen) : 1 <= follow.seen[i] /\ follow.seen[i] <= Top
    BY <1>0, <2>1, <2>2 DEF InOrder
  <2> QED
    BY <2>1, <2>3, BelowCounter
<1>7. page.on \in BOOLEAN /\ page.items \in Seq(1 .. counter)
  <2>1. page.on \in BOOLEAN /\ page.items \in Seq(Nat) /\ page.top \in Nat /\ page.top <= Top
    BY DEF PageOK
  <2>2. \A i \in 1 .. Len(page.items) : page.items[i] \in Nat
    BY <2>1, ElementOfSeq
  <2>3. \A i \in 1 .. Len(page.items) : 1 <= page.items[i] /\ page.items[i] <= Top
    BY <1>0, <2>1, <2>2 DEF ItemsInOrder
  <2> QED
    BY <2>1, <2>3, BelowCounter
<1>8. /\ up \in {"down", "booting", "running"} /\ lock \in Writers \cup {Nobody}
      /\ tail \in {"whole", "torn", "bare"}
  BY DEF Flags
<1> QED
  BY <1>0, <1>1, <1>2, <1>3, <1>4, <1>5, <1>6, <1>7, <1>8 DEF TypeOK

(* The journal, the writers, the Agents and the readers keep their types:  *)
(* the counter is never below a line of the journal, a number a writer     *)
(* holds, a watermark or what a reader has seen.                           *)
THEOREM InboxTypes == Spec => []TypeOK
  BY JournalInOrder, ReaderTypes, PTL

(* A follower (notifications_after, InboxFollow) is given each notice      *)
(* once, in the order of the numbers, and none that it asked for is left   *)
(* out, unless it was acknowledged meanwhile.                              *)
THEOREM FollowersSeeAll == Spec => []FollowsAll
<1>1. ReaderInv => FollowsAll
  BY DEF ReaderInv, InOrder, NoneMissed, FollowsAll
<1> QED
  BY <1>1, JournalInOrder, PTL

(* The pages of the inbox (list_notifications_page, with the cursor of the *)
(* last record), read while others publish, acknowledge and compact, show  *)
(* no record twice and skip none.                                          *)
THEOREM PagesShowAll == Spec => []PagesAgree
<1>1. ReaderInv => PagesAgree
  BY DEF ReaderInv, ItemsInOrder, NoneSkipped, PagesAgree
<1> QED
  BY <1>1, JournalInOrder, PTL
==============================================================================
