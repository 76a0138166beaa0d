----------------------- MODULE WorldReplication_proofs -----------------------
(***************************************************************************)
(* What holds of the replicator and the mirrors for every finite set of    *)
(* chunks, any players and views, any send budget and whatever scripts     *)
(* change: the replicator's books are true and no mirror is torn, but for  *)
(* the chunks an edit has overtaken and until they are sent whole.         *)
(***************************************************************************)
EXTENDS WorldReplication, SequenceTheorems, FiniteSetTheorems, TLAPS

-----------------------------------------------------------------------------
(* One chunk in one lane *)

\* What a mirror may hold of a chunk, and what revision r of one is.
Copies == (SUBSET Revs) \union {Absent}
Content(r) == IF r = Absent THEN Absent ELSE 1..r
Whole(h) == h = Absent \/ Gap \in h \/ \E r \in Revs : h = 1..r

\* What a copy h of chunk c is after frame f.
AppliedTo(h, f, c) ==
  IF f.coord # c THEN h
  ELSE IF f.type = "add" THEN f.changes
  ELSE IF f.type = "remove" \/ h = Absent THEN Absent
  ELSE h \union f.changes

\* A delta of chunk c that no gap is marked in.
Plain(f, c) == f.coord = c /\ f.type = "delta" /\ Gap \notin f.changes

\* Who holds m of chunk c and reads s sees it whole after every frame, has it when a plain delta
\* comes, and holds one of the copies E of it in the end.
LaneOne(m, s, c, E) ==
  /\ \A n \in 0..Len(s) : Whole(HeldAfter(m, s, n, c))
  /\ \A n \in 1..Len(s) : Plain(s[n], c) => HeldAfter(m, s, n - 1, c) # Absent
  /\ HeldAfter(m, s, Len(s), c) \in E

LEMMA FrameFacts ==
  \A f \in Frame : /\ f.coord \in Coords /\ f.changes \subseteq Revs
                   /\ f.type \in {"add", "delta", "remove"}
BY DEF Frame

\* The copy before any frame, and what one more frame makes of it.
LEMMA HeldBefore ==
  ASSUME NEW m \in Copies, NEW s, NEW c
  PROVE  HeldAfter(m, s, 0, c) = m
BY DEF HeldAfter, Copies

LEMMA HeldNext ==
  ASSUME NEW m \in Copies, NEW s \in Seq(Frame), NEW c, NEW n \in 1..Len(s),
         Absent \notin SUBSET Revs
  PROVE  /\ HeldAfter(m, s, n, c) = AppliedTo(HeldAfter(m, s, n - 1, c), s[n], c)
         /\ HeldAfter(m, s, n, c) \in Copies
<1> DEFINE since(k, l) == \A j \in k + 1..l : ~Settles(s[j], c)
           there(l) == (since(0, l) /\ m # Absent)
                       \/ \E i \in 1..l : s[i].coord = c /\ s[i].type = "add" /\ since(i, l)
           brings(l, x) == \E i \in 1..l : s[i].coord = c /\ since(i, l) /\ x \in s[i].changes
           brought(l) == {x \in Revs : brings(l, x)}
<1>1. \A l \in Nat : HeldAfter(m, s, l, c) = IF ~there(l) THEN Absent
                                 ELSE IF since(0, l) THEN m \union brought(l) ELSE brought(l)
  BY DEF HeldAfter
<1>2. /\ Len(s) \in Nat /\ n \in Nat /\ n - 1 \in Nat /\ n >= 1
      /\ s[n] \in Frame /\ s[n].type \in {"add", "delta", "remove"} /\ s[n].changes \subseteq Revs
  <2>1. Len(s) \in Nat /\ s[n] \in Frame
    BY LenProperties, ElementOfSeq
  <2> QED BY <2>1, FrameFacts
<1>3. \A k \in 0..n - 1 : since(k, n) <=> since(k, n - 1) /\ ~Settles(s[n], c)
  BY <1>2
<1>4. since(n, n)
  BY <1>2
<1>5. \A i \in 1..n : i \in 1..n - 1 \/ i = n
  BY <1>2
<1> DEFINE copy(l) == IF ~there(l) THEN Absent ELSE IF since(0, l) THEN m \union brought(l) ELSE brought(l)
<1>6. ASSUME NEW l \in Nat, there(l) PROVE copy(l) \in SUBSET Revs
  <2>1. ASSUME since(0, l) PROVE m # Absent
    <3>1. \A i \in 1..l : ~Settles(s[i], c)
      BY <2>1
    <3> QED BY <1>6, <3>1 DEF Settles
  <2>2. brought(l) \in SUBSET Revs
    OBVIOUS
  <2> HIDE DEF since, there, brought
  <2> QED BY <1>6, <2>1, <2>2 DEF Copies
<1>7. \A l \in Nat : copy(l) \in Copies
  <2> HIDE DEF copy, there
  <2>1. \A l \in Nat : ~there(l) => copy(l) = Absent
    BY DEF copy
  <2> QED BY <1>6, <2>1 DEF Copies
<1>8. \A k \in 1..n - 1 : k \in 1..n /\ (since(k, n) <=> since(k, n - 1) /\ ~Settles(s[n], c))
  <2> HIDE DEF since
  <2> QED BY <1>2, <1>3
<1>9. n \in 1..n
  BY <1>2
<1>10. there(n) <=> IF s[n].coord # c THEN there(n - 1)
                   ELSE s[n].type = "add" \/ (s[n].type = "delta" /\ there(n - 1))
  <2> DEFINE adds(l) == \E k \in 1..l : s[k].coord = c /\ s[k].type = "add" /\ since(k, l)
  <2>1. since(0, n) <=> since(0, n - 1) /\ ~Settles(s[n], c)
    BY <1>2, <1>3
  <2>2. adds(n) <=> (s[n].coord = c /\ s[n].type = "add") \/ (adds(n - 1) /\ ~Settles(s[n], c))
    <3> HIDE DEF since
    <3> QED BY <1>4, <1>5, <1>8, <1>9
  <2>3. \A l \in Nat : there(l) <=> (since(0, l) /\ m # Absent) \/ adds(l)
    OBVIOUS
  <2> HIDE DEF since, there, adds
  <2> QED BY <1>2, <2>1, <2>2, <2>3 DEF Settles
<1>11. ASSUME NEW x
      PROVE  brings(n, x) <=> IF s[n].coord # c THEN brings(n - 1, x)
                              ELSE x \in s[n].changes \/ (s[n].type = "delta" /\ brings(n - 1, x))
  <2>1. brings(n, x) <=> (s[n].coord = c /\ x \in s[n].changes) \/ (brings(n - 1, x) /\ ~Settles(s[n], c))
    <3> HIDE DEF since
    <3> QED BY <1>4, <1>5, <1>8, <1>9
  <2> HIDE DEF brings
  <2>2. CASE s[n].coord # c
    BY <2>1, <2>2 DEF Settles
  <2>3. CASE s[n].coord = c
    BY <2>1, <2>3 DEF Settles
  <2> QED BY <2>2, <2>3
<1>12. since(0, n) <=> since(0, n - 1) /\ ~Settles(s[n], c)
  BY <1>2, <1>3
<1> HIDE DEF since, there, brings
<1>13. there(n - 1) <=> copy(n - 1) # Absent
  BY <1>2, <1>6
<1>14. CASE s[n].coord # c
  <2>1. (there(n) <=> there(n - 1)) /\ (since(0, n) <=> since(0, n - 1)) /\ brought(n) = brought(n - 1)
    BY <1>10, <1>11, <1>12, <1>14 DEF Settles
  <2>2. copy(n) = AppliedTo(copy(n - 1), s[n], c)
    BY <1>14, <2>1 DEF AppliedTo
  <2> QED BY <1>1, <1>2, <1>7, <2>2
<1>15. CASE s[n].coord = c /\ s[n].type = "add"
  <2>1. there(n) /\ ~since(0, n)
    BY <1>10, <1>12, <1>15 DEF Settles
  <2>2. brought(n) = s[n].changes
    BY <1>2, <1>11, <1>15
  <2>3. copy(n) = AppliedTo(copy(n - 1), s[n], c)
    BY <1>15, <2>1, <2>2 DEF AppliedTo
  <2> QED BY <1>1, <1>2, <1>7, <2>3
<1>16. CASE s[n].coord = c /\ s[n].type = "remove"
  <2>1. copy(n) = AppliedTo(copy(n - 1), s[n], c)
    BY <1>10, <1>16 DEF AppliedTo
  <2> QED BY <1>1, <1>2, <1>7, <2>1
<1>17. CASE s[n].coord = c /\ s[n].type = "delta"
  <2>1. (there(n) <=> there(n - 1)) /\ (since(0, n) <=> since(0, n - 1))
    BY <1>10, <1>12, <1>17 DEF Settles
  <2>2. brought(n) = brought(n - 1) \union s[n].changes
    BY <1>2, <1>11, <1>17
  <2>3. copy(n) = AppliedTo(copy(n - 1), s[n], c)
    <3>1. CASE there(n - 1)
      BY <1>13, <1>17, <2>1, <2>2, <3>1 DEF AppliedTo
    <3>2. CASE ~there(n - 1)
      BY <1>17, <2>1, <3>2 DEF AppliedTo
    <3> QED BY <3>1, <3>2
  <2> QED BY <1>1, <1>2, <1>7, <2>3
<1> QED BY <1>2, <1>14, <1>15, <1>16, <1>17

\* What is behind the first n frames does not matter, nor do frames about other chunks.
LEMMA HeldSame ==
  ASSUME NEW m, NEW s, NEW t, NEW c, NEW n \in Nat, \A i \in 1..n : s[i] = t[i]
  PROVE  HeldAfter(m, s, n, c) = HeldAfter(m, t, n, c)
<1> DEFINE since(k) == \A j \in k + 1..n : ~Settles(s[j], c)
           sinceT(k) == \A j \in k + 1..n : ~Settles(t[j], c)
<1>1. \A k \in Nat : since(k) <=> sinceT(k)
  OBVIOUS
<1>2. since(0) <=> sinceT(0)
  BY <1>1
<1>3. (\E i \in 1..n : s[i].coord = c /\ s[i].type = "add" /\ since(i))
        <=> (\E i \in 1..n : t[i].coord = c /\ t[i].type = "add" /\ sinceT(i))
  BY <1>1
<1>4. \A x : (\E i \in 1..n : s[i].coord = c /\ since(i) /\ x \in s[i].changes)
               <=> (\E i \in 1..n : t[i].coord = c /\ sinceT(i) /\ x \in t[i].changes)
  BY <1>1
<1>5. {x \in Revs : \E i \in 1..n : s[i].coord = c /\ since(i) /\ x \in s[i].changes}
        = {x \in Revs : \E i \in 1..n : t[i].coord = c /\ sinceT(i) /\ x \in t[i].changes}
  BY <1>4
<1> QED BY <1>2, <1>3, <1>5 DEF HeldAfter

\* Frames about other chunks leave the copy as it is.
LEMMA HeldQuiet ==
  ASSUME NEW m \in Copies, NEW s, NEW c, NEW k \in Nat, NEW n \in Nat, k <= n,
         \A j \in k + 1..n : s[j].coord # c
  PROVE  HeldAfter(m, s, n, c) = HeldAfter(m, s, k, c)
<1> DEFINE since(i, l) == \A j \in i + 1..l : ~Settles(s[j], c)
           there(l) == (since(0, l) /\ m # Absent)
                       \/ \E i \in 1..l : s[i].coord = c /\ s[i].type = "add" /\ since(i, l)
           brings(l, x) == \E i \in 1..l : s[i].coord = c /\ since(i, l) /\ x \in s[i].changes
           brought(l) == {x \in Revs : brings(l, x)}
<1>1. \A l \in Nat : HeldAfter(m, s, l, c) = IF ~there(l) THEN Absent
                                 ELSE IF since(0, l) THEN m \union brought(l) ELSE brought(l)
  BY DEF HeldAfter
<1>2. \A j \in k + 1..n : ~Settles(s[j], c)
  BY DEF Settles
<1>3. \A i \in 0..k : since(i, n) <=> since(i, k)
  BY <1>2
<1>4. \A i \in 1..n : s[i].coord = c => i \in 1..k
  OBVIOUS
<1>5. there(n) <=> there(k)
  BY <1>3, <1>4
<1>6. \A x : brings(n, x) <=> brings(k, x)
  BY <1>3, <1>4
<1>7. since(0, n) <=> since(0, k)
  BY <1>3
<1> HIDE DEF since, there, brings
<1>8. brought(n) = brought(k)
  BY <1>6
<1> QED BY <1>1, <1>5, <1>7, <1>8

\* Applying the first frame at once and then the others comes to the same.
LEMMA HeldTail ==
  ASSUME NEW m \in Copies, NEW s \in Seq(Frame), s # <<>>, NEW c, NEW n \in 1..Len(s),
         Absent \notin SUBSET Revs
  PROVE  HeldAfter(AppliedTo(m, Head(s), c), Tail(s), n - 1, c) = HeldAfter(m, s, n, c)
<1> DEFINE t == Tail(s)
           w == AppliedTo(m, s[1], c)
           since(i, l) == \A j \in i + 1..l : ~Settles(s[j], c)
           sinceT(i, l) == \A j \in i + 1..l : ~Settles(t[j], c)
           adds == \E i \in 1..n : s[i].coord = c /\ s[i].type = "add" /\ since(i, n)
           addsT == \E i \in 1..n - 1 : t[i].coord = c /\ t[i].type = "add" /\ sinceT(i, n - 1)
           brings(x) == \E i \in 1..n : s[i].coord = c /\ since(i, n) /\ x \in s[i].changes
           bringsT(x) == \E i \in 1..n - 1 : t[i].coord = c /\ sinceT(i, n - 1) /\ x \in t[i].changes
           brought == {x \in Revs : brings(x)}
           broughtT == {x \in Revs : bringsT(x)}
<1>1. /\ Len(s) \in Nat /\ n \in Nat /\ n - 1 \in Nat /\ n >= 1
      /\ Head(s) = s[1] /\ Len(t) = Len(s) - 1 /\ \A j \in 1..n - 1 : t[j] = s[j + 1]
      /\ s[1] \in Frame
  <2>1. Len(s) \in Nat /\ Head(s) = s[1] /\ 1 \in 1..Len(s)
    BY LenProperties, HeadTailProperties
  <2>2. Len(t) = Len(s) - 1 /\ \A j \in 1..Len(t) : t[j] = s[j + 1]
    BY HeadTailProperties
  <2>3. s[1] \in Frame
    BY <2>1, ElementOfSeq
  <2> QED BY <2>1, <2>2, <2>3
<1>2. s[1].type \in {"add", "delta", "remove"} /\ s[1].changes \subseteq Revs
  BY <1>1, FrameFacts
<1>3. HeldAfter(m, s, n, c) = IF ~((since(0, n) /\ m # Absent) \/ adds) THEN Absent
                              ELSE IF since(0, n) THEN m \union brought ELSE brought
  BY DEF HeldAfter
<1>4. HeldAfter(w, t, n - 1, c) = IF ~((sinceT(0, n - 1) /\ w # Absent) \/ addsT) THEN Absent
                                  ELSE IF sinceT(0, n - 1) THEN w \union broughtT ELSE broughtT
  BY DEF HeldAfter
<1>5. \A i \in 0..n - 1 : sinceT(i, n - 1) <=> since(i + 1, n)
  <2> SUFFICES ASSUME NEW i \in 0..n - 1 PROVE sinceT(i, n - 1) <=> since(i + 1, n)
    OBVIOUS
  <2>1. ASSUME since(i + 1, n), NEW j \in i + 1..n - 1 PROVE ~Settles(t[j], c)
    <3>1. t[j] = s[j + 1] /\ j + 1 \in i + 1 + 1..n
      BY <1>1
    <3> QED BY <2>1, <3>1
  <2>2. ASSUME sinceT(i, n - 1), NEW j \in i + 1 + 1..n PROVE ~Settles(s[j], c)
    <3>1. j - 1 \in i + 1..n - 1 /\ j - 1 \in 1..n - 1 /\ t[j - 1] = s[j - 1 + 1] /\ j - 1 + 1 = j
      BY <1>1
    <3> QED BY <2>2, <3>1
  <2> QED BY <2>1, <2>2
<1>6. since(0, n) <=> ~Settles(s[1], c) /\ since(1, n)
  BY <1>1
<1>7. addsT <=> \E i \in 2..n : s[i].coord = c /\ s[i].type = "add" /\ since(i, n)
  <2> HIDE DEF since, sinceT, t
  <2>1. \A i \in 1..n - 1 : i + 1 \in 2..n /\ t[i] = s[i + 1] /\ (sinceT(i, n - 1) <=> since(i + 1, n))
    BY <1>1, <1>5
  <2>2. \A i \in 2..n : i - 1 \in 1..n - 1 /\ i - 1 + 1 = i
    BY <1>1
  <2>3. ASSUME NEW i \in 2..n, s[i].coord = c, s[i].type = "add", since(i, n) PROVE addsT
    <3>1. i - 1 \in 1..n - 1 /\ t[i - 1] = s[i] /\ sinceT(i - 1, n - 1)
      BY <2>1, <2>2, <2>3
    <3> QED BY <2>3, <3>1
  <2>4. ASSUME NEW i \in 1..n - 1, t[i].coord = c, t[i].type = "add", sinceT(i, n - 1)
        PROVE  \E k \in 2..n : s[k].coord = c /\ s[k].type = "add" /\ since(k, n)
    <3> WITNESS i + 1 \in 2..n
    <3> QED BY <2>1, <2>4
  <2> QED BY <2>3, <2>4
<1>8. \A x : bringsT(x) <=> \E i \in 2..n : s[i].coord = c /\ since(i, n) /\ x \in s[i].changes
  <2> SUFFICES ASSUME NEW x
               PROVE  bringsT(x) <=> \E i \in 2..n : s[i].coord = c /\ since(i, n) /\ x \in s[i].changes
    OBVIOUS
  <2> HIDE DEF since, sinceT, t
  <2>1. \A i \in 1..n - 1 : i + 1 \in 2..n /\ t[i] = s[i + 1] /\ (sinceT(i, n - 1) <=> since(i + 1, n))
    BY <1>1, <1>5
  <2>2. \A i \in 2..n : i - 1 \in 1..n - 1 /\ i - 1 + 1 = i
    BY <1>1
  <2>3. ASSUME NEW i \in 2..n, s[i].coord = c, since(i, n), x \in s[i].changes PROVE bringsT(x)
    <3>1. i - 1 \in 1..n - 1 /\ t[i - 1] = s[i] /\ sinceT(i - 1, n - 1)
      BY <2>1, <2>2, <2>3
    <3> QED BY <2>3, <3>1
  <2>4. ASSUME NEW i \in 1..n - 1, t[i].coord = c, sinceT(i, n - 1), x \in t[i].changes
        PROVE  \E k \in 2..n : s[k].coord = c /\ since(k, n) /\ x \in s[k].changes
    <3> WITNESS i + 1 \in 2..n
    <3> QED BY <2>1, <2>4
  <2> QED BY <2>3, <2>4
<1>9. sinceT(0, n - 1) <=> since(1, n)
  BY SMTT(30), <1>1, <1>5
<1>10. since(1, n) => ~addsT
  BY <1>7 DEF Settles
<1>11. HeldAfter(AppliedTo(m, Head(s), c), Tail(s), n - 1, c)
         = IF ~((sinceT(0, n - 1) /\ w # Absent) \/ addsT) THEN Absent
           ELSE IF sinceT(0, n - 1) THEN w \union broughtT ELSE broughtT
  BY <1>1, <1>4
<1>12. \A i : i \in 1..n <=> i = 1 \/ i \in 2..n
  BY <1>1
<1> HIDE DEF since, sinceT, t
<1>13. adds <=> (s[1].coord = c /\ s[1].type = "add" /\ since(1, n)) \/ addsT
  BY <1>7, <1>12
<1>14. \A x : brings(x) <=> (s[1].coord = c /\ since(1, n) /\ x \in s[1].changes) \/ bringsT(x)
  BY <1>8, <1>12
<1> HIDE DEF adds, addsT, brings, bringsT
<1>15. CASE ~since(1, n)
  <2>1. ~since(0, n) /\ ~sinceT(0, n - 1) /\ (adds <=> addsT)
    BY <1>6, <1>9, <1>13, <1>15
  <2>2. brought = broughtT
    BY <1>14, <1>15
  <2> HIDE DEF brought, broughtT, w
  <2> QED BY <1>3, <1>11, <2>1, <2>2
<1>16. CASE since(1, n) /\ s[1].coord # c
  <2>1. w = m
    BY <1>16 DEF AppliedTo
  <2>2. since(0, n) /\ sinceT(0, n - 1) /\ (adds <=> addsT)
    BY <1>6, <1>9, <1>13, <1>16 DEF Settles
  <2>3. brought = broughtT
    BY <1>14, <1>16
  <2> HIDE DEF brought, broughtT, w
  <2> QED BY <1>3, <1>16, <1>10, <1>11, <2>1, <2>2, <2>3
<1>17. CASE since(1, n) /\ s[1].coord = c /\ s[1].type = "add"
  <2>1. w = s[1].changes /\ w # Absent
    BY <1>2, <1>17 DEF AppliedTo
  <2>2. ~since(0, n) /\ sinceT(0, n - 1) /\ adds
    BY <1>6, <1>9, <1>13, <1>17 DEF Settles
  <2>3. brought = w \union broughtT
    BY <1>2, <1>14, <1>17, <2>1
  <2> QED BY <1>3, <1>11, <2>1, <2>2, <2>3
<1>18. CASE since(1, n) /\ s[1].coord = c /\ s[1].type = "remove"
  <2>1. w = Absent
    BY <1>18 DEF AppliedTo
  <2>2. ~since(0, n) /\ sinceT(0, n - 1) /\ (adds <=> addsT)
    BY <1>6, <1>9, <1>13, <1>18 DEF Settles
  <2> QED BY <1>3, <1>10, <1>11, <1>18, <2>1, <2>2
<1>19. CASE since(1, n) /\ s[1].coord = c /\ s[1].type = "delta"
  <2>1. since(0, n) /\ sinceT(0, n - 1) /\ (adds <=> addsT)
    BY <1>6, <1>9, <1>13, <1>19 DEF Settles
  <2>2. brought = (s[1].changes \union broughtT)
    BY <1>2, <1>14, <1>19
  <2>3. w = IF m = Absent THEN Absent ELSE m \union s[1].changes
    BY <1>19 DEF AppliedTo
  <2>4. m # Absent => m \union s[1].changes # Absent
    BY <1>2 DEF Copies
  <2> HIDE DEF brought, broughtT, w
  <2>5. CASE m = Absent
    BY <1>3, <1>19, <1>10, <1>11, <2>1, <2>3, <2>5
  <2>6. CASE m # Absent
    <3>1. m \union brought = w \union broughtT
      BY <2>2, <2>3, <2>6
    <3> QED BY <1>3, <1>11, <2>1, <2>3, <2>4, <2>6, <3>1
  <2> QED BY <2>5, <2>6
<1> QED BY <1>2, <1>15, <1>16, <1>17, <1>18, <1>19

-----------------------------------------------------------------------------
(* One chunk in one lane, as the lane grows and is read *)

\* A mirror after a frame, chunk by chunk.
LEMMA AppliedChunk ==
  ASSUME NEW w \in [Coords -> Copies], NEW f \in Frame, NEW c \in Coords
  PROVE  Applied(w, f)[c] = AppliedTo(w[c], f, c)
<1>1. f.coord \in Coords /\ f.type \in {"add", "delta", "remove"}
  BY FrameFacts
<1> QED BY <1>1 DEF Applied, AppliedTo

\* Reading a frame keeps what holds of the lane.
LEMMA LaneRead ==
  ASSUME NEW m \in Copies, NEW s \in Seq(Frame), s # <<>>, NEW c, NEW E, LaneOne(m, s, c, E),
         Absent \notin SUBSET Revs
  PROVE  LaneOne(AppliedTo(m, Head(s), c), Tail(s), c, E)
<1> DEFINE t == Tail(s)
           w == AppliedTo(m, Head(s), c)
<1>1. Len(s) \in Nat /\ Len(s) >= 1 /\ Len(t) = Len(s) - 1 /\ \A n \in 1..Len(t) : t[n] = s[n + 1]
  BY LenProperties, EmptySeq, HeadTailProperties
<1>2. \A n \in 1..Len(s) : HeldAfter(w, t, n - 1, c) = HeldAfter(m, s, n, c)
  BY HeldTail
<1>3. \A n \in 0..Len(t) : HeldAfter(w, t, n, c) = HeldAfter(m, s, n + 1, c) /\ n + 1 \in 1..Len(s)
  <2> SUFFICES ASSUME NEW n \in 0..Len(t)
               PROVE  HeldAfter(w, t, n, c) = HeldAfter(m, s, n + 1, c) /\ n + 1 \in 1..Len(s)
    OBVIOUS
  <2>1. n + 1 \in 1..Len(s) /\ n + 1 - 1 = n
    BY <1>1
  <2> QED BY <1>2, <2>1
<1> HIDE DEF t, w
<1>4. \A n \in 0..Len(t) : Whole(HeldAfter(w, t, n, c))
  BY <1>1, <1>3 DEF LaneOne
<1>5. ASSUME NEW n \in 1..Len(t), Plain(t[n], c)
      PROVE  HeldAfter(w, t, n - 1, c) # Absent
  <2>1. n - 1 \in 0..Len(t) /\ n - 1 + 1 = n /\ n + 1 \in 1..Len(s) /\ n + 1 - 1 = n
    BY <1>1
  <2>2. HeldAfter(w, t, n - 1, c) = HeldAfter(m, s, n, c)
    BY <1>3, <2>1
  <2>3. HeldAfter(m, s, n + 1 - 1, c) # Absent
    BY <1>1, <1>5, <2>1 DEF LaneOne
  <2> QED BY <2>1, <2>2, <2>3
<1>6. HeldAfter(w, t, Len(t), c) \in E
  <2>1. Len(t) \in 0..Len(t) /\ Len(t) + 1 = Len(s)
    BY <1>1
  <2> QED BY <1>3, <2>1 DEF LaneOne
<1>7. LaneOne(w, t, c, E)
  BY <1>4, <1>5, <1>6 DEF LaneOne
<1> QED BY <1>7 DEF t, w

\* What a longer lane says of a chunk up to where the lane was before.
LEMMA LaneBefore ==
  ASSUME NEW m \in Copies, NEW s \in Seq(Frame), NEW u \in Seq(Frame), NEW c, NEW E,
         LaneOne(m, s, c, E)
  PROVE  /\ s \o u \in Seq(Frame) /\ Len(s \o u) = Len(s) + Len(u)
         /\ Len(s) \in Nat /\ Len(u) \in Nat
         /\ \A j \in 1..Len(u) : (s \o u)[Len(s) + j] = u[j]
         /\ \A n \in 0..Len(s) : Whole(HeldAfter(m, s \o u, n, c))
         /\ \A n \in 1..Len(s) : Plain((s \o u)[n], c) => HeldAfter(m, s \o u, n - 1, c) # Absent
         /\ HeldAfter(m, s \o u, Len(s), c) \in E
<1> DEFINE v == s \o u
<1>1. v \in Seq(Frame) /\ Len(v) = Len(s) + Len(u) /\ Len(s) \in Nat /\ Len(u) \in Nat
  BY ConcatProperties, LenProperties
<1>2. \A n \in 1..Len(s) : v[n] = s[n]
  BY <1>1, ConcatProperties
<1>3. \A j \in 1..Len(u) : v[Len(s) + j] = u[j]
  <2> SUFFICES ASSUME NEW j \in 1..Len(u) PROVE v[Len(s) + j] = u[j]
    OBVIOUS
  <2>1. Len(s) + j \in 1..Len(s) + Len(u) /\ ~(Len(s) + j <= Len(s)) /\ Len(s) + j - Len(s) = j
    BY <1>1
  <2> QED BY <1>1, <2>1, ConcatProperties
<1> HIDE DEF v
<1>4. \A n \in 0..Len(s) : HeldAfter(m, v, n, c) = HeldAfter(m, s, n, c)
  <2> SUFFICES ASSUME NEW n \in 0..Len(s) PROVE HeldAfter(m, v, n, c) = HeldAfter(m, s, n, c)
    OBVIOUS
  <2>1. n \in Nat /\ \A i \in 1..n : v[i] = s[i]
    BY <1>1, <1>2
  <2> QED BY <2>1, HeldSame
<1>5. \A n \in 0..Len(s) : Whole(HeldAfter(m, v, n, c))
  BY <1>4 DEF LaneOne
<1>6. \A n \in 1..Len(s) : Plain(v[n], c) => HeldAfter(m, v, n - 1, c) # Absent
  <2> SUFFICES ASSUME NEW n \in 1..Len(s), Plain(v[n], c)
               PROVE  HeldAfter(m, v, n - 1, c) # Absent
    OBVIOUS
  <2>1. n - 1 \in 0..Len(s) /\ v[n] = s[n]
    BY <1>1, <1>2
  <2> QED BY <1>4, <2>1 DEF LaneOne
<1>7. HeldAfter(m, v, Len(s), c) \in E
  BY <1>1, <1>4 DEF LaneOne
<1> QED BY <1>1, <1>3, <1>5, <1>6, <1>7 DEF v

\* A lane that says nothing new about a chunk.
LEMMA LaneQuiet ==
  ASSUME NEW m \in Copies, NEW s \in Seq(Frame), NEW u \in Seq(Frame), NEW c, NEW E,
         LaneOne(m, s, c, E), \A h \in E : Whole(h),
         \A j \in 1..Len(u) : u[j].coord # c
  PROVE  LaneOne(m, s \o u, c, E)
<1> DEFINE v == s \o u
           k == Len(s)
<1>1. /\ Len(v) = k + Len(u) /\ k \in Nat /\ Len(u) \in Nat
      /\ \A j \in 1..Len(u) : v[k + j] = u[j]
      /\ \A n \in 0..k : Whole(HeldAfter(m, v, n, c))
      /\ \A n \in 1..k : Plain(v[n], c) => HeldAfter(m, v, n - 1, c) # Absent
      /\ HeldAfter(m, v, k, c) \in E
  BY LaneBefore
<1> HIDE DEF v, k
<1>2. \A j \in k + 1..k + Len(u) : v[j].coord # c
  <2> SUFFICES ASSUME NEW j \in k + 1..k + Len(u) PROVE v[j].coord # c
    OBVIOUS
  <2>1. j - k \in 1..Len(u) /\ k + (j - k) = j
    BY <1>1
  <2> QED BY <1>1, <2>1
<1>3. \A n \in k..Len(v) : HeldAfter(m, v, n, c) \in E
  <2> SUFFICES ASSUME NEW n \in k..Len(v) PROVE HeldAfter(m, v, n, c) \in E
    OBVIOUS
  <2>1. n \in Nat /\ k \in Nat /\ k <= n /\ n <= k + Len(u) /\ Len(u) \in Nat
    BY <1>1
  <2>2. \A j \in k + 1..n : v[j].coord # c
    BY <1>2, <2>1
  <2>3. HeldAfter(m, v, n, c) = HeldAfter(m, v, k, c)
    BY <2>1, <2>2, HeldQuiet
  <2> QED BY <1>1, <2>3
<1>4. \A n \in 0..Len(v) : Whole(HeldAfter(m, v, n, c))
  BY <1>1, <1>3
<1>5. \A n \in 1..Len(v) : Plain(v[n], c) => HeldAfter(m, v, n - 1, c) # Absent
  BY <1>1, <1>2 DEF Plain
<1>6. LaneOne(m, v, c, E)
  <2>1. Len(v) \in k..Len(v)
    BY <1>1
  <2> QED BY <1>3, <1>4, <1>5, <2>1 DEF LaneOne
<1> QED BY <1>6 DEF v

\* A lane with one more frame about a chunk: it makes each of the copies E one of F.
LEMMA LaneSpoken ==
  ASSUME NEW m \in Copies, NEW s \in Seq(Frame), NEW u \in Seq(Frame), NEW c, NEW E, NEW F,
         Absent \notin SUBSET Revs,
         LaneOne(m, s, c, E), \A h \in E \union F : Whole(h),
         NEW i \in 1..Len(u), \A j \in 1..Len(u) : j # i => u[j].coord # c,
         Plain(u[i], c) => Absent \notin E, \A h \in E : AppliedTo(h, u[i], c) \in F
  PROVE  LaneOne(m, s \o u, c, F)
<1> DEFINE v == s \o u
           k == Len(s)
<1>1. /\ Len(v) = k + Len(u) /\ k \in Nat /\ Len(u) \in Nat /\ v \in Seq(Frame)
      /\ \A j \in 1..Len(u) : v[k + j] = u[j]
      /\ \A n \in 0..k : Whole(HeldAfter(m, v, n, c))
      /\ \A n \in 1..k : Plain(v[n], c) => HeldAfter(m, v, n - 1, c) # Absent
      /\ HeldAfter(m, v, k, c) \in E
  BY LaneBefore
<1> HIDE DEF v, k
<1>2. \A j \in k + 1..k + Len(u) : j # k + i => v[j].coord # c
  <2> SUFFICES ASSUME NEW j \in k + 1..k + Len(u), j # k + i PROVE v[j].coord # c
    OBVIOUS
  <2>1. j - k \in 1..Len(u) /\ k + (j - k) = j /\ j - k # i
    BY <1>1
  <2> QED BY <1>1, <2>1
<1>3. \A n \in k..k + i - 1 : HeldAfter(m, v, n, c) \in E
  <2> SUFFICES ASSUME NEW n \in k..k + i - 1 PROVE HeldAfter(m, v, n, c) \in E
    OBVIOUS
  <2>1. n \in Nat /\ k <= n /\ \A j \in k + 1..n : v[j].coord # c
    BY <1>1, <1>2
  <2> QED BY <1>1, <2>1, HeldQuiet
<1>4. HeldAfter(m, v, k + i, c) \in F
  <2>1. k \in Nat /\ i \in Nat /\ k + i \in 1..Len(v) /\ k + i - 1 \in k..k + i - 1 /\ v[k + i] = u[i]
    BY <1>1
  <2>2. HeldAfter(m, v, k + i, c) = AppliedTo(HeldAfter(m, v, k + i - 1, c), v[k + i], c)
    <3>1. \A n \in 1..Len(v) : HeldAfter(m, v, n, c) = AppliedTo(HeldAfter(m, v, n - 1, c), v[n], c)
      BY <1>1, HeldNext
    <3> QED BY <2>1, <3>1
  <2> QED BY <1>3, <2>1, <2>2
<1>5. \A n \in k + i..Len(v) : HeldAfter(m, v, n, c) \in F
  <2> SUFFICES ASSUME NEW n \in k + i..Len(v) PROVE HeldAfter(m, v, n, c) \in F
    OBVIOUS
  <2>1. n \in Nat /\ k + i \in Nat /\ k + i <= n /\ \A j \in k + i + 1..n : v[j].coord # c
    BY <1>1, <1>2
  <2> QED BY <1>4, <2>1, HeldQuiet
<1>6. \A n \in 0..Len(v) : Whole(HeldAfter(m, v, n, c))
  <2>1. \A n \in 0..Len(v) : n \in 0..k \/ n \in k..k + i - 1 \/ n \in k + i..Len(v)
    BY <1>1
  <2> QED BY <1>1, <1>3, <1>5, <2>1
<1>7. \A n \in 1..Len(v) : Plain(v[n], c) => HeldAfter(m, v, n - 1, c) # Absent
  <2> SUFFICES ASSUME NEW n \in 1..Len(v), Plain(v[n], c)
               PROVE  HeldAfter(m, v, n - 1, c) # Absent
    OBVIOUS
  <2>1. CASE n \in 1..k
    BY <1>1, <2>1
  <2>2. CASE n = k + i
    <3>1. n - 1 \in k..k + i - 1 /\ v[n] = u[i]
      BY <1>1, <2>2
    <3> QED BY <1>3, <3>1
  <2> QED BY <1>1, <1>2, <2>1, <2>2 DEF Plain
<1>8. HeldAfter(m, v, Len(v), c) \in F
  <2>1. Len(v) \in k + i..Len(v)
    BY <1>1
  <2> QED BY <1>5, <2>1
<1>9. LaneOne(m, v, c, F)
  BY <1>6, <1>7, <1>8 DEF LaneOne
<1> QED BY <1>9 DEF v

-----------------------------------------------------------------------------
(* What is sent *)

\* SetToSeq lists a finite set: each of its elements in one place.
LEMMA SetToSeqLists ==
  ASSUME NEW S, IsFiniteSet(S)
  PROVE  /\ SetToSeq(S) \in Seq(S) /\ Len(SetToSeq(S)) = Cardinality(S) /\ Cardinality(S) \in Nat
         /\ \A x \in S : \E i \in 1..Len(SetToSeq(S)) : SetToSeq(S)[i] = x
         /\ \A i, j \in 1..Len(SetToSeq(S)) : SetToSeq(S)[i] = SetToSeq(S)[j] => i = j
<1> DEFINE n == Cardinality(S)
           s == SetToSeq(S)
<1>1. n \in Nat /\ ExistsBijection(1..n, S)
  BY FS_CardinalityType
<1>2. PICK f : f \in [1..n -> S] /\ IsInjective(f)
  BY <1>1 DEF ExistsBijection, Bijection, Injection
<1>3. s \in [1..n -> S] /\ IsInjective(s)
  BY <1>2 DEF SetToSeq
<1>4. s \in Seq(S)
  BY <1>1, <1>3, SeqDef
<1>5. DOMAIN s = 1..n /\ Len(s) = n
  BY <1>1, <1>3, <1>4, LenProperties
<1>6. IsFiniteSet(1..n) /\ Cardinality(1..n) = n
  BY <1>1, FS_Interval
<1>7. s \in Injection(1..n, S)
  BY <1>3 DEF Injection
<1>8. s \in Surjection(1..n, S)
  BY <1>6, <1>7, FS_Injection
<1>9. \A x \in S : \E i \in 1..n : s[i] = x
  BY <1>8 DEF Surjection
<1>10. \A i, j \in 1..n : s[i] = s[j] => i = j
  BY <1>3, <1>5 DEF IsInjective
<1> QED BY <1>1, <1>4, <1>5, <1>9, <1>10

\* u is frames, one about each chunk c of f's domain, namely f[c], and none about another.
OneEach(u, f) ==
  /\ u \in Seq(Frame)
  /\ \A c \in DOMAIN f : \E i \in 1..Len(u) : u[i] = f[c] /\ \A j \in 1..Len(u) : j # i => u[j].coord # c
  /\ \A c \in Coords \ DOMAIN f : \A j \in 1..Len(u) : u[j].coord # c

LEMMA OneFrameEach ==
  ASSUME ReplicationAssumption, NEW S \in SUBSET Coords, NEW f \in [S -> Frame],
         \A c \in S : f[c].coord = c
  PROVE  OneEach([i \in 1..Len(SetToSeq(S)) |-> f[SetToSeq(S)[i]]], f)
<1> DEFINE q == SetToSeq(S)
           u == [i \in 1..Len(q) |-> f[q[i]]]
<1>1. IsFiniteSet(S)
  BY FS_Subset DEF ReplicationAssumption
<1>2. /\ q \in Seq(S) /\ Len(q) \in Nat /\ \A x \in S : \E i \in 1..Len(q) : q[i] = x
      /\ \A i, j \in 1..Len(q) : q[i] = q[j] => i = j
  BY <1>1, SetToSeqLists, LenProperties
<1>3. \A i \in 1..Len(q) : q[i] \in S /\ f[q[i]] \in Frame /\ f[q[i]].coord = q[i]
  BY <1>2, ElementOfSeq
<1>4. u \in [1..Len(q) -> Frame]
  BY <1>3
<1>5. u \in Seq(Frame)
  BY <1>2, <1>4, SeqDef
<1>6. Len(u) = Len(q) /\ \A i \in 1..Len(q) : u[i] = f[q[i]] /\ u[i].coord = q[i]
  BY <1>2, <1>3, <1>4, <1>5, LenProperties
<1> HIDE DEF u
<1>7. /\ \A c \in S : \E i \in 1..Len(u) : u[i] = f[c] /\ \A j \in 1..Len(u) : j # i => u[j].coord # c
      /\ \A c \in Coords \ S : \A j \in 1..Len(u) : u[j].coord # c
  BY <1>2, <1>3, <1>6
<1>8. OneEach(u, f)
  BY <1>5, <1>7 DEF OneEach
<1> QED BY <1>8 DEF u

\* What a lane that grows by such frames says of a chunk.
LEMMA LaneGrows ==
  ASSUME ReplicationAssumption, NEW m \in Copies, NEW s \in Seq(Frame), NEW c \in Coords,
         NEW E, NEW F, LaneOne(m, s, c, E), \A h \in E \union F : Whole(h),
         NEW u, NEW f, OneEach(u, f), c \notin DOMAIN f => E \subseteq F,
         c \in DOMAIN f => /\ \A h \in E : AppliedTo(h, f[c], c) \in F
                           /\ Plain(f[c], c) => Absent \notin E
  PROVE  LaneOne(m, s \o u, c, F)
<1>1. Absent \notin SUBSET Revs /\ u \in Seq(Frame)
  BY DEF ReplicationAssumption, OneEach
<1>2. CASE c \notin DOMAIN f
  <2>1. \A j \in 1..Len(u) : u[j].coord # c
    BY <1>2 DEF OneEach
  <2>2. LaneOne(m, s \o u, c, E)
    BY <1>1, <2>1, LaneQuiet
  <2> QED BY <1>2, <2>2 DEF LaneOne
<1>3. CASE c \in DOMAIN f
  <2>1. PICK i \in 1..Len(u) : u[i] = f[c] /\ \A j \in 1..Len(u) : j # i => u[j].coord # c
    BY <1>3 DEF OneEach
  <2>2. (\A h \in E : AppliedTo(h, u[i], c) \in F) /\ (Plain(u[i], c) => Absent \notin E)
    BY <1>3, <2>1
  <2> QED BY <1>1, <2>1, <2>2, LaneSpoken
<1> QED BY <1>2, <1>3

\* The frames of a tick and those of an edit to one player.
Adds(S, revs) == [c \in S |-> ChunkAdd(c, revs[c])]
Removes(S) == [c \in S |-> ChunkRemove(c)]
Deltas(S, base, new, blind) == [c \in S |-> ChunkDelta(c, base[c], new[c], c \in blind)]
DeltaFrames(S, base, new, blind) ==
  LET q == SetToSeq(S)
  IN [i \in 1..Len(q) |-> ChunkDelta(q[i], base[q[i]], new[q[i]], q[i] \in blind)]

LEMMA AddFramesFacts ==
  ASSUME ReplicationAssumption, NEW S \in SUBSET Coords, NEW revs \in [Coords -> Revs]
  PROVE  OneEach(AddFrames(S, revs), Adds(S, revs))
<1> DEFINE q == SetToSeq(S)
           f == Adds(S, revs)
<1>1. \A i \in 1..Len(q) : q[i] \in S
  BY SetToSeqLists, ElementOfSeq, FS_Subset DEF ReplicationAssumption
<1>2. AddFrames(S, revs) = [i \in 1..Len(q) |-> f[q[i]]]
  BY <1>1 DEF AddFrames, Adds
<1>3. f \in [S -> Frame] /\ \A c \in S : f[c].coord = c
  BY DEF Adds, ChunkAdd, Frame, Revs, ReplicationAssumption
<1> HIDE DEF f
<1>4. OneEach([i \in 1..Len(q) |-> f[q[i]]], f)
  BY <1>3, OneFrameEach
<1> QED BY <1>2, <1>4 DEF f

LEMMA RemoveFramesFacts ==
  ASSUME ReplicationAssumption, NEW S \in SUBSET Coords
  PROVE  OneEach(RemoveFrames(S), Removes(S))
<1> DEFINE q == SetToSeq(S)
           f == Removes(S)
<1>1. \A i \in 1..Len(q) : q[i] \in S
  BY SetToSeqLists, ElementOfSeq, FS_Subset DEF ReplicationAssumption
<1>2. RemoveFrames(S) = [i \in 1..Len(q) |-> f[q[i]]]
  BY <1>1 DEF RemoveFrames, Removes
<1>3. f \in [S -> Frame] /\ \A c \in S : f[c].coord = c
  BY DEF Removes, ChunkRemove, Frame
<1> HIDE DEF f
<1>4. OneEach([i \in 1..Len(q) |-> f[q[i]]], f)
  BY <1>3, OneFrameEach
<1> QED BY <1>2, <1>4 DEF f

LEMMA DeltaFramesFacts ==
  ASSUME ReplicationAssumption, NEW S \in SUBSET Coords, NEW base \in [Coords -> Revs],
         NEW new \in [Coords -> Revs], NEW blind
  PROVE  OneEach(DeltaFrames(S, base, new, blind), Deltas(S, base, new, blind))
<1> DEFINE q == SetToSeq(S)
           f == Deltas(S, base, new, blind)
<1>1. \A i \in 1..Len(q) : q[i] \in S
  BY SetToSeqLists, ElementOfSeq, FS_Subset DEF ReplicationAssumption
<1>2. DeltaFrames(S, base, new, blind) = [i \in 1..Len(q) |-> f[q[i]]]
  BY <1>1 DEF DeltaFrames, Deltas
<1>3. f \in [S -> Frame] /\ \A c \in S : f[c].coord = c
  <2>1. \A c \in S : base[c] + 1..new[c] \subseteq Revs /\ Gap \in Revs
    BY DEF Gap, Revs, ReplicationAssumption
  <2> QED BY <2>1 DEF Deltas, ChunkDelta, Frame
<1> HIDE DEF f
<1>4. OneEach([i \in 1..Len(q) |-> f[q[i]]], f)
  BY <1>3, OneFrameEach
<1> QED BY <1>2, <1>4 DEF f

\* The budget leaves some for later and adds none; without a limit it leaves none.
LEMMA WithinBudgetFacts ==
  ASSUME ReplicationAssumption, NEW S \in SUBSET Coords
  PROVE  WithinBudget(S) \subseteq S /\ (SendBudget = 0 => WithinBudget(S) = S)
<1>1. SendBudget = 0 => WithinBudget(S) = S
  BY DEF WithinBudget
<1>2. ASSUME ~(SendBudget = 0 \/ Cardinality(S) <= SendBudget)
      PROVE  ToSet(SubSeq(SetToSeq(S), 1, SendBudget)) \subseteq S
  <2>1. IsFiniteSet(S) /\ SendBudget \in Nat
    BY FS_Subset DEF ReplicationAssumption
  <2>2. /\ SetToSeq(S) \in Seq(S) /\ Len(SetToSeq(S)) = Cardinality(S) /\ Cardinality(S) \in Nat
    BY <2>1, SetToSeqLists
  <2>3. \A i \in 1..Len(SetToSeq(S)) : SetToSeq(S)[i] \in S
    BY <2>2, ElementOfSeq
  <2> DEFINE t == SubSeq(SetToSeq(S), 1, SendBudget)
  <2>4. t = [i \in 1..SendBudget |-> SetToSeq(S)[i]]
    BY <2>1, <2>2, <1>2
  <2>5. \A i \in DOMAIN t : t[i] \in S
    BY <1>2, <2>1, <2>2, <2>3, <2>4
  <2> HIDE DEF t
  <2>6. ToSet(t) \subseteq S
    BY <2>5 DEF ToSet
  <2> QED BY <2>6 DEF t
<1> QED BY <1>1, <1>2 DEF WithinBudget

-----------------------------------------------------------------------------
(* The types, step by step *)

LEMMA InitTypes == ASSUME ReplicationAssumption, Init PROVE TypeOK
<1>1. Nothing \in [Coords -> Revs \union {Absent}] /\ Nothing \in [Coords -> Copies]
  BY DEF Nothing, Copies
<1>2. 0 \in Revs /\ <<>> \in Seq(Frame)
  BY EmptySeq DEF Revs, ReplicationAssumption
<1> QED BY <1>1, <1>2 DEF Init, TypeOK, Copies

LEMMA JoinTypes ==
  ASSUME ReplicationAssumption, TypeOK, NEW p \in Players, NEW v \in Views, Join(p, v) PROVE TypeOK'
BY DEF TypeOK, Join, ReplicationAssumption

LEMMA MoveTypes ==
  ASSUME ReplicationAssumption, TypeOK, NEW p \in Players, NEW v \in Views, Move(p, v) PROVE TypeOK'
BY DEF TypeOK, Move, ReplicationAssumption

LEMMA LeaveTypes ==
  ASSUME TypeOK, NEW p \in Players, Leave(p) PROVE TypeOK'
<1>1. Nothing \in [Coords -> Revs \union {Absent}] /\ Nothing \in [Coords -> Copies]
  BY DEF Nothing, Copies
<1>2. <<>> \in Seq(Frame)
  BY EmptySeq
<1>3. /\ loaded' = loaded /\ rev' = rev /\ playing' = playing \ {p}
      /\ view' = [view EXCEPT ![p] = {}] /\ ticked' = [ticked EXCEPT ![p] = {}]
      /\ last_sent' = [last_sent EXCEPT ![p] = {}]
      /\ last_sent_revision' = [last_sent_revision EXCEPT ![p] = Nothing]
      /\ lane' = [lane EXCEPT ![p] = <<>>] /\ mirror' = [mirror EXCEPT ![p] = Nothing]
      /\ overtaken' = [overtaken EXCEPT ![p] = {}]
  BY DEF Leave, ForgetPlayer
<1>4. /\ lane' \in [Players -> Seq(Frame)]
  BY <1>2, <1>3 DEF TypeOK
<1>5. mirror' \in [Players -> [Coords -> (SUBSET Revs) \union {Absent}]]
  BY <1>1, <1>3 DEF TypeOK, Copies
<1>6. last_sent_revision' \in [Players -> [Coords -> Revs \union {Absent}]]
  BY <1>1, <1>3 DEF TypeOK
<1>7. \A q \in Players \ playing' : last_sent'[q] = {} /\ last_sent_revision'[q] = Nothing
  BY <1>3 DEF TypeOK
<1> QED BY <1>3, <1>4, <1>5, <1>6, <1>7 DEF TypeOK

\* What a tick sends of a world with chunks `now` at revisions revs, to each player.
Send(p, now, revs) == WithinBudget(Outdated(p, view[p] \intersect now, revs))

\* What the tick makes of each player's books.
LEMMA TickFacts ==
  ASSUME ReplicationAssumption, TypeOK, NEW load \in SUBSET Coords, NEW relit \in SUBSET Coords,
         Tick(load, relit)
  PROVE  /\ loaded' \in SUBSET Coords /\ rev' \in [Coords -> Revs]
         /\ UNCHANGED <<playing, view, mirror>> /\ ticked' = view
         /\ \A p \in Players \ playing : /\ lane'[p] = lane[p] /\ last_sent'[p] = last_sent[p]
                                         /\ last_sent_revision'[p] = last_sent_revision[p]
                                         /\ overtaken'[p] = overtaken[p]
         /\ \A p \in playing :
              /\ lane'[p] = lane[p] \o AddFrames(Send(p, loaded', rev'), rev')
                                    \o RemoveFrames(Left(p, view[p] \intersect loaded'))
              /\ last_sent'[p] = view[p] \intersect loaded'
              /\ last_sent_revision'[p] = [c \in Coords |->
                   IF c \in Send(p, loaded', rev') THEN rev'[c]
                   ELSE IF c \in Left(p, view[p] \intersect loaded') THEN Absent
                   ELSE last_sent_revision[p][c]]
              /\ overtaken'[p] = overtaken[p] \ (Send(p, loaded', rev')
                                                 \union Left(p, view[p] \intersect loaded'))
              /\ Send(p, loaded', rev') \subseteq view[p] \intersect loaded'
              /\ Left(p, view[p] \intersect loaded') \in SUBSET Coords
         /\ lane' = [p \in Players |-> lane'[p]] /\ last_sent' = [p \in Players |-> last_sent'[p]]
         /\ last_sent_revision' = [p \in Players |-> last_sent_revision'[p]]
         /\ overtaken' = [p \in Players |-> overtaken'[p]]
<1> DEFINE desired == UNION {view[p] : p \in playing}
           now == (loaded \intersect desired) \union load
           revs == [c \in Coords |-> IF c \in relit THEN rev[c] + 1 ELSE rev[c]]
<1>1. /\ loaded' = now /\ rev' = revs /\ ticked' = [p \in Players |-> view[p]]
      /\ Stream(now, revs) /\ UNCHANGED <<playing, view, mirror>>
      /\ relit \subseteq {c \in now : rev[c] < MaxRev}
  BY DEF Tick, Counted
<1>2. loaded' \in SUBSET Coords /\ rev' \in [Coords -> Revs]
  <2>1. loaded' \in SUBSET Coords
    BY <1>1 DEF TypeOK
  <2>2. \A c \in Coords : rev[c] \in Nat /\ rev[c] <= MaxRev /\ (c \in relit => rev[c] < MaxRev)
    BY <1>1 DEF TypeOK, Revs, ReplicationAssumption
  <2>3. \A c \in Coords : revs[c] \in 0..MaxRev
    BY <2>2 DEF ReplicationAssumption
  <2> HIDE DEF now
  <2> QED BY <1>1, <2>1, <2>3 DEF Revs
<1>3. ticked' = view
  BY <1>1 DEF TypeOK
<1> HIDE DEF now, revs
<1>4. Stream(loaded', rev')
  BY <1>1
<1>5. \A p \in Players : /\ Send(p, loaded', rev') \subseteq view[p] \intersect loaded'
                         /\ Left(p, view[p] \intersect loaded') \in SUBSET Coords
  <2> SUFFICES ASSUME NEW p \in Players
               PROVE  /\ Send(p, loaded', rev') \subseteq view[p] \intersect loaded'
                      /\ Left(p, view[p] \intersect loaded') \in SUBSET Coords
    OBVIOUS
  <2> DEFINE out == Outdated(p, view[p] \intersect loaded', rev')
  <2>1. out \in SUBSET Coords /\ out \subseteq view[p] \intersect loaded'
    BY <1>2 DEF Outdated
  <2>2. Left(p, view[p] \intersect loaded') \in SUBSET Coords
    BY DEF Left, TypeOK
  <2> HIDE DEF out
  <2>3. WithinBudget(out) \subseteq out
    BY <2>1, WithinBudgetFacts
  <2> QED BY <2>1, <2>2, <2>3 DEF Send, out
<1>6. /\ lane' = [p \in Players |->
                   IF p \in playing
                   THEN lane[p] \o AddFrames(Send(p, loaded', rev'), rev')
                                \o RemoveFrames(Left(p, view[p] \intersect loaded'))
                   ELSE lane[p]]
      /\ last_sent_revision' = [p \in Players |->
          IF p \in playing
          THEN [c \in Coords |-> IF c \in Send(p, loaded', rev') THEN rev'[c]
                                 ELSE IF c \in Left(p, view[p] \intersect loaded') THEN Absent
                                 ELSE last_sent_revision[p][c]]
          ELSE last_sent_revision[p]]
      /\ last_sent' = [p \in Players |-> IF p \in playing THEN view[p] \intersect loaded' ELSE last_sent[p]]
      /\ overtaken' = [p \in Players |->
          IF p \in playing
          THEN overtaken[p] \ (Send(p, loaded', rev') \union Left(p, view[p] \intersect loaded'))
          ELSE overtaken[p]]
  BY <1>4 DEF Stream, Send
<1>7. playing \subseteq Players
  BY DEF TypeOK
<1> QED BY <1>1, <1>2, <1>3, <1>5, <1>6, <1>7

LEMMA TickTypes ==
  ASSUME ReplicationAssumption, TypeOK, NEW load \in SUBSET Coords, NEW relit \in SUBSET Coords,
         Tick(load, relit)
  PROVE  TypeOK'
<1>1. \A p \in Players : lane'[p] \in Seq(Frame)
  <2> SUFFICES ASSUME NEW p \in Players PROVE lane'[p] \in Seq(Frame)
    OBVIOUS
  <2>1. CASE p \in playing
    <3> DEFINE send == Send(p, loaded', rev')
               left == Left(p, view[p] \intersect loaded')
    <3>1. send \in SUBSET Coords /\ left \in SUBSET Coords /\ rev' \in [Coords -> Revs]
      BY <2>1, TickFacts
    <3> HIDE DEF send, left
    <3>2. AddFrames(send, rev') \in Seq(Frame) /\ RemoveFrames(left) \in Seq(Frame)
      BY <3>1, AddFramesFacts, RemoveFramesFacts DEF OneEach
    <3>3. lane[p] \in Seq(Frame)
      BY DEF TypeOK
    <3>4. lane[p] \o AddFrames(send, rev') \o RemoveFrames(left) \in Seq(Frame)
      BY <3>2, <3>3, ConcatProperties
    <3>5. lane'[p] = lane[p] \o AddFrames(send, rev') \o RemoveFrames(left)
      BY <2>1, TickFacts DEF send, left
    <3> QED BY <3>4, <3>5
  <2>2. CASE p \notin playing
    BY <2>2, TickFacts DEF TypeOK
  <2> QED BY <2>1, <2>2
<1>2. \A p \in Players : last_sent_revision'[p] \in [Coords -> Revs \union {Absent}]
  <2> SUFFICES ASSUME NEW p \in Players PROVE last_sent_revision'[p] \in [Coords -> Revs \union {Absent}]
    OBVIOUS
  <2>1. last_sent_revision[p] \in [Coords -> Revs \union {Absent}]
    BY DEF TypeOK
  <2>2. CASE p \in playing
    <3> DEFINE send == Send(p, loaded', rev')
               left == Left(p, view[p] \intersect loaded')
               sent == [c \in Coords |-> IF c \in send THEN rev'[c]
                                         ELSE IF c \in left THEN Absent ELSE last_sent_revision[p][c]]
    <3>1. rev' \in [Coords -> Revs] /\ last_sent_revision'[p] = sent
      BY <2>2, TickFacts
    <3> HIDE DEF send, left
    <3>2. sent \in [Coords -> Revs \union {Absent}]
      BY <2>1, <3>1
    <3> QED BY <3>1, <3>2
  <2>3. CASE p \notin playing
    BY <2>1, <2>3, TickFacts
  <2> QED BY <2>2, <2>3
<1>3. \A p \in Players : last_sent'[p] \in SUBSET Coords /\ overtaken'[p] \in SUBSET Coords
  BY TickFacts DEF TypeOK
<1>4. /\ loaded' \in SUBSET Coords /\ rev' \in [Coords -> Revs] /\ playing' \in SUBSET Players
      /\ view' \in [Players -> SUBSET Coords] /\ ticked' \in [Players -> SUBSET Coords]
      /\ mirror' \in [Players -> [Coords -> (SUBSET Revs) \union {Absent}]]
  BY TickFacts DEF TypeOK
<1>5. /\ lane' \in [Players -> Seq(Frame)] /\ last_sent' \in [Players -> SUBSET Coords]
      /\ last_sent_revision' \in [Players -> [Coords -> Revs \union {Absent}]]
      /\ overtaken' \in [Players -> SUBSET Coords]
  <2>1. /\ lane' = [p \in Players |-> lane'[p]] /\ last_sent' = [p \in Players |-> last_sent'[p]]
        /\ last_sent_revision' = [p \in Players |-> last_sent_revision'[p]]
        /\ overtaken' = [p \in Players |-> overtaken'[p]]
    BY TickFacts
  <2> QED BY <1>1, <1>2, <1>3, <2>1
<1>6. \A p \in Players \ playing' : last_sent'[p] = {} /\ last_sent_revision'[p] = Nothing
  <2>1. playing' = playing
    BY TickFacts
  <2>2. \A p \in Players \ playing : /\ last_sent'[p] = last_sent[p]
                                     /\ last_sent_revision'[p] = last_sent_revision[p]
    BY TickFacts
  <2> QED BY <2>1, <2>2 DEF TypeOK
<1> QED BY <1>4, <1>5, <1>6 DEF TypeOK

\* Whom an edit of p at the revisions `base` leaves a gap with.
Missed(p, q, base, visited) == overtaken[q] \union {d \in visited : Overtakes(p, q, d, base)}

\* The chunks of an edit of p that player q is told of.
Fanned(p, q, visited) == {d \in visited : q \in Told(p, d)}

\* What an edit of p, made on the revisions `base`, does to the revisions and to each player's
\* lane and books.
FannedOut(p, base, visited) ==
  /\ base \in [Coords -> Revs] /\ rev' \in [Coords -> Revs] /\ loaded' \in SUBSET Coords
  /\ \A d \in Coords : rev'[d] >= base[d]
  /\ UNCHANGED <<playing, view, ticked, last_sent, mirror>>
  /\ p \in Players => p \in playing
  /\ lane' = [q \in Players |->
       lane[q] \o DeltaFrames(Fanned(p, q, visited), base, rev', Missed(p, q, base, visited))]
  /\ last_sent_revision' = [q \in Players |-> [d \in Coords |->
       IF d \in Fanned(p, q, visited) THEN rev'[d] ELSE last_sent_revision[q][d]]]
  /\ overtaken' = [q \in Players |-> Missed(p, q, base, visited)]

LEMMA EditFacts ==
  ASSUME ReplicationAssumption, TypeOK, NEW p \in Editors, NEW c \in Coords,
         NEW hooked \in SUBSET Coords, NEW visited \in SUBSET Coords, NEW relit \in SUBSET Coords,
         Edit(p, c, hooked, visited, relit)
  PROVE  \E base : FannedOut(p, base, visited)
<1>0. PICK base : base = Counted(rev, hooked)
  OBVIOUS
<1> DEFINE new == Counted(Counted(base, {c}), relit)
<1>1. /\ p \in Players => p \in playing
      /\ \A d \in Coords : new[d] <= MaxRev
      /\ rev' = new /\ loaded' = loaded \union hooked
      /\ lane' = [q \in Players |->
           lane[q] \o DeltaFrames(Fanned(p, q, visited), base, new, Missed(p, q, base, visited))]
      /\ last_sent_revision' = [q \in Players |-> [d \in Coords |->
           IF d \in Fanned(p, q, visited) THEN new[d] ELSE last_sent_revision[q][d]]]
      /\ overtaken' = [q \in Players |-> Missed(p, q, base, visited)]
      /\ UNCHANGED <<playing, view, ticked, last_sent, mirror>>
  BY <1>0 DEF Edit, DeltaFrames, Fanned, Missed
<1>2. \A d \in Coords : rev[d] \in Nat
  BY DEF TypeOK, Revs, ReplicationAssumption
<1>3. \A d \in Coords : base[d] \in Nat /\ new[d] \in Nat /\ new[d] >= base[d]
  BY <1>0, <1>2 DEF Counted
<1>4. base \in [Coords -> Revs] /\ new \in [Coords -> Revs]
  <2>1. \A d \in Coords : base[d] \in Revs /\ new[d] \in Revs
    <3> SUFFICES ASSUME NEW d \in Coords PROVE base[d] \in Revs /\ new[d] \in Revs
      OBVIOUS
    <3>1. base[d] \in Nat /\ new[d] \in Nat /\ new[d] >= base[d] /\ new[d] <= MaxRev /\ MaxRev \in Nat
      BY <1>1, <1>3 DEF ReplicationAssumption
    <3> HIDE DEF new
    <3> QED BY <3>1 DEF Revs
  <2>2. base = [d \in Coords |-> base[d]] /\ new = [d \in Coords |-> new[d]]
    BY <1>0 DEF Counted
  <2> HIDE DEF new
  <2> QED BY <2>1, <2>2
<1>5. loaded' \in SUBSET Coords
  BY <1>1 DEF TypeOK
<1> HIDE DEF new
<1>6. FannedOut(p, base, visited)
  BY <1>1, <1>3, <1>4, <1>5 DEF FannedOut
<1> QED BY <1>6

LEMMA EditTypes ==
  ASSUME ReplicationAssumption, TypeOK, NEW p \in Editors, NEW c \in Coords,
         NEW hooked \in SUBSET Coords, NEW visited \in SUBSET Coords, NEW relit \in SUBSET Coords,
         Edit(p, c, hooked, visited, relit)
  PROVE  TypeOK'
<1>0. PICK base : FannedOut(p, base, visited)
  BY EditFacts
<1>1. /\ base \in [Coords -> Revs] /\ rev' \in [Coords -> Revs] /\ loaded' \in SUBSET Coords
      /\ UNCHANGED <<playing, view, ticked, last_sent, mirror>>
      /\ p \in Players => p \in playing
      /\ lane' = [q \in Players |->
           lane[q] \o DeltaFrames(Fanned(p, q, visited), base, rev', Missed(p, q, base, visited))]
      /\ last_sent_revision' = [q \in Players |-> [d \in Coords |->
           IF d \in Fanned(p, q, visited) THEN rev'[d] ELSE last_sent_revision[q][d]]]
      /\ overtaken' = [q \in Players |-> Missed(p, q, base, visited)]
  BY <1>0 DEF FannedOut
<1>2. ASSUME NEW q \in Players
      PROVE  lane[q] \o DeltaFrames(Fanned(p, q, visited), base, rev', Missed(p, q, base, visited))
               \in Seq(Frame)
  <2> DEFINE S == Fanned(p, q, visited)
             blind == Missed(p, q, base, visited)
  <2>1. S \in SUBSET Coords /\ lane[q] \in Seq(Frame)
    BY DEF TypeOK, Fanned
  <2> HIDE DEF S, blind
  <2>2. DeltaFrames(S, base, rev', blind) \in Seq(Frame)
    BY <1>1, <2>1, DeltaFramesFacts DEF OneEach
  <2>3. lane[q] \o DeltaFrames(S, base, rev', blind) \in Seq(Frame)
    BY <2>1, <2>2, ConcatProperties
  <2> QED BY <2>3 DEF S, blind
<1>3. lane' \in [Players -> Seq(Frame)]
  BY <1>1, <1>2
<1>4. last_sent_revision' \in [Players -> [Coords -> Revs \union {Absent}]]
  BY <1>1 DEF TypeOK
<1>5. overtaken' \in [Players -> SUBSET Coords]
  BY <1>1 DEF TypeOK, Missed
<1>6. \A q \in Players \ playing : last_sent_revision'[q] = Nothing
  <2> SUFFICES ASSUME NEW q \in Players \ playing PROVE last_sent_revision'[q] = Nothing
    OBVIOUS
  <2>1. last_sent[q] = {} /\ last_sent_revision[q] = Nothing /\ q # p
    BY <1>1 DEF TypeOK
  <2>2. \A d \in Coords : d \notin Fanned(p, q, visited)
    BY <2>1 DEF Fanned, Told, Covered
  <2>3. last_sent_revision'[q] = [d \in Coords |-> Nothing[d]]
    BY <1>1, <2>1, <2>2
  <2> QED BY <2>3 DEF Nothing
<1> QED BY <1>1, <1>3, <1>4, <1>5, <1>6 DEF TypeOK

LEMMA SetBlockTypes ==
  ASSUME ReplicationAssumption, TypeOK, NEW c \in Coords, SetBlock(c) PROVE TypeOK'
<1>1. /\ loaded' = loaded \union {c} /\ rev' = Counted(rev, {c}) /\ rev[c] < MaxRev
      /\ UNCHANGED <<playing, view, ticked, last_sent, last_sent_revision, overtaken, lane, mirror>>
  BY DEF SetBlock
<1>2. \A d \in Coords : rev[d] \in Nat /\ rev[d] <= MaxRev
  BY DEF TypeOK, Revs, ReplicationAssumption
<1>3. Counted(rev, {c}) \in [Coords -> Revs]
  BY <1>1, <1>2 DEF Counted, Revs, ReplicationAssumption
<1> QED BY <1>1, <1>3 DEF TypeOK

LEMMA DeliverTypes ==
  ASSUME TypeOK, NEW p \in Players, Deliver(p) PROVE TypeOK'
<1>1. /\ lane[p] # <<>> /\ lane' = [lane EXCEPT ![p] = Tail(lane[p])]
      /\ mirror' = [mirror EXCEPT ![p] = Applied(mirror[p], Head(lane[p]))]
      /\ UNCHANGED serverVars
  BY DEF Deliver
<1>2. lane[p] \in Seq(Frame) /\ mirror[p] \in [Coords -> Copies]
  BY DEF TypeOK, Copies
<1>3. Tail(lane[p]) \in Seq(Frame) /\ Head(lane[p]) \in Frame
  BY <1>1, <1>2, HeadTailProperties
<1>4. Applied(mirror[p], Head(lane[p])) \in [Coords -> Copies]
  <2> DEFINE f == Head(lane[p])
             w == mirror[p]
  <2>1. /\ f.coord \in Coords /\ f.changes \subseteq Revs /\ f.type \in {"add", "delta", "remove"}
    BY <1>3, FrameFacts
  <2>2. w[f.coord] \in Copies
    BY <1>2, <2>1
  <2>3. w[f.coord] # Absent => w[f.coord] \union f.changes \in Copies
    BY <2>1, <2>2 DEF Copies
  <2>4. f.changes \in Copies /\ Absent \in Copies
    BY <2>1 DEF Copies
  <2> HIDE DEF f, w
  <2>5. Applied(w, f) \in [Coords -> Copies]
    <3>1. w \in [Coords -> Copies]
      BY <1>2 DEF w
    <3> QED BY <2>1, <2>3, <2>4, <3>1 DEF Applied
  <2> QED BY <2>5 DEF f, w
<1>5. mirror' \in [Players -> [Coords -> Copies]] /\ lane' \in [Players -> Seq(Frame)]
  BY <1>1, <1>3, <1>4 DEF TypeOK, Copies
<1> QED BY <1>1, <1>5 DEF TypeOK, serverVars, Copies

LEMMA StepTypes ==
  ASSUME ReplicationAssumption, TypeOK, [Next]_vars PROVE TypeOK'
<1>1. CASE UNCHANGED vars
  BY <1>1 DEF TypeOK, vars, serverVars
<1>2. ASSUME NEW p \in Players, NEW v \in Views, Join(p, v) \/ Move(p, v) PROVE TypeOK'
  BY <1>2, JoinTypes, MoveTypes
<1>3. ASSUME NEW p \in Players, Leave(p) \/ Deliver(p) PROVE TypeOK'
  BY <1>3, LeaveTypes, DeliverTypes
<1>4. ASSUME NEW p \in Editors, NEW c \in Coords, NEW hooked \in SUBSET Coords,
             NEW visited \in SUBSET Coords, NEW relit \in SUBSET Coords,
             Edit(p, c, hooked, visited, relit)
      PROVE  TypeOK'
  BY <1>4, EditTypes
<1>5. ASSUME NEW c \in Coords, SetBlock(c) PROVE TypeOK'
  BY <1>5, SetBlockTypes
<1>6. CASE TickStep
  BY <1>6, TickTypes DEF TickStep
<1> QED BY <1>1, <1>2, <1>3, <1>4, <1>5, <1>6 DEF Next

\* The replicator's books, the lanes and the mirrors hold what they are declared to hold, and
\* nothing is kept of a player that left, whatever is edited (WorldReplicator).
THEOREM TypeCorrect == ASSUME ReplicationAssumption PROVE Spec => []TypeOK
<1>1. Init => TypeOK
  BY InitTypes
<1>2. TypeOK /\ [Next]_vars => TypeOK'
  BY StepTypes
<1> QED BY <1>1, <1>2, PTL DEF Spec

-----------------------------------------------------------------------------
(* The books and the lanes, step by step *)

\* Nobody who is not there has a view; what a player is believed to mirror was in its view at the
\* last tick, and it has been sent revisions of nothing else, but for what an edit of its overtook.
Books ==
  /\ \A p \in Players \ playing : view[p] = {}
  /\ \A p \in Players : last_sent[p] \subseteq ticked[p]
  /\ \A p \in Players : \A c \in Coords :
       last_sent_revision[p][c] # Absent => c \in last_sent[p] \/ c \in overtaken[p]

\* What a player may hold of a chunk in the end: the revision on the books, or, of a chunk an edit
\* has overtaken, nothing or a copy with a gap.
Ending(r, over, sent) ==
  IF ~over THEN {Content(r)} ELSE {h \in Copies : h = Absent \/ (sent /\ Gap \in h)}
Ends(p, c) == Ending(last_sent_revision[p][c], c \in overtaken[p], c \in last_sent[p])

\* What each mirror holds and what is on its way to it add up, frame by frame, to whole chunks
\* and in the end to such a copy.
Lanes == \A p \in Players : \A c \in Coords : LaneOne(mirror[p][c], lane[p], c, Ends(p, c))

LEMMA EndingFacts ==
  ASSUME ReplicationAssumption, NEW r \in Revs \union {Absent}, NEW over, NEW sent
  PROVE  /\ Content(r) \in Copies /\ (r # Absent => Content(r) # Absent)
         /\ \A h \in Ending(r, over, sent) : h \in Copies /\ Whole(h)
<1>1. \A x \in Revs : 1..x \in SUBSET Revs
  BY DEF Revs, ReplicationAssumption
<1>2. Content(r) \in Copies /\ (r # Absent => Content(r) # Absent) /\ Whole(Content(r))
  BY <1>1 DEF Content, Copies, Whole, ReplicationAssumption
<1> QED BY <1>2 DEF Ending, Whole

LEMMA LaneStart == ASSUME ReplicationAssumption, NEW c PROVE LaneOne(Absent, <<>>, c, {Absent})
<1>1. Len(<<>>) = 0
  BY EmptySeq
<1>2. HeldAfter(Absent, <<>>, 0, c) = Absent
  BY HeldBefore DEF Copies
<1>3. \A n \in 0..0 : n = 0
  OBVIOUS
<1>4. \A n \in 1..0 : FALSE
  OBVIOUS
<1> QED BY <1>1, <1>2, <1>3, <1>4 DEF LaneOne, Whole, Content

LEMMA InitHeld == ASSUME ReplicationAssumption, Init PROVE Books /\ Lanes
<1>1. Books
  BY DEF Init, Books, Nothing
<1>2. Lanes
  <2>1. \A p \in Players : \A c \in Coords :
          mirror[p][c] = Absent /\ lane[p] = <<>> /\ Ends(p, c) = {Absent}
    BY DEF Init, Nothing, Ends, Ending, Content
  <2> QED BY <2>1, LaneStart DEF Lanes
<1> QED BY <1>1, <1>2

LEMMA LeaveHeld ==
  ASSUME ReplicationAssumption, TypeOK, Books, Lanes, NEW p \in Players, Leave(p)
  PROVE  Books' /\ Lanes'
<1>1. /\ loaded' = loaded /\ playing' = playing \ {p}
      /\ view' = [view EXCEPT ![p] = {}] /\ ticked' = [ticked EXCEPT ![p] = {}]
      /\ last_sent' = [last_sent EXCEPT ![p] = {}]
      /\ last_sent_revision' = [last_sent_revision EXCEPT ![p] = Nothing]
      /\ lane' = [lane EXCEPT ![p] = <<>>] /\ mirror' = [mirror EXCEPT ![p] = Nothing]
      /\ overtaken' = [overtaken EXCEPT ![p] = {}]
  BY DEF Leave, ForgetPlayer
<1>2. Books'
  BY <1>1 DEF Books, TypeOK, Nothing
<1>3. Lanes'
  <2> SUFFICES ASSUME NEW q \in Players, NEW c \in Coords
               PROVE  LaneOne(mirror'[q][c], lane'[q], c, Ends(q, c)')
    BY DEF Lanes
  <2>1. CASE q = p
    <3>1. mirror'[q][c] = Absent /\ lane'[q] = <<>> /\ Ends(q, c)' = {Absent}
      BY <1>1, <2>1 DEF TypeOK, Nothing, Ends, Ending, Content
    <3> QED BY <3>1, LaneStart
  <2>2. CASE q # p
    <3>1. mirror'[q] = mirror[q] /\ lane'[q] = lane[q] /\ Ends(q, c)' = Ends(q, c)
      BY <1>1, <2>2 DEF TypeOK, Ends
    <3> QED BY <3>1 DEF Lanes
  <2> QED BY <2>1, <2>2
<1> QED BY <1>2, <1>3

LEMMA DeliverHeld ==
  ASSUME ReplicationAssumption, TypeOK, Books, Lanes, NEW p \in Players, Deliver(p)
  PROVE  Books' /\ Lanes'
<1>1. /\ lane[p] # <<>> /\ lane' = [lane EXCEPT ![p] = Tail(lane[p])]
      /\ mirror' = [mirror EXCEPT ![p] = Applied(mirror[p], Head(lane[p]))]
      /\ UNCHANGED serverVars
  BY DEF Deliver
<1>2. Books'
  BY <1>1 DEF Books, serverVars
<1>3. Lanes'
  <2> SUFFICES ASSUME NEW q \in Players, NEW c \in Coords
               PROVE  LaneOne(mirror'[q][c], lane'[q], c, Ends(q, c))
    BY <1>1 DEF Lanes, Ends, serverVars
  <2>1. CASE q = p
    <3>1. /\ lane[p] \in Seq(Frame) /\ mirror[p] \in [Coords -> Copies] /\ mirror[p][c] \in Copies
          /\ Absent \notin SUBSET Revs
      BY DEF TypeOK, Copies, ReplicationAssumption
    <3>2. Head(lane[p]) \in Frame
      BY <1>1, <3>1, HeadTailProperties
    <3>3. mirror'[q][c] = AppliedTo(mirror[p][c], Head(lane[p]), c)
      BY <1>1, <2>1, <3>1, <3>2, AppliedChunk DEF TypeOK
    <3>4. lane'[q] = Tail(lane[p])
      BY <1>1, <2>1 DEF TypeOK
    <3>5. LaneOne(mirror[p][c], lane[p], c, Ends(p, c))
      BY DEF Lanes
    <3> QED BY <1>1, <2>1, <3>1, <3>3, <3>4, <3>5, LaneRead
  <2>2. CASE q # p
    <3>1. mirror'[q] = mirror[q] /\ lane'[q] = lane[q]
      BY <1>1, <2>2 DEF TypeOK
    <3> QED BY <3>1 DEF Lanes
  <2> QED BY <2>1, <2>2
<1> QED BY <1>2, <1>3

LEMMA TickHeld ==
  ASSUME ReplicationAssumption, TypeOK, Books, Lanes, NEW load \in SUBSET Coords,
         NEW relit \in SUBSET Coords, Tick(load, relit)
  PROVE  Books' /\ Lanes'
<1>1. /\ playing' = playing /\ view' = view /\ mirror' = mirror /\ ticked' = view
      /\ playing \subseteq Players /\ rev' \in [Coords -> Revs]
  BY TickFacts DEF TypeOK
<1>2. ASSUME NEW p \in Players, p \notin playing
      PROVE  /\ lane'[p] = lane[p] /\ last_sent'[p] = {} /\ view[p] = {} /\ last_sent_revision'[p] = Nothing
             /\ \A c \in Coords : Ends(p, c)' = Ends(p, c)
  BY <1>2, TickFacts DEF Books, TypeOK, Ends
<1>3. ASSUME NEW p \in playing
      PROVE  /\ last_sent'[p] \subseteq view[p]
             /\ \A c \in Coords : last_sent_revision'[p][c] # Absent
                                    => c \in last_sent'[p] \/ c \in overtaken'[p]
             /\ \A c \in Coords : LaneOne(mirror[p][c], lane'[p], c, Ends(p, c)')
  <2> DEFINE visible == view[p] \intersect loaded'
             send == Send(p, loaded', rev')
             left == Left(p, visible)
             now(c) == IF c \in send THEN {1..rev'[c]} ELSE Ends(p, c)
  <2>1. /\ lane'[p] = lane[p] \o AddFrames(send, rev') \o RemoveFrames(left)
        /\ last_sent'[p] = visible
        /\ last_sent_revision'[p] = [c \in Coords |->
             IF c \in send THEN rev'[c] ELSE IF c \in left THEN Absent ELSE last_sent_revision[p][c]]
        /\ overtaken'[p] = overtaken[p] \ (send \union left)
        /\ send \subseteq visible /\ left \in SUBSET Coords
    BY TickFacts
  <2>2. /\ p \in Players /\ left = last_sent[p] \ visible /\ visible \subseteq view[p]
        /\ send \in SUBSET Coords
    BY <1>1, <2>1 DEF Left, TypeOK
  <2> HIDE DEF visible, send, left
  <2>3. /\ last_sent_revision[p] \in [Coords -> Revs \union {Absent}]
        /\ \A c \in Coords : rev'[c] \in Revs /\ rev'[c] # Absent
    BY <1>1, <2>2 DEF TypeOK, Revs, ReplicationAssumption
  <2>4. ASSUME NEW c \in Coords, last_sent_revision'[p][c] # Absent
        PROVE  c \in visible \/ c \in overtaken'[p]
    <3>1. c \in send \/ (c \notin left /\ last_sent_revision[p][c] # Absent)
      BY <2>1, <2>4
    <3> QED BY <2>1, <2>2, <3>1 DEF Books
  <2>5. ASSUME NEW c \in Coords PROVE LaneOne(mirror[p][c], lane'[p], c, Ends(p, c)')
    <3>1. mirror[p][c] \in Copies /\ lane[p] \in Seq(Frame)
      BY <2>2 DEF TypeOK, Copies
    <3>2. OneEach(AddFrames(send, rev'), Adds(send, rev')) /\ OneEach(RemoveFrames(left), Removes(left))
      <4>1. OneEach(AddFrames(send, rev'), Adds(send, rev'))
        BY <1>1, <2>2, AddFramesFacts
      <4>2. OneEach(RemoveFrames(left), Removes(left))
        BY <2>1, RemoveFramesFacts
      <4> QED BY <4>1, <4>2
    <3>3. LaneOne(mirror[p][c], lane[p], c, Ends(p, c))
      BY <2>2 DEF Lanes
    <3>4. /\ \A h \in Ends(p, c) \union now(c) : Whole(h)
          /\ \A h \in Ends(p, c)' : Whole(h)
      <4>1. \A h \in Ends(p, c) : Whole(h)
        BY <2>2, <2>3, EndingFacts DEF Ends
      <4>2. Whole(1..rev'[c])
        BY <2>3 DEF Whole
      <4>3. last_sent_revision'[p][c] \in Revs \union {Absent}
        BY <2>1, <2>3
      <4>4. \A h \in Ends(p, c)' : Whole(h)
        BY <4>3, EndingFacts DEF Ends
      <4> QED BY <4>1, <4>2, <4>4
    <3>5. LaneOne(mirror[p][c], lane[p] \o AddFrames(send, rev'), c, now(c))
      <4> DEFINE f == Adds(send, rev')
                 F == now(c)
                 E == Ends(p, c)
      <4>1. DOMAIN f = send /\ (c \notin send => E \subseteq F)
        BY DEF Adds
      <4>2. ASSUME c \in send PROVE (\A h \in E : AppliedTo(h, f[c], c) \in F) /\ ~Plain(f[c], c)
        <5>1. f[c] = ChunkAdd(c, rev'[c]) /\ F = {1..rev'[c]}
          BY <4>2 DEF Adds
        <5> HIDE DEF f, E, F
        <5> QED BY <5>1 DEF ChunkAdd, AppliedTo, Plain
      <4>3. (\A h \in E \union F : Whole(h)) /\ OneEach(AddFrames(send, rev'), f)
        BY <3>2, <3>4
      <4> HIDE DEF f, E, F
      <4>4. LaneOne(mirror[p][c], lane[p] \o AddFrames(send, rev'), c, F)
        BY <3>1, <3>3, <4>1, <4>2, <4>3, LaneGrows DEF E
      <4> QED BY <4>4 DEF F
    <3>6. lane[p] \o AddFrames(send, rev') \in Seq(Frame)
      BY <3>1, <3>2, ConcatProperties DEF OneEach
    <3>7. LaneOne(mirror[p][c], lane'[p], c, Ends(p, c)')
      <4> DEFINE f == Removes(left)
                 F == Ends(p, c)'
                 E == now(c)
                 s == lane[p] \o AddFrames(send, rev')
      <4>1. DOMAIN f = left
        BY DEF Removes
      <4>2. ASSUME c \notin left PROVE E \subseteq F
        <5>1. CASE c \in send
          <6>1. Content(rev'[c]) = 1..rev'[c]
            BY <2>3 DEF Content
          <6>2. last_sent_revision'[p][c] = rev'[c] /\ c \notin overtaken'[p]
            BY <2>1, <5>1
          <6>3. F = {1..rev'[c]}
            BY <6>1, <6>2 DEF Ends, Ending
          <6> QED BY <5>1, <6>3
        <5>2. CASE c \notin send
          <6>1. /\ last_sent_revision'[p][c] = last_sent_revision[p][c]
                /\ c \in overtaken'[p] <=> c \in overtaken[p]
                /\ c \in last_sent[p] => c \in last_sent'[p]
            BY <2>1, <2>2, <4>2, <5>2
          <6> QED BY <5>2, <6>1 DEF Ends, Ending
        <5> QED BY <5>1, <5>2
      <4>3. ASSUME c \in left PROVE (\A h \in E : AppliedTo(h, f[c], c) \in F) /\ ~Plain(f[c], c)
        <5>1. f[c] = ChunkRemove(c)
          BY <4>3 DEF Removes
        <5>2. last_sent_revision'[p][c] = Absent /\ c \notin overtaken'[p]
          BY <2>1, <2>2, <4>3
        <5>3. F = {Absent}
          BY <5>2 DEF Ends, Ending, Content
        <5> HIDE DEF f, E, F
        <5> QED BY <5>1, <5>3 DEF ChunkRemove, AppliedTo, Plain
      <4>4. /\ OneEach(RemoveFrames(left), f) /\ s \in Seq(Frame)
            /\ LaneOne(mirror[p][c], s, c, E) /\ \A h \in E \union F : Whole(h)
        BY <3>2, <3>4, <3>5, <3>6
      <4>5. lane'[p] = s \o RemoveFrames(left)
        BY <2>1
      <4> HIDE DEF f, E, F, s
      <4>6. LaneOne(mirror[p][c], s \o RemoveFrames(left), c, F)
        BY <3>1, <4>1, <4>2, <4>3, <4>4, LaneGrows
      <4> QED BY <4>5, <4>6 DEF F
    <3> QED BY <3>7
  <2> QED BY <2>1, <2>2, <2>4, <2>5
<1>4. Books'
  <2>1. \A p \in Players \ playing' : view'[p] = {}
    BY <1>1, <1>2
  <2>2. \A p \in Players : last_sent'[p] \subseteq ticked'[p]
    BY <1>1, <1>2, <1>3
  <2>3. \A p \in Players : \A c \in Coords :
          last_sent_revision'[p][c] # Absent => c \in last_sent'[p] \/ c \in overtaken'[p]
    BY <1>2, <1>3 DEF Nothing
  <2> QED BY <2>1, <2>2, <2>3 DEF Books
<1>5. Lanes'
  <2> SUFFICES ASSUME NEW p \in Players, NEW c \in Coords
               PROVE  LaneOne(mirror[p][c], lane'[p], c, Ends(p, c)')
    BY <1>1 DEF Lanes
  <2>1. CASE p \in playing
    BY <1>3, <2>1
  <2>2. CASE p \notin playing
    BY <1>2, <2>2 DEF Lanes
  <2> QED BY <2>1, <2>2
<1> QED BY <1>4, <1>5

\* A delta made on what the player is on record to have continues it; any other leaves its mark.
LEMMA EditHeld ==
  ASSUME ReplicationAssumption, TypeOK, Books, Lanes, NEW p \in Editors, NEW c \in Coords,
         NEW hooked \in SUBSET Coords, NEW visited \in SUBSET Coords, NEW relit \in SUBSET Coords,
         Edit(p, c, hooked, visited, relit)
  PROVE  Books' /\ Lanes'
<1>0. PICK base : FannedOut(p, base, visited)
  BY EditFacts
<1>1. /\ base \in [Coords -> Revs] /\ rev' \in [Coords -> Revs]
      /\ \A d \in Coords : rev'[d] >= base[d]
      /\ UNCHANGED <<playing, view, ticked, last_sent, mirror>>
      /\ lane' = [q \in Players |->
           lane[q] \o DeltaFrames(Fanned(p, q, visited), base, rev', Missed(p, q, base, visited))]
      /\ last_sent_revision' = [q \in Players |-> [d \in Coords |->
           IF d \in Fanned(p, q, visited) THEN rev'[d] ELSE last_sent_revision[q][d]]]
      /\ overtaken' = [q \in Players |-> Missed(p, q, base, visited)]
  BY <1>0 DEF FannedOut
<1>2. \A d \in Coords : /\ base[d] # Absent /\ rev'[d] # Absent
                        /\ base[d] \in Nat /\ rev'[d] \in Nat
  BY <1>1 DEF Revs, ReplicationAssumption
<1>3. ASSUME NEW q \in Players, NEW d \in Coords
      PROVE  /\ d \in Fanned(p, q, visited) /\ d \notin Missed(p, q, base, visited)
                  => last_sent_revision[q][d] = base[d] /\ d \notin overtaken[q]
             /\ d \notin Fanned(p, q, visited)
                  => (d \in Missed(p, q, base, visited) <=> d \in overtaken[q])
             /\ d \in overtaken[q] => d \in Missed(p, q, base, visited)
  BY DEF Fanned, Missed, Overtakes, Told, Covered
<1>4. Books'
  <2>1. ASSUME NEW q \in Players, NEW d \in Coords, last_sent_revision'[q][d] # Absent
        PROVE  d \in last_sent[q] \/ d \in overtaken'[q]
    <3>1. CASE last_sent_revision[q][d] # Absent
      BY <1>1, <1>3, <3>1 DEF Books
    <3>2. CASE last_sent_revision[q][d] = Absent
      <4>1. d \in Fanned(p, q, visited)
        BY <1>1, <2>1, <3>2
      <4>2. d \in Missed(p, q, base, visited)
        BY <1>2, <1>3, <3>2, <4>1
      <4> QED BY <1>1, <4>2
    <3> QED BY <3>1, <3>2
  <2> QED BY <1>1, <2>1 DEF Books
<1>5. Lanes'
  <2> SUFFICES ASSUME NEW q \in Players, NEW d \in Coords
               PROVE  LaneOne(mirror[q][d], lane'[q], d, Ends(q, d)')
    BY <1>1 DEF Lanes
  <2> DEFINE S == Fanned(p, q, visited)
             blind == Missed(p, q, base, visited)
             f == Deltas(S, base, rev', blind)
             E == Ends(q, d)
             F == Ends(q, d)'
             r == last_sent_revision[q][d]
             n == last_sent_revision'[q][d]
  <2>1. lane'[q] = lane[q] \o DeltaFrames(S, base, rev', blind) /\ S \in SUBSET Coords
    BY <1>1 DEF Fanned
  <2>2. /\ E = Ending(r, d \in overtaken[q], d \in last_sent[q])
        /\ F = Ending(n, d \in blind, d \in last_sent[q])
        /\ n = IF d \in S THEN rev'[d] ELSE r
        /\ r \in Revs \union {Absent} /\ n \in Revs \union {Absent}
    BY <1>1 DEF Ends, TypeOK
  <2>3. /\ mirror[q][d] \in Copies /\ lane[q] \in Seq(Frame)
        /\ LaneOne(mirror[q][d], lane[q], d, E)
    BY DEF TypeOK, Copies, Lanes
  <2>4. /\ d \in S /\ d \notin blind => r = base[d] /\ d \notin overtaken[q]
        /\ d \notin S => (d \in blind <=> d \in overtaken[q])
        /\ d \in overtaken[q] => d \in blind
        /\ r # Absent => d \in last_sent[q] \/ d \in overtaken[q]
    BY <1>3 DEF Books
  <2>5. OneEach(DeltaFrames(S, base, rev', blind), f) /\ DOMAIN f = S
    BY <1>1, <2>1, DeltaFramesFacts DEF Deltas
  <2> HIDE DEF S, blind, E, F, r, n
  <2>6. \A h \in E \union F : Whole(h) /\ h \in Copies
    BY <2>2, EndingFacts
  <2>7. ASSUME d \notin S PROVE E \subseteq F
    BY <2>2, <2>4, <2>7
  <2>8. ASSUME d \in S
        PROVE  (\A h \in E : AppliedTo(h, f[d], d) \in F) /\ (Plain(f[d], d) => Absent \notin E)
    <3> DEFINE new == (base[d] + 1..rev'[d]) \union (IF d \in blind THEN {Gap} ELSE {})
    <3>1. f[d].coord = d /\ f[d].type = "delta" /\ f[d].changes = new
      BY <2>8 DEF Deltas, ChunkDelta
    <3>2. new \in SUBSET Revs
      BY <1>1 DEF Gap, Revs, ReplicationAssumption
    <3> HIDE DEF f, new
    <3>3. CASE d \notin blind
      <4>1. E = {1..base[d]} /\ F = {1..rev'[d]}
        BY <1>2, <2>2, <2>4, <2>8, <3>3 DEF Ending, Content
      <4>2. 1..base[d] # Absent
        <5>1. 1..base[d] \in SUBSET Revs
          BY <1>1 DEF Revs, ReplicationAssumption
        <5> QED BY <5>1 DEF ReplicationAssumption
      <4>3. 1..rev'[d] = (1..base[d]) \union new
        <5>1. new = base[d] + 1..rev'[d]
          BY <3>3 DEF new
        <5> QED BY <1>1, <1>2, <5>1
      <4> QED BY <3>1, <4>1, <4>2, <4>3 DEF AppliedTo
    <3>4. CASE d \in blind
      <4>1. F = {h \in Copies : h = Absent \/ (d \in last_sent[q] /\ Gap \in h)} /\ Gap \in new
        BY <2>2, <3>4 DEF Ending, new
      <4>2. ASSUME NEW h \in E, h # Absent PROVE d \in last_sent[q]
        <5>1. CASE d \in overtaken[q]
          BY <2>2, <4>2, <5>1 DEF Ending
        <5>2. CASE d \notin overtaken[q]
          BY <2>2, <2>4, <4>2, <5>2 DEF Ending, Content
        <5> QED BY <5>1, <5>2
      <4>3. ASSUME NEW h \in E PROVE AppliedTo(h, f[d], d) \in F
        <5>1. CASE h = Absent
          BY <3>1, <4>1, <5>1 DEF AppliedTo, Copies
        <5>2. CASE h # Absent
          <6>1. h \union new \in Copies
            BY <2>6, <3>2, <5>2 DEF Copies
          <6>2. AppliedTo(h, f[d], d) = h \union new
            BY <3>1, <5>2 DEF AppliedTo
          <6> QED BY <4>1, <4>2, <5>2, <6>1, <6>2
        <5> QED BY <5>1, <5>2
      <4>4. ~Plain(f[d], d)
        BY <3>1, <4>1 DEF Plain
      <4> QED BY <4>3, <4>4
    <3> QED BY <3>3, <3>4
  <2> HIDE DEF f
  <2>9. LaneOne(mirror[q][d], lane[q] \o DeltaFrames(S, base, rev', blind), d, F)
    BY <2>3, <2>5, <2>6, <2>7, <2>8, LaneGrows
  <2> QED BY <2>1, <2>9 DEF F
<1> QED BY <1>4, <1>5

LEMMA StepHeld ==
  ASSUME ReplicationAssumption, TypeOK, Books, Lanes, [Next]_vars
  PROVE  Books' /\ Lanes'
<1>1. CASE UNCHANGED vars
  BY <1>1 DEF Books, Lanes, Ends, vars, serverVars
<1>2. ASSUME NEW p \in Players, NEW v \in Views, Join(p, v) PROVE Books' /\ Lanes'
  BY <1>2 DEF Books, Lanes, Ends, TypeOK, Join
<1>3. ASSUME NEW p \in Players, NEW v \in Views, Move(p, v) PROVE Books' /\ Lanes'
  BY <1>3 DEF Books, Lanes, Ends, TypeOK, Move
<1>4. ASSUME NEW p \in Players, Leave(p) \/ Deliver(p) PROVE Books' /\ Lanes'
  BY <1>4, LeaveHeld, DeliverHeld
<1>5. ASSUME NEW p \in Editors, NEW c \in Coords, NEW hooked \in SUBSET Coords,
             NEW visited \in SUBSET Coords, NEW relit \in SUBSET Coords,
             Edit(p, c, hooked, visited, relit)
      PROVE  Books' /\ Lanes'
  BY <1>5, EditHeld
<1>6. ASSUME NEW c \in Coords, SetBlock(c) PROVE Books' /\ Lanes'
  BY <1>6 DEF Books, Lanes, Ends, SetBlock
<1>7. CASE TickStep
  BY <1>7, TickHeld DEF TickStep
<1> QED BY <1>1, <1>2, <1>3, <1>4, <1>5, <1>6, <1>7 DEF Next

\* What the books and the lanes say of the mirrors.
LEMMA HeldIsTrue ==
  ASSUME ReplicationAssumption, TypeOK, Books, Lanes
  PROVE  MirrorsAreTrue
<1>1. \A p \in Players : \A c \in Coords : Arriving(p)[c] \in Ends(p, c)
  BY DEF Lanes, LaneOne, Arriving
<1>2. BookIsTrue
  BY <1>1 DEF BookIsTrue, Ends, Ending, Content, TypeOK
<1>3. NoTornChunk
  <2> SUFFICES ASSUME NEW p \in Players, NEW c \in Coords PROVE Whole(mirror[p][c])
    BY DEF NoTornChunk, Whole
  <2>1. Len(lane[p]) \in Nat /\ mirror[p][c] \in Copies
    BY LenProperties DEF TypeOK, Copies
  <2>2. HeldAfter(mirror[p][c], lane[p], 0, c) = mirror[p][c]
    BY <2>1, HeldBefore
  <2>3. Whole(HeldAfter(mirror[p][c], lane[p], 0, c))
    BY <2>1 DEF Lanes, LaneOne
  <2> QED BY <2>2, <2>3
<1>4. NoGhostChunk
  <2> SUFFICES ASSUME NEW p \in playing, NEW c \in Coords, Arriving(p)[c] # Absent
               PROVE  c \in ticked[p]
    BY DEF NoGhostChunk
  <2>1. p \in Players /\ Arriving(p)[c] \in Ends(p, c) /\ last_sent[p] \subseteq ticked[p]
    BY <1>1 DEF Books, TypeOK
  <2>2. CASE c \in overtaken[p]
    BY <2>1, <2>2 DEF Ends, Ending
  <2>3. CASE c \notin overtaken[p]
    <3>1. last_sent_revision[p][c] # Absent
      BY <2>1, <2>3 DEF Ends, Ending, Content
    <3> QED BY <2>1, <2>3, <3>1 DEF Books
  <2> QED BY <2>2, <2>3
<1>5. DeltaAfterAdd
  <2> SUFFICES ASSUME NEW p \in Players, lane[p] # <<>>, Head(lane[p]).type = "delta",
                      Gap \notin Head(lane[p]).changes
               PROVE  mirror[p][Head(lane[p]).coord] # Absent
    BY DEF DeltaAfterAdd
  <2> DEFINE c == Head(lane[p]).coord
  <2>1. lane[p] \in Seq(Frame) /\ Len(lane[p]) \in Nat /\ Len(lane[p]) >= 1 /\ Head(lane[p]) = lane[p][1]
    BY LenProperties, EmptySeq, HeadTailProperties DEF TypeOK
  <2>2. c \in Coords
    BY <2>1, ElementOfSeq, FrameFacts
  <2>3. mirror[p][c] \in Copies /\ LaneOne(mirror[p][c], lane[p], c, Ends(p, c))
    BY <2>2 DEF TypeOK, Copies, Lanes
  <2>4. Plain(lane[p][1], c)
    BY <2>1 DEF Plain
  <2> HIDE DEF c
  <2>5. HeldAfter(mirror[p][c], lane[p], 1 - 1, c) # Absent
    BY <2>1, <2>3, <2>4 DEF LaneOne
  <2>6. HeldAfter(mirror[p][c], lane[p], 0, c) = mirror[p][c]
    BY <2>3, HeldBefore
  <2> QED BY <2>5, <2>6 DEF c
<1> QED BY <1>2, <1>3, <1>4, <1>5 DEF MirrorsAreTrue

\* The replicator's invariant: the mirrors are true because the books and the lanes, frame by
\* frame, add up.
Replicated == TypeOK /\ Books /\ Lanes

\* Whoever edits, whatever scripts and hooks change and whatever budget, views and light reach:
\* what the replicator believes a player to hold is what it will hold, but for the chunks an edit
\* has overtaken and not been made up for; no mirror but of such a chunk is torn, a delta finds
\* its chunk unless it overtook it, and no chunk outlives its place in the view (apply_block_edit,
\* tick, set_block, ClientChunkStore).
THEOREM MirrorsStayTrue == ASSUME ReplicationAssumption PROVE Spec => []MirrorsAreTrue
<1>1. Init => Replicated
  BY InitTypes, InitHeld DEF Replicated
<1>2. Replicated /\ [Next]_vars => Replicated'
  BY StepTypes, StepHeld DEF Replicated
<1>3. Replicated => MirrorsAreTrue
  BY HeldIsTrue DEF Replicated
<1> QED BY <1>1, <1>2, <1>3, PTL DEF Spec

=============================================================================
