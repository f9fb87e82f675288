--------------------------- MODULE LifetimesProofs ---------------------------
(* Proofs about the lifetime check: types, that its alias groups are the names *)
(* of one box, and that what it reports are the dead boxes touched: of the names  *)
(* outside untracked, and where the walk looks.                              *)
EXTENDS LifetimesProperties, SequenceTheorems, TLAPS

USE LifetimesAssumption

-----------------------------------------------------------------------------
(* What keeps a tracker t true to the boxes B, the names U left out.  Groups    *)
(* are symmetric, of left-out names too, because a rebinding takes a name out    *)
(* of those groups only that it knows of itself; a box is left out as a whole;    *)
(* and a name that is followed has none that is left out in its group but for    *)
(* aggregates that it was stored in, which nobody frees.                       *)
Matched(t) == \A x, y \in Names : y \in t.aliases[x] => x \in t.aliases[y] /\ x # y

Partition(B) ==
    /\ \A x \in Names : \E b \in B : x \in b.names
    /\ \A b, c \in B : \A x \in b.names : x \in c.names => b = c

Closed(B, U) == \A b \in B : \A x, y \in b.names : x \in U => y \in U

Agrees(t, U, x, b) ==
    /\ t.freed[x] = b.freedBy
    /\ \A y \in Names \ U : y \in t.aliases[x] <=> y \in b.names /\ y # x
    /\ \A y \in U : y \in t.aliases[x] => y \in Aggregates

Agree(t, B, U) == \A b \in B : \A x \in b.names : x \notin U => Agrees(t, U, x, b)

Keeps(t, B, U) ==
    /\ t \in TrackerType /\ B \subseteq BoxType /\ U \subseteq Names
    /\ Matched(t) /\ Partition(B) /\ Closed(B, U) /\ Agree(t, B, U)

-----------------------------------------------------------------------------
(* The tracker's operations: what d is when x is detached from t, when dest is   *)
(* bound to value in t, when x is freed in t. A name joins the group of a copied   *)
(* value when it is that value or of its group.                              *)
IsDetached(t, x, d) ==
    /\ d \in TrackerType /\ Matched(d)
    /\ \A y \in Names : d.freed[y] = IF y = x THEN Live ELSE t.freed[y]
    /\ \A y, z \in Names : z \in d.aliases[y] <=> z \in t.aliases[y] /\ y # x /\ z # x

Joins(t, dest, value, y) == y = value \/ (y # dest /\ y \in t.aliases[value])

IsBound(t, dest, value, d) ==
    /\ d \in TrackerType /\ Matched(d)
    /\ \A y \in Names : d.freed[y] = IF y = dest THEN t.freed[value] ELSE t.freed[y]
    /\ \A y, z \in Names : z \in d.aliases[y] <=>
            \/ y = dest /\ Joins(t, dest, value, z)
            \/ z = dest /\ Joins(t, dest, value, y)
            \/ y # dest /\ z # dest /\ z \in t.aliases[y]

IsFreed(t, x, d) ==
    /\ d \in TrackerType /\ Matched(d)
    /\ \A y \in Names : d.freed[y] = IF y = x \/ x \in t.aliases[y] THEN x ELSE t.freed[y]
    /\ d.aliases = t.aliases

LEMMA DetachIs ==
  ASSUME NEW t \in TrackerType, Matched(t), NEW x \in Names
  PROVE  IsDetached(t, x, Detach(t, x))
<1> DEFINE F == [t.freed EXCEPT ![x] = Live]
           A == [y \in Names |-> CASE y = x              -> {}
                                   [] y \in t.aliases[x] -> t.aliases[y] \ {x}
                                   [] OTHER              -> t.aliases[y]]
<1>1. Detach(t, x) = [freed |-> F, aliases |-> A]
  BY DEF Detach
<1>2. t.freed \in [Names -> Names \cup {Live}] /\ t.aliases \in [Names -> SUBSET Names]
  BY DEF TrackerType
<1>3. F \in [Names -> Names \cup {Live}] /\ \A y \in Names : F[y] = IF y = x THEN Live ELSE t.freed[y]
  BY <1>2
<1>4. ASSUME NEW y \in Names
      PROVE  /\ A[y] \in SUBSET Names
             /\ \A z \in Names : z \in A[y] <=> z \in t.aliases[y] /\ y # x /\ z # x
  <2>1. CASE y = x
    <3>1. x \notin t.aliases[x]
      BY DEF Matched
    <3>2. QED
      BY <2>1, <3>1
  <2>2. CASE y # x /\ y \in t.aliases[x]
    BY <1>2, <2>2
  <2>3. CASE y # x /\ y \notin t.aliases[x]
    <3>1. x \notin t.aliases[y]
      BY <2>3 DEF Matched
    <3>2. QED
      BY <1>2, <2>3, <3>1
  <2>4. QED
    BY <2>1, <2>2, <2>3
<1>5. A \in [Names -> SUBSET Names]
  BY <1>4
<1> HIDE DEF F, A
<1>6. Detach(t, x) \in TrackerType /\ Detach(t, x).freed = F /\ Detach(t, x).aliases = A
  BY <1>1, <1>3, <1>5 DEF TrackerType
<1>7. \A y, z \in Names : z \in A[y] => y \in A[z] /\ y # z
  BY <1>4 DEF Matched
<1>8. QED
  BY <1>3, <1>4, <1>6, <1>7 DEF Matched, IsDetached

LEMMA BindingIs ==
  ASSUME NEW t \in TrackerType, Matched(t), NEW dest \in Names, NEW value \in Names, value # dest
  PROVE  IsBound(t, dest, value, RecordBinding(t, dest, value))
<1> DEFINE d == Detach(t, dest)
           group == d.aliases[value] \cup {value}
           F == [d.freed EXCEPT ![dest] = d.freed[value]]
           A == [y \in Names |-> CASE y = dest    -> group
                                   [] y \in group -> d.aliases[y] \cup {dest}
                                   [] OTHER       -> d.aliases[y]]
           g == RecordBinding(t, dest, value)
<1>1. IsDetached(t, dest, d)
  BY DetachIs
<1>2. g = [freed |-> F, aliases |-> A]
  BY DEF RecordBinding
<1> HIDE DEF d
<1>3. d.freed \in [Names -> Names \cup {Live}] /\ d.aliases \in [Names -> SUBSET Names]
  BY <1>1 DEF TrackerType, IsDetached
<1>4. group \subseteq Names /\ \A y \in Names : y \in group <=> Joins(t, dest, value, y)
  BY <1>1, <1>3 DEF Joins, IsDetached
<1>5. /\ F \in [Names -> Names \cup {Live}]
      /\ \A y \in Names : F[y] = IF y = dest THEN t.freed[value] ELSE t.freed[y]
  BY <1>1, <1>3 DEF IsDetached
<1> HIDE DEF group
<1>6. ~ Joins(t, dest, value, dest)
  BY DEF Joins
<1>7. ASSUME NEW y \in Names
      PROVE  /\ A[y] \in SUBSET Names
             /\ \A z \in Names : z \in A[y] <=>
                     \/ y = dest /\ Joins(t, dest, value, z)
                     \/ z = dest /\ Joins(t, dest, value, y)
                     \/ y # dest /\ z # dest /\ z \in t.aliases[y]
  <2>1. CASE y = dest
    BY <1>4, <1>6, <2>1
  <2>2. CASE y # dest /\ y \in group
    BY <1>1, <1>3, <1>4, <2>2 DEF IsDetached
  <2>3. CASE y # dest /\ y \notin group
    BY <1>1, <1>3, <1>4, <2>3 DEF IsDetached
  <2>4. QED
    BY <2>1, <2>2, <2>3
<1>8. A \in [Names -> SUBSET Names]
  BY <1>7
<1> HIDE DEF F, A, g
<1>9. g \in TrackerType /\ g.freed = F /\ g.aliases = A
  BY <1>2, <1>5, <1>8 DEF TrackerType
<1>10. \A y, z \in Names : z \in A[y] => y \in A[z] /\ y # z
  BY <1>6, <1>7 DEF Matched
<1>11. Matched(g)
  BY <1>9, <1>10 DEF Matched
<1>12. QED
  BY <1>5, <1>7, <1>9, <1>11 DEF g, IsBound

LEMMA FreeIs ==
  ASSUME NEW t \in TrackerType, Matched(t), NEW x \in Names
  PROVE  IsFreed(t, x, RecordFree(t, x))
<1> DEFINE F == [y \in Names |-> IF y \in t.aliases[x] \cup {x} THEN x ELSE t.freed[y]]
<1>1. t.freed \in [Names -> Names \cup {Live}] /\ t.aliases \in [Names -> SUBSET Names]
  BY DEF TrackerType
<1>2. F \in [Names -> Names \cup {Live}]
  BY <1>1
<1>3. RecordFree(t, x) = [t EXCEPT !.freed = F]
  BY DEF RecordFree
<1>4. \A y \in Names : F[y] = IF y = x \/ x \in t.aliases[y] THEN x ELSE t.freed[y]
  BY DEF Matched
<1> HIDE DEF F
<1>5. /\ RecordFree(t, x) \in TrackerType /\ RecordFree(t, x).freed = F
      /\ RecordFree(t, x).aliases = t.aliases
  BY <1>1, <1>2, <1>3 DEF TrackerType
<1>6. QED
  BY <1>4, <1>5 DEF Matched, IsFreed

-----------------------------------------------------------------------------
(* The boxes.                                                               *)
LEMMA BoxIs ==
  ASSUME Partition(boxes), NEW x \in Names
  PROVE  BoxOf(boxes, x) \in boxes /\ x \in BoxOf(boxes, x).names /\ \A b \in boxes : x \in b.names => b = BoxOf(boxes, x)
<1>1. \E b \in boxes : x \in b.names
  BY DEF Partition
<1>2. BoxOf(boxes, x) \in boxes /\ x \in BoxOf(boxes, x).names
  BY <1>1 DEF BoxOf
<1>3. \A b \in boxes : x \in b.names => b = BoxOf(boxes, x)
  BY <1>2 DEF Partition
<1>4. QED
  BY <1>2, <1>3

(* A box without a name it held.                                             *)
Shrunk(b, x) == [names |-> b.names \ {x}, freedBy |-> b.freedBy]

LEMMA ShrunkType ==
  ASSUME NEW b \in BoxType, NEW x \in Names
  PROVE  /\ Shrunk(b, x) \in BoxType
         /\ Shrunk(b, x).names = b.names \ {x} /\ Shrunk(b, x).freedBy = b.freedBy
         /\ x \notin b.names => Shrunk(b, x) = b
         /\ [b EXCEPT !.names = @ \ {x}] = Shrunk(b, x)
BY DEF Shrunk, BoxType

LEMMA WithoutIs ==
  ASSUME boxes \subseteq BoxType, NEW x \in Names
  PROVE  Without(x) = {Shrunk(b, x) : b \in {e \in boxes : e.names # {x}}}
<1>1. ASSUME NEW c \in Without(x)
      PROVE  \E b \in boxes : c = Shrunk(b, x) /\ b.names # {x}
  <2>1. CASE c \in {b \in boxes : x \notin b.names}
    BY <2>1, ShrunkType
  <2>2. CASE c \in {[b EXCEPT !.names = @ \ {x}] : b \in {e \in boxes : x \in e.names /\ e.names # {x}}}
    <3>1. PICK b \in boxes : c = [b EXCEPT !.names = @ \ {x}] /\ b.names # {x}
      BY <2>2
    <3>2. QED
      BY <3>1, ShrunkType
  <2>3. QED
    BY <2>1, <2>2 DEF Without
<1>2. ASSUME NEW b \in boxes, b.names # {x}
      PROVE  Shrunk(b, x) \in Without(x)
  <2>1. CASE x \notin b.names
    <3>1. Shrunk(b, x) = b
      BY <2>1, ShrunkType
    <3>2. QED
      BY <2>1, <3>1 DEF Without
  <2>2. CASE x \in b.names
    <3>1. [b EXCEPT !.names = @ \ {x}] = Shrunk(b, x)
      BY ShrunkType
    <3>2. b \in {e \in boxes : x \in e.names /\ e.names # {x}}
      BY <1>2, <2>2
    <3>3. QED
      BY <3>1, <3>2 DEF Without
  <2>3. QED
    BY <2>1, <2>2
<1>3. QED
  BY <1>1, <1>2


LEMMA StillHeld ==
  ASSUME boxes \subseteq BoxType, NEW x \in Names, NEW b \in boxes, NEW y \in b.names, y # x
  PROVE  Shrunk(b, x) \in Without(x) /\ y \in Shrunk(b, x).names
<1>1. Shrunk(b, x).names = b.names \ {x}
  BY ShrunkType
<1>2. b.names # {x}
  OBVIOUS
<1>3. QED
  BY <1>1, <1>2, WithoutIs

(* What a box of the boxes after dest is rebound to a copy of value was before:  *)
(* the same one, without dest unless it is the one that value holds.             *)
Moved(b, dest, value, c) ==
    /\ c.freedBy = b.freedBy
    /\ \A y \in Names : y \in c.names <=> IF y = dest THEN value \in b.names ELSE y \in b.names

IsRebound(R, dest, value) ==
    /\ R \subseteq BoxType /\ Partition(R)
    /\ \A c \in R : \/ value = Fresh /\ c.names = {dest} /\ c.freedBy = Live
                    \/ \E b \in boxes : Moved(b, dest, value, c)

LEMMA RebindingFresh ==
  ASSUME boxes \subseteq BoxType, Partition(boxes), NEW dest \in Names
  PROVE  IsRebound(Rebound(dest, Fresh), dest, Fresh)
<1> DEFINE n == [names |-> {dest}, freedBy |-> Live]
           R == Rebound(dest, Fresh)
<1>1. R = Without(dest) \cup {n}
  BY DEF Rebound
<1>2. n \in BoxType /\ n.names = {dest} /\ n.freedBy = Live
  BY DEF BoxType
<1> HIDE DEF n, R
<1>3. ASSUME NEW c \in R, c # n
      PROVE  /\ c \in BoxType /\ dest \notin c.names
             /\ \E b \in boxes : c = Shrunk(b, dest) /\ Moved(b, dest, Fresh, c) /\ c.names \subseteq b.names
  <2>1. PICK b \in boxes : c = Shrunk(b, dest)
    BY <1>1, <1>3, WithoutIs
  <2>2. c \in BoxType /\ c.names = b.names \ {dest} /\ c.freedBy = b.freedBy
    BY <2>1, ShrunkType
  <2>3. Fresh \notin b.names
    BY DEF BoxType
  <2>4. QED
    BY <2>1, <2>2, <2>3 DEF Moved
<1>4. R \subseteq BoxType
  BY <1>2, <1>3
<1>5. ASSUME NEW x \in Names
      PROVE  \E c \in R : x \in c.names
  <2>1. CASE x = dest
    BY <1>1, <1>2, <2>1
  <2>2. CASE x # dest
    <3>1. PICK b \in boxes : x \in b.names
      BY DEF Partition
    <3>2. Shrunk(b, dest) \in Without(dest) /\ x \in Shrunk(b, dest).names
      BY <2>2, <3>1, StillHeld
    <3>3. QED
      BY <1>1, <3>2
  <2>3. QED
    BY <2>1, <2>2
<1>7. ASSUME NEW c \in R, NEW e \in R, NEW x \in c.names, x \in e.names
      PROVE  c = e
  <2>1. CASE c = n \/ e = n
    BY <1>2, <1>3, <1>7, <2>1
  <2>2. CASE c # n /\ e # n
    <3>1. PICK b \in boxes : c = Shrunk(b, dest) /\ c.names \subseteq b.names
      BY <1>3, <2>2
    <3>2. PICK d \in boxes : e = Shrunk(d, dest) /\ e.names \subseteq d.names
      BY <1>3, <2>2
    <3>3. b = d
      BY <1>7, <3>1, <3>2 DEF Partition
    <3>4. QED
      BY <3>1, <3>2, <3>3
  <2>3. QED
    BY <2>1, <2>2
<1>8. Partition(R)
  BY <1>5, <1>7 DEF Partition
<1>9. \A c \in R : \/ c.names = {dest} /\ c.freedBy = Live
                   \/ \E b \in boxes : Moved(b, dest, Fresh, c)
  BY <1>2, <1>3
<1>10. QED
  BY <1>4, <1>8, <1>9 DEF IsRebound, R

LEMMA RebindingCopy ==
  ASSUME boxes \subseteq BoxType, Partition(boxes), NEW dest \in Names, NEW value \in Names,
         value # dest
  PROVE  IsRebound(Rebound(dest, value), dest, value)
<1> DEFINE W == Without(dest)
           j == CHOOSE b \in W : value \in b.names
           n == [j EXCEPT !.names = @ \cup {dest}]
           R == Rebound(dest, value)
<1>1. R = (W \ {j}) \cup {n}
  BY DEF Rebound
<1>2. PICK h \in boxes : value \in h.names
  BY DEF Partition
<1>3. Shrunk(h, dest) \in W /\ value \in Shrunk(h, dest).names
  BY <1>2, StillHeld
<1>4. j \in W /\ value \in j.names
  BY <1>3
<1> HIDE DEF j, R
<1>5. ASSUME NEW c \in W
      PROVE  /\ c \in BoxType
             /\ \E b \in boxes : /\ c = Shrunk(b, dest) /\ c.freedBy = b.freedBy
                                 /\ c.names = b.names \ {dest}
  <2>1. PICK b \in boxes : c = Shrunk(b, dest)
    BY WithoutIs
  <2>2. QED
    BY <2>1, ShrunkType
<1>6. j \in BoxType /\ j.freedBy = h.freedBy /\ j.names = h.names \ {dest}
  <2>1. PICK b \in boxes : /\ j = Shrunk(b, dest) /\ j.freedBy = b.freedBy
                           /\ j.names = b.names \ {dest}
    BY <1>4, <1>5
  <2>2. b = h
    BY <1>2, <1>4, <2>1 DEF Partition
  <2>3. QED
    BY <1>4, <1>5, <2>1, <2>2
<1>7. n \in BoxType /\ n.freedBy = j.freedBy /\ n.names = j.names \cup {dest}
  BY <1>6 DEF BoxType
<1> HIDE DEF n, W
<1>8. Moved(h, dest, value, n)
  BY <1>2, <1>6, <1>7 DEF Moved
<1>9. ASSUME NEW c \in R, c # n
      PROVE  /\ c \in BoxType
             /\ \E b \in boxes : /\ c = Shrunk(b, dest) /\ c.names \subseteq b.names
                                 /\ dest \notin c.names /\ b # h /\ Moved(b, dest, value, c)
  <2>1. c \in W /\ c # j
    BY <1>1, <1>9
  <2>2. PICK b \in boxes : /\ c = Shrunk(b, dest) /\ c.freedBy = b.freedBy
                           /\ c.names = b.names \ {dest}
    BY <1>5, <2>1
  <2>3. PICK b2 \in boxes : /\ j = Shrunk(b2, dest) /\ j.names = b2.names \ {dest}
    BY <1>4, <1>5
  <2>4. b2 = h
    BY <1>2, <1>4, <2>3 DEF Partition
  <2>5. b # h
    BY <2>1, <2>2, <2>3, <2>4
  <2>6. value \notin b.names
    BY <1>2, <2>5 DEF Partition
  <2>7. c \in BoxType
    BY <1>5, <2>1
  <2>8. QED
    BY <2>2, <2>5, <2>6, <2>7 DEF Moved
<1>10. R \subseteq BoxType
  BY <1>7, <1>9
<1>11. ASSUME NEW x \in Names
       PROVE  \E c \in R : x \in c.names
  <2>1. CASE x = dest \/ x \in h.names
    BY <1>1, <1>6, <1>7, <2>1
  <2>2. CASE x # dest /\ x \notin h.names
    <3>1. PICK b \in boxes : x \in b.names
      BY DEF Partition
    <3>2. Shrunk(b, dest) \in W /\ x \in Shrunk(b, dest).names
      BY <2>2, <3>1, StillHeld DEF W
    <3>3. QED
      BY <1>1, <1>6, <2>2, <3>2
  <2>3. QED
    BY <2>1, <2>2
<1>13. ASSUME NEW c \in R, NEW e \in R, NEW x \in c.names, x \in e.names
       PROVE  c = e
  <2>1. ASSUME NEW f \in R, f # n
        PROVE  \A y \in f.names : y \notin n.names
    <3>1. PICK b \in boxes : f.names \subseteq b.names /\ dest \notin f.names /\ b # h
      BY <1>9, <2>1
    <3>2. QED
      BY <1>6, <1>7, <3>1 DEF Partition
  <2>2. CASE c = n \/ e = n
    BY <1>13, <2>1, <2>2
  <2>3. CASE c # n /\ e # n
    <3>1. PICK b \in boxes : c = Shrunk(b, dest) /\ c.names \subseteq b.names
      BY <1>9, <2>3
    <3>2. PICK d \in boxes : e = Shrunk(d, dest) /\ e.names \subseteq d.names
      BY <1>9, <2>3
    <3>3. b = d
      BY <1>13, <3>1, <3>2 DEF Partition
    <3>4. QED
      BY <3>1, <3>2, <3>3
  <2>4. QED
    BY <2>2, <2>3
<1>14. Partition(R)
  BY <1>11, <1>13 DEF Partition
<1>15. \A c \in R : \E b \in boxes : Moved(b, dest, value, c)
  BY <1>8, <1>9
<1>16. QED
  BY <1>10, <1>14, <1>15 DEF IsRebound, R

LEMMA Rebinding ==
  ASSUME boxes \subseteq BoxType, Partition(boxes), NEW dest \in Names, NEW value \in Names \cup {Fresh}
  PROVE  Rebound(dest, value) \subseteq BoxType /\ Partition(Rebound(dest, value))
<1>1. CASE value = Fresh
  BY <1>1, RebindingFresh DEF IsRebound
<1>2. CASE value = dest
  BY <1>2 DEF Rebound
<1>3. CASE value \in Names /\ value # dest
  BY <1>3, RebindingCopy DEF IsRebound
<1>4. QED
  BY <1>1, <1>2, <1>3

(* The boxes after a free are those before; the freed one says whose free it was.  *)
LEMMA FreeingIs ==
  ASSUME boxes \subseteq BoxType, Partition(boxes), NEW x \in Names, NEW R, R = Freed(x)
  PROVE  /\ R \subseteq BoxType /\ Partition(R)
         /\ \A c \in R : \E b \in boxes :
               /\ c.names = b.names
               /\ c.freedBy = IF x \in b.names THEN x ELSE b.freedBy
<1> DEFINE h == BoxOf(boxes, x)
           n == [h EXCEPT !.freedBy = x]
<1>1. h \in boxes /\ x \in h.names /\ \A b \in boxes : x \in b.names => b = h
  BY BoxIs
<1>2. R = (boxes \ {h}) \cup {n}
  BY DEF Freed
<1> HIDE DEF h
<1>3. n \in BoxType /\ n.names = h.names /\ n.freedBy = x
  BY <1>1 DEF BoxType
<1> HIDE DEF n
<1>4. R \subseteq BoxType
  BY <1>2, <1>3
<1>5. ASSUME NEW y \in Names
      PROVE  \E c \in R : y \in c.names
  <2>1. PICK b \in boxes : y \in b.names
    BY DEF Partition
  <2>2. QED
    BY <1>2, <1>3, <2>1
<1>7. ASSUME NEW c \in R, NEW e \in R, NEW y \in c.names, y \in e.names
      PROVE  c = e
  <2>1. CASE c = n /\ e # n
    BY <1>1, <1>2, <1>3, <1>7, <2>1 DEF Partition
  <2>2. CASE c # n /\ e = n
    BY <1>1, <1>2, <1>3, <1>7, <2>2 DEF Partition
  <2>3. CASE c # n /\ e # n
    BY <1>2, <1>7, <2>3 DEF Partition
  <2>4. QED
    BY <2>1, <2>2, <2>3
<1>8. ASSUME NEW c \in R
      PROVE  \E b \in boxes : /\ c.names = b.names
                              /\ c.freedBy = IF x \in b.names THEN x ELSE b.freedBy
  <2>1. CASE c = n
    BY <1>1, <1>3, <2>1
  <2>2. CASE c # n
    BY <1>1, <1>2, <2>2
  <2>3. QED
    BY <2>1, <2>2
<1>9. QED
  BY <1>4, <1>5, <1>7, <1>8 DEF Partition

-----------------------------------------------------------------------------
(* Every statement keeps the tracker true to the boxes.                        *)
LEMMA KindsApart == \A x \in Names : x \in Pointers <=> x \notin Aggregates
BY DEF Names

LEMMA FreshKeeps ==
  ASSUME Keeps(tracker, boxes, untracked), NEW dest \in Names
  PROVE  Keeps(RecordBinding(tracker, dest, Fresh), Rebound(dest, Fresh), untracked \ {dest})
<1> DEFINE t == RecordBinding(tracker, dest, Fresh)
           R == Rebound(dest, Fresh)
           U == untracked \ {dest}
<1>1. t = Detach(tracker, dest)
  BY DEF RecordBinding
<1>2. IsDetached(tracker, dest, t)
  BY <1>1, DetachIs DEF Keeps
<1>3. IsRebound(R, dest, Fresh)
  BY RebindingFresh DEF Keeps
<1> HIDE DEF t, R
<1>4. \A b \in boxes : Fresh \notin b.names
  BY DEF Keeps, BoxType
<1>5. ASSUME NEW c \in R, c.names # {dest}
      PROVE  \E b \in boxes : /\ c.freedBy = b.freedBy /\ dest \notin c.names
                              /\ \A y \in Names : y \in c.names <=> y # dest /\ y \in b.names
  BY <1>3, <1>4, <1>5 DEF IsRebound, Moved
<1>6. ASSUME NEW c \in R, c.names = {dest}
      PROVE  c.freedBy = Live
  <2>1. ~ \E b \in boxes : Moved(b, dest, Fresh, c)
    BY <1>4, <1>6 DEF Moved
  <2>2. QED
    BY <1>3, <2>1 DEF IsRebound
<1>7. Closed(R, U)
  <2>1. ASSUME NEW c \in R, NEW x \in c.names, NEW y \in c.names, x \in U
        PROVE  y \in U
    <3>1. c.names # {dest} /\ x \in Names /\ y \in Names
      BY <1>3, <2>1 DEF IsRebound, BoxType
    <3>2. PICK b \in boxes : /\ dest \notin c.names
                             /\ \A z \in Names : z \in c.names <=> z # dest /\ z \in b.names
      BY <1>5, <3>1
    <3>3. QED
      BY <2>1, <3>1, <3>2 DEF Keeps, Closed
  <2>2. QED
    BY <2>1 DEF Closed
<1>8. Agree(t, R, U)
  <2>1. ASSUME NEW c \in R, NEW x \in c.names, x \notin U
        PROVE  Agrees(t, U, x, c)
    <3>1. x \in Names
      BY <1>3 DEF IsRebound, BoxType
    <3>2. CASE c.names = {dest}
      BY <1>2, <1>6, <3>1, <3>2 DEF Agrees, IsDetached, Keeps
    <3>3. CASE c.names # {dest}
      <4>1. PICK b \in boxes : /\ c.freedBy = b.freedBy /\ dest \notin c.names
                               /\ \A y \in Names : y \in c.names <=> y # dest /\ y \in b.names
        BY <1>5, <3>3
      <4>2. x # dest /\ x \in b.names /\ x \notin untracked
        BY <2>1, <3>1, <4>1
      <4>3. Agrees(tracker, untracked, x, b)
        BY <4>2 DEF Keeps, Agree
      <4>4. untracked \subseteq Names
        BY DEF Keeps
      <4>5. QED
        BY <1>2, <3>1, <4>1, <4>2, <4>3, <4>4 DEF Agrees, IsDetached
    <3>4. QED
      BY <3>2, <3>3
  <2>2. QED
    BY <2>1 DEF Agree
<1>9. QED
  BY <1>2, <1>3, <1>7, <1>8 DEF Keeps, IsDetached, IsRebound, t, R

LEMMA CopyKeeps ==
  ASSUME Keeps(tracker, boxes, untracked), NEW dest \in Names, NEW value \in Names,
         value # dest, SameKind(dest, value),
         NEW U, U = IF value \in untracked THEN untracked \cup {dest} ELSE untracked \ {dest}
  PROVE  Keeps(RecordBinding(tracker, dest, value), Rebound(dest, value), U)
<1> DEFINE t == RecordBinding(tracker, dest, value)
           R == Rebound(dest, value)
<1>1. IsBound(tracker, dest, value, t)
  BY BindingIs DEF Keeps
<1>2. IsRebound(R, dest, value)
  BY RebindingCopy DEF Keeps
<1> HIDE DEF t, R
<1>3. untracked \subseteq Names /\ U \subseteq Names /\ Matched(tracker) /\ Closed(boxes, untracked)
  BY DEF Keeps
<1>4. \A y \in Names : y # dest => (y \in U <=> y \in untracked)
  OBVIOUS
<1>5. dest \in U <=> value \in untracked
  OBVIOUS
<1>6. ASSUME NEW c \in R
      PROVE  /\ c.names \subseteq Names
             /\ \E b \in boxes : Moved(b, dest, value, c)
  BY <1>2 DEF IsRebound, BoxType
<1>7. Closed(R, U)
  <2>1. ASSUME NEW c \in R, NEW x \in c.names, NEW y \in c.names, x \in U
        PROVE  y \in U
    <3>1. PICK b \in boxes : Moved(b, dest, value, c)
      BY <1>6
    <3>2. x \in Names /\ y \in Names
      BY <1>6
    <3>3. QED
      BY <1>3, <1>4, <1>5, <2>1, <3>1, <3>2 DEF Closed, Moved
  <2>2. QED
    BY <2>1 DEF Closed
<1>8. Agree(t, R, U)
  <2>1. ASSUME NEW c \in R, NEW x \in c.names, x \notin U
        PROVE  Agrees(t, U, x, c)
    <3>1. PICK b \in boxes : Moved(b, dest, value, c)
      BY <1>6
    <3>2. x \in Names
      BY <1>6
    <3>3. \A y \in b.names : y \notin untracked => Agrees(tracker, untracked, y, b)
      BY DEF Keeps, Agree
    <3>4. CASE x = dest
      <4>1. value \in b.names /\ value \notin untracked
        BY <1>5, <2>1, <3>1, <3>4 DEF Moved
      <4>2. Agrees(tracker, untracked, value, b)
        BY <3>3, <4>1
      <4>3. t.freed[x] = c.freedBy
        BY <1>1, <3>1, <3>4, <4>2 DEF Agrees, IsBound, Moved
      <4>4. ASSUME NEW y \in Names \ U
            PROVE  y \in t.aliases[x] <=> y \in c.names /\ y # x
        BY <1>1, <1>4, <3>1, <3>4, <4>1, <4>2 DEF Agrees, IsBound, Moved, Joins
      <4>5. ASSUME NEW y \in U, y \in t.aliases[x]
            PROVE  y \in Aggregates
        <5>1. y \in untracked /\ y # dest /\ y # value /\ y \in Names
          BY <1>3, <1>4, <1>5, <4>1
        <5>2. y \in tracker.aliases[value]
          BY <1>1, <3>4, <4>5, <5>1 DEF IsBound, Joins
        <5>3. QED
          BY <4>2, <5>1, <5>2 DEF Agrees
      <4>6. QED
        BY <4>3, <4>4, <4>5 DEF Agrees
    <3>5. CASE x # dest
      <4>1. x \in b.names /\ x \notin untracked
        BY <1>4, <2>1, <3>1, <3>2, <3>5 DEF Moved
      <4>2. Agrees(tracker, untracked, x, b)
        BY <3>3, <4>1
      <4>3. t.freed[x] = c.freedBy
        BY <1>1, <3>1, <3>2, <3>5, <4>2 DEF Agrees, IsBound, Moved
      <4>4. ASSUME NEW y \in Names, y # dest
            PROVE  y \in t.aliases[x] <=> y \in tracker.aliases[x]
        BY <1>1, <3>2, <3>5, <4>4 DEF IsBound
      <4>5. dest \in t.aliases[x] <=> x = value \/ x \in tracker.aliases[value]
        BY <1>1, <3>2, <3>5 DEF IsBound, Joins
      <4>6. x \in tracker.aliases[value] <=> value \in tracker.aliases[x]
        BY <1>3, <3>2 DEF Matched
      <4>7. ASSUME NEW y \in Names \ U
            PROVE  y \in t.aliases[x] <=> y \in c.names /\ y # x
        <5>1. CASE y = dest
          <6>1. value \notin untracked
            BY <1>5, <4>7, <5>1
          <6>2. value \in tracker.aliases[x] <=> value \in b.names /\ value # x
            BY <4>2, <6>1 DEF Agrees
          <6>3. QED
            BY <3>1, <3>5, <4>1, <4>5, <4>6, <5>1, <6>2 DEF Moved
        <5>2. CASE y # dest
          BY <1>4, <3>1, <4>2, <4>4, <5>2 DEF Agrees, Moved
        <5>3. QED
          BY <5>1, <5>2
      <4>8. ASSUME NEW y \in U, y \in t.aliases[x]
            PROVE  y \in Aggregates
        <5>1. CASE y = dest
          <6>1. value \in untracked /\ x # value
            BY <1>5, <4>1, <5>1
          <6>2. value \in Aggregates
            BY <4>2, <4>5, <4>6, <4>8, <5>1, <6>1 DEF Agrees
          <6>3. QED
            BY <5>1, <6>2, KindsApart DEF SameKind
        <5>2. CASE y # dest
          <6>1. y \in Names /\ y \in untracked
            BY <1>3, <1>4, <5>2
          <6>2. QED
            BY <4>2, <4>4, <4>8, <5>2, <6>1 DEF Agrees
        <5>3. QED
          BY <5>1, <5>2
      <4>9. QED
        BY <4>3, <4>7, <4>8 DEF Agrees
    <3>6. QED
      BY <3>4, <3>5
  <2>2. QED
    BY <2>1 DEF Agree
<1>9. QED
  BY <1>1, <1>2, <1>3, <1>7, <1>8 DEF Keeps, IsBound, IsRebound, t, R


(* A box is left out as a whole: what was left out stays, and the boxes the tracker *)
(* follows hold none of the names left out since.                              *)
LEMMA ClosedWith ==
  ASSUME Partition(boxes), Closed(boxes, untracked), NEW x \in Names
  PROVE  /\ Closed(boxes, untracked \cup BoxOf(boxes, x).names)
         /\ \A b \in boxes : \A y \in b.names :
               y \notin untracked \cup BoxOf(boxes, x).names =>
                 y \notin untracked /\ x \notin b.names /\ \A z \in BoxOf(boxes, x).names : z \notin b.names
<1>1. BoxOf(boxes, x) \in boxes /\ x \in BoxOf(boxes, x).names
  BY BoxIs
<1>2. \A b \in boxes : \A y \in b.names : y \in BoxOf(boxes, x).names => b = BoxOf(boxes, x)
  BY <1>1 DEF Partition
<1>3. QED
  BY <1>1, <1>2 DEF Closed

LEMMA SelfCopyKeeps ==
  ASSUME Keeps(tracker, boxes, untracked), NEW x \in Names
  PROVE  Keeps(RecordBinding(tracker, x, x), boxes, untracked \cup BoxOf(boxes, x).names)
<1> DEFINE t == RecordBinding(tracker, x, x)
           U == untracked \cup BoxOf(boxes, x).names
<1>1. t = Detach(tracker, x)
  BY DEF RecordBinding
<1>2. IsDetached(tracker, x, t)
  BY <1>1, DetachIs DEF Keeps
<1> HIDE DEF t
<1>3. /\ Closed(boxes, U)
      /\ \A b \in boxes : \A y \in b.names : y \notin U =>
            y \notin untracked /\ x \notin b.names /\ \A z \in BoxOf(boxes, x).names : z \notin b.names
  BY ClosedWith DEF Keeps
<1>4. U \subseteq Names /\ \A b \in boxes : b.names \subseteq Names
  BY BoxIs DEF Keeps, BoxType
<1>5. Agree(t, boxes, U)
  <2>1. ASSUME NEW b \in boxes, NEW y \in b.names, y \notin U
        PROVE  Agrees(t, U, y, b)
    <3>1. y \in Names /\ y # x /\ y \notin untracked /\ x \notin b.names
      BY <1>3, <1>4, <2>1
    <3>2. Agrees(tracker, untracked, y, b)
      BY <3>1 DEF Keeps, Agree
    <3>3. \A z \in BoxOf(boxes, x).names : z \notin b.names
      BY <1>3, <2>1
    <3>4. \A z \in Names : z \in t.aliases[y] <=> z \in tracker.aliases[y] /\ z # x
      BY <1>2, <3>1 DEF IsDetached
    <3>5. t.freed[y] = b.freedBy
      BY <1>2, <3>1, <3>2 DEF IsDetached, Agrees
    <3>6. \A z \in Names \ U : z \in t.aliases[y] <=> z \in b.names /\ z # y
      BY <3>1, <3>2, <3>4 DEF Agrees
    <3>7. \A z \in U : z \in t.aliases[y] => z \in Aggregates
      BY <1>4, <3>2, <3>3, <3>4 DEF Agrees
    <3>8. QED
      BY <3>5, <3>6, <3>7 DEF Agrees
  <2>2. QED
    BY <2>1 DEF Agree
<1>6. QED
  BY <1>2, <1>3, <1>4, <1>5 DEF Keeps, IsDetached, t

LEMMA StorePartKeeps ==
  ASSUME Keeps(tracker, boxes, untracked), NEW whole \in Aggregates, NEW source \in Names,
         source # whole
  PROVE  Keeps(RecordBinding(tracker, whole, source), boxes, untracked \cup BoxOf(boxes, whole).names)
<1> DEFINE t == RecordBinding(tracker, whole, source)
           U == untracked \cup BoxOf(boxes, whole).names
<1>1. whole \in Names
  BY DEF Names
<1>2. IsBound(tracker, whole, source, t)
  BY <1>1, BindingIs DEF Keeps
<1> HIDE DEF t
<1>3. /\ Closed(boxes, U)
      /\ \A b \in boxes : \A y \in b.names : y \notin U =>
            y \notin untracked /\ whole \notin b.names /\ \A z \in BoxOf(boxes, whole).names : z \notin b.names
  BY <1>1, ClosedWith DEF Keeps
<1>4. U \subseteq Names /\ \A b \in boxes : b.names \subseteq Names
  BY <1>1, BoxIs DEF Keeps, BoxType
<1>5. Agree(t, boxes, U)
  <2>1. ASSUME NEW b \in boxes, NEW y \in b.names, y \notin U
        PROVE  Agrees(t, U, y, b)
    <3>1. y \in Names /\ y # whole /\ y \notin untracked /\ whole \notin b.names
      BY <1>3, <1>4, <2>1
    <3>2. Agrees(tracker, untracked, y, b)
      BY <3>1 DEF Keeps, Agree
    <3>3. \A z \in BoxOf(boxes, whole).names : z \notin b.names
      BY <1>3, <2>1
    <3>4. \A z \in Names : z # whole => (z \in t.aliases[y] <=> z \in tracker.aliases[y])
      BY <1>2, <3>1 DEF IsBound
    <3>5. t.freed[y] = b.freedBy
      BY <1>2, <3>1, <3>2 DEF IsBound, Agrees
    <3>6. \A z \in Names \ U : z \in t.aliases[y] <=> z \in b.names /\ z # y
      <4>1. whole \in U
        BY <1>1, BoxIs DEF Keeps
      <4>2. QED
        BY <3>1, <3>2, <3>4, <4>1 DEF Agrees
    <3>7. ASSUME NEW z \in U, z \in t.aliases[y]
          PROVE  z \in Aggregates
      <4>1. CASE z = whole
        BY <4>1
      <4>2. CASE z # whole
        <5>1. z \in Names /\ z \in tracker.aliases[y]
          BY <1>4, <3>4, <3>7, <4>2
        <5>2. z \in untracked
          BY <3>2, <3>3, <5>1 DEF Agrees
        <5>3. QED
          BY <3>2, <5>1, <5>2 DEF Agrees
      <4>3. QED
        BY <4>1, <4>2
    <3>8. QED
      BY <3>5, <3>6, <3>7 DEF Agrees
  <2>2. QED
    BY <2>1 DEF Agree
<1>6. QED
  BY <1>2, <1>3, <1>4, <1>5 DEF Keeps, IsBound, t

(* Only a pointer is freed, so a name of an untracked box has none that is        *)
(* followed in its group.                                                     *)
LEMMA FreeKeeps ==
  ASSUME Keeps(tracker, boxes, untracked), NEW x \in Pointers,
         NEW R, R = Freed(x)
  PROVE  Keeps(RecordFree(tracker, x), R, untracked)
<1> DEFINE t == RecordFree(tracker, x)
<1>1. x \in Names
  BY DEF Names
<1>2. IsFreed(tracker, x, t)
  BY <1>1, FreeIs DEF Keeps
<1> HIDE DEF t
<1>3. /\ R \subseteq BoxType /\ Partition(R)
      /\ \A c \in R : \E b \in boxes :
            /\ c.names = b.names
            /\ c.freedBy = IF x \in b.names THEN x ELSE b.freedBy
  BY <1>1, FreeingIs DEF Keeps
<1>4. Closed(R, untracked)
  BY <1>3 DEF Keeps, Closed
<1>5. Agree(t, R, untracked)
  <2>1. ASSUME NEW c \in R, NEW y \in c.names, y \notin untracked
        PROVE  Agrees(t, untracked, y, c)
    <3>1. PICK b \in boxes : /\ c.names = b.names
                             /\ c.freedBy = IF x \in b.names THEN x ELSE b.freedBy
      BY <1>3
    <3>2. y \in Names
      BY <1>3 DEF BoxType
    <3>3. Agrees(tracker, untracked, y, b)
      BY <2>1, <3>1 DEF Keeps, Agree
    <3>4. y = x \/ x \in tracker.aliases[y] <=> x \in b.names
      <4>1. CASE x \in untracked
        <5>1. x \notin tracker.aliases[y]
          BY <1>1, <3>3, <4>1, KindsApart DEF Agrees
        <5>2. x \notin b.names
          BY <2>1, <3>1, <4>1 DEF Keeps, Closed
        <5>3. QED
          BY <2>1, <4>1, <5>1, <5>2
      <4>2. CASE x \notin untracked
        BY <1>1, <3>1, <3>3, <4>2 DEF Agrees
      <4>3. QED
        BY <4>1, <4>2
    <3>5. t.freed[y] = c.freedBy
      BY <1>2, <3>1, <3>2, <3>3, <3>4 DEF IsFreed, Agrees
    <3>6. QED
      BY <1>2, <3>1, <3>3, <3>5 DEF IsFreed, Agrees
  <2>2. QED
    BY <2>1 DEF Agree
<1>6. QED
  BY <1>2, <1>3, <1>4, <1>5 DEF Keeps, IsFreed, t

(* Boxes C that came of B unseen by the tracker t of B: it is true to them without   *)
(* the names of those that differ, and without any boxes W left out besides.       *)
LEMMA ChangedKeeps ==
  ASSUME NEW t, NEW B, NEW V, Keeps(t, B, V),
         NEW C, C \subseteq BoxType, Partition(C),
         NEW W, W \subseteq Names, Closed(C, W)
  PROVE  Keeps(t, C, W \cup V \cup Changed(B, C))
<1> DEFINE U == W \cup V \cup Changed(B, C)
<1>1. ASSUME NEW x
      PROVE  x \in Changed(B, C) <=> \E b \in (C \ B) \cup (B \ C) : x \in b.names
  BY DEF Changed
<1>2. U \subseteq Names /\ \A b \in C : b.names \subseteq Names
  BY <1>1 DEF Keeps, BoxType
<1>3. ASSUME NEW b \in C, NEW x \in b.names, x \in Changed(B, C)
      PROVE  b \notin B
  BY <1>1, <1>3 DEF Keeps, Partition
<1>4. ASSUME NEW b \in C, b \notin B
      PROVE  b.names \subseteq Changed(B, C)
  BY <1>1, <1>4
<1>5. Closed(C, U)
  <2>1. ASSUME NEW b \in C, NEW x \in b.names, NEW y \in b.names, x \in U
        PROVE  y \in U
    <3>1. CASE b \notin B
      BY <1>4, <3>1
    <3>2. CASE b \in B
      <4>1. x \in W \/ x \in V
        BY <1>3, <2>1, <3>2
      <4>2. QED
        BY <3>2, <4>1 DEF Keeps, Closed
    <3>3. QED
      BY <3>1, <3>2
  <2>2. QED
    BY <2>1 DEF Closed
<1>6. Agree(t, C, U)
  <2>1. ASSUME NEW b \in C, NEW x \in b.names, x \notin U
        PROVE  Agrees(t, U, x, b)
    <3>1. b \in B /\ x \notin V /\ x \notin W
      BY <1>4, <2>1
    <3>2. Agrees(t, V, x, b)
      BY <3>1 DEF Keeps, Agree
    <3>3. ASSUME NEW y \in U, y \in t.aliases[x]
          PROVE  y \in Aggregates
      <4>1. CASE y \in V
        BY <3>2, <3>3, <4>1 DEF Agrees
      <4>2. CASE y \notin V
        <5>1. y \in b.names
          BY <1>2, <3>2, <3>3, <4>2 DEF Agrees
        <5>2. y \notin Changed(B, C)
          BY <1>3, <3>1, <5>1
        <5>3. y \notin W
          BY <3>1, <5>1 DEF Keeps, Closed
        <5>4. QED
          BY <4>2, <5>2, <5>3
      <4>3. QED
        BY <4>1, <4>2
    <3>4. QED
      BY <3>2, <3>3 DEF Agrees
  <2>2. QED
    BY <2>1 DEF Agree
<1> HIDE DEF U
<1>7. QED
  BY <1>2, <1>5, <1>6 DEF Keeps, U


-----------------------------------------------------------------------------
(* The inductive invariant: the tracker keeps to the boxes, and so does what every *)
(* enclosing block was entered with, which its end puts back.                  *)
BlockType == [kind : Forms, tracker : TrackerType, boxes : SUBSET BoxType,
              untracked : SUBSET Names, written : SUBSET Names]

Blocks ==
    /\ enclosing \in Seq(BlockType) /\ Len(enclosing) <= MaxDepth
    /\ \A i \in 1 .. Len(enclosing) :
          Keeps(enclosing[i].tracker, enclosing[i].boxes, enclosing[i].untracked)

Answers ==
    /\ reported \subseteq ReportType /\ faults \subseteq ReportType
    /\ overlooked \subseteq Names /\ written \subseteq Names
    /\ statements \in 0 .. MaxStatements

Inv == Keeps(tracker, boxes, untracked) /\ Blocks /\ Answers

LEMMA InitKeeps == Init => Inv
<1> SUFFICES ASSUME Init PROVE Inv
  OBVIOUS
<1>1. /\ tracker \in TrackerType
      /\ \A x \in Names : tracker.freed[x] = Live /\ tracker.aliases[x] = {}
  BY DEF Init, TrackerType
<1>2. boxes = {[names |-> {x}, freedBy |-> Live] : x \in Names}
  BY DEF Init
<1>3. \A b \in boxes : b \in BoxType /\ b.freedBy = Live /\ \E x \in Names : b.names = {x}
  BY <1>2 DEF BoxType
<1>4. Partition(boxes)
  <2>1. ASSUME NEW x \in Names
        PROVE  \E b \in boxes : x \in b.names
    <3>1. [names |-> {x}, freedBy |-> Live] \in boxes
      BY <1>2
    <3>2. QED
      BY <3>1
  <2>2. \A b, c \in boxes : \A x \in b.names : x \in c.names => b = c
    BY <1>2
  <2>3. QED
    BY <2>1, <2>2 DEF Partition
<1>5. Agree(tracker, boxes, untracked)
  BY <1>1, <1>3 DEF Agree, Agrees, Init
<1>6. Keeps(tracker, boxes, untracked)
  BY <1>1, <1>3, <1>4, <1>5 DEF Keeps, Matched, Closed, Init
<1>7. QED
  BY <1>6 DEF Inv, Blocks, Answers, Init

LEMMA ReadsIs ==
  ASSUME Keeps(tracker, boxes, untracked), NEW seen \in SUBSET Names, NEW path \in SUBSET Names,
         Reads(seen, path)
  PROVE  /\ reported' \subseteq ReportType /\ faults' \subseteq ReportType
         /\ overlooked' \subseteq Names /\ Truthful
<1>1. \A x \in Names : tracker.freed[x] \in Names \cup {Live}
  BY DEF Keeps, TrackerType
<1>2. \A x \in Names : BoxOf(boxes, x) \in boxes /\ x \in BoxOf(boxes, x).names
  BY BoxIs DEF Keeps
<1>3. \A x \in Names : BoxOf(boxes, x).freedBy \in Names \cup {Live}
  BY <1>2 DEF Keeps, BoxType
<1>4. reported' \subseteq ReportType
  BY <1>1 DEF Reads, Dead, ReportType
<1>5. faults' \subseteq ReportType
  BY <1>3 DEF Reads, DeadBoxes, ReportType
<1>6. \A x \in Names : x \notin untracked => tracker.freed[x] = BoxOf(boxes, x).freedBy
  BY <1>2 DEF Keeps, Agree, Agrees
<1>7. overlooked' = path \ seen
  BY DEF Reads
<1>8. ASSUME NEW r, r.name \notin untracked, r.name \notin overlooked'
      PROVE  r \in reported' <=> r \in faults'
  <2>1. r \in reported' <=> \E x \in seen : /\ tracker.freed[x] # Live
                                            /\ r = [name |-> x, origin |-> tracker.freed[x]]
    BY DEF Reads, Dead
  <2>2. r \in faults' <=> \E x \in seen \cup path :
                             /\ BoxOf(boxes, x).freedBy # Live
                             /\ r = [name |-> x, origin |-> BoxOf(boxes, x).freedBy]
    BY DEF Reads, DeadBoxes
  <2>3. QED
    BY <1>6, <1>7, <1>8, <2>1, <2>2
<1>9. Truthful
  BY <1>8 DEF Truthful, Judged
<1>10. QED
  BY <1>4, <1>5, <1>7, <1>9

LEMMA StatementIs == Answers /\ Statement => statements' \in 0 .. MaxStatements
<1> SUFFICES ASSUME Answers, Statement PROVE statements' \in 0 .. MaxStatements
  OBVIOUS
<1>1. /\ statements \in Nat /\ MaxStatements \in Nat
      /\ statements < MaxStatements /\ statements' = statements + 1
  BY DEF Answers, Statement
<1>2. QED
  BY <1>1

(* A statement outside of the blocks' ends changes none of the enclosing blocks.    *)
LEMMA StatementKeeps ==
  ASSUME Inv, NEW seen \in SUBSET Names, NEW path \in SUBSET Names, Statement, Reads(seen, path),
         written' \subseteq Names, UNCHANGED enclosing, Keeps(tracker', boxes', untracked')
  PROVE  Inv' /\ Truthful
<1>1. /\ reported' \subseteq ReportType /\ faults' \subseteq ReportType
      /\ overlooked' \subseteq Names /\ Truthful
  BY ReadsIs DEF Inv
<1>2. statements' \in 0 .. MaxStatements
  BY StatementIs DEF Inv
<1>3. Blocks'
  BY DEF Blocks, Inv
<1>4. Keeps(tracker, boxes, untracked)'
  BY DEF Keeps, Closed, Partition, Matched, Agree, Agrees
<1>5. QED
  BY <1>1, <1>2, <1>3, <1>4 DEF Inv, Answers

(* A block is entered with what is in force, whatever it does to the boxes.         *)
LEMMA EnterKeeps ==
  ASSUME Inv, NEW kind \in AllForms, Enter(kind), written' \subseteq Names,
         Keeps(tracker, boxes', untracked')
  PROVE  Inv' /\ Truthful
<1> DEFINE e == [kind |-> kind, tracker |-> tracker, boxes |-> boxes,
                 untracked |-> untracked, written |-> written]
<1>1. e \in BlockType
  BY DEF Enter, Inv, Keeps, Answers, BlockType
<1>2. enclosing' = Append(enclosing, e) /\ enclosing \in Seq(BlockType) /\ Len(enclosing) < MaxDepth
  BY DEF Enter, Inv, Blocks
<1>3. /\ enclosing' \in Seq(BlockType) /\ Len(enclosing') = Len(enclosing) + 1
      /\ \A i \in 1 .. Len(enclosing) : enclosing'[i] = enclosing[i]
      /\ enclosing'[Len(enclosing) + 1] = e
  BY <1>1, <1>2, AppendProperties
<1>4. Len(enclosing) \in Nat /\ MaxDepth \in Nat
  BY <1>2, LenProperties
<1>5. Keeps(e.tracker, e.boxes, e.untracked)
  BY DEF Inv
<1> HIDE DEF e
<1>6. ASSUME NEW i \in 1 .. Len(enclosing')
      PROVE  Keeps(enclosing'[i].tracker, enclosing'[i].boxes, enclosing'[i].untracked)
  <2>1. CASE i \in 1 .. Len(enclosing)
    BY <1>3, <2>1 DEF Inv, Blocks
  <2>2. CASE i = Len(enclosing) + 1
    BY <1>3, <1>5, <2>2
  <2>3. QED
    BY <1>3, <1>4, <2>1, <2>2
<1>7. Len(enclosing') <= MaxDepth
  BY <1>2, <1>3, <1>4
<1>8. Blocks'
  BY <1>3, <1>6, <1>7 DEF Blocks, Keeps, Closed, Partition, Matched, Agree, Agrees
<1>9. Keeps(tracker, boxes, untracked)'
  BY DEF Enter, Keeps, Closed, Partition, Matched, Agree, Agrees
<1>10. statements' \in 0 .. MaxStatements
  BY StatementIs DEF Inv, Enter
<1>11. /\ reported' \subseteq ReportType /\ faults' \subseteq ReportType
       /\ overlooked' \subseteq Names /\ Truthful
  BY ReadsIs DEF Inv, Enter, Touches
<1>12. QED
  BY <1>8, <1>9, <1>10, <1>11 DEF Inv, Answers

LEMMA LeaveIs ==
  ASSUME Inv, Leave
  PROVE  /\ Blocks' /\ (written' \subseteq Names => Answers') /\ Truthful
         /\ Keeps(Block.tracker, Block.boxes, Block.untracked) /\ Block.written \subseteq Names
<1>1. /\ enclosing \in Seq(BlockType) /\ enclosing # << >>
      /\ enclosing' = SubSeq(enclosing, 1, Len(enclosing) - 1)
  BY DEF Inv, Blocks, Leave
<1>2. Len(enclosing) \in Nat \ {0}
  BY <1>1, EmptySeq, LenProperties
<1>3. /\ enclosing' \in Seq(BlockType) /\ Len(enclosing') = Len(enclosing) - 1
      /\ \A i \in 1 .. Len(enclosing) - 1 : enclosing'[i] = enclosing[i]
  <2>1. Len(enclosing) - 1 \in Int /\ 1 \in Int
    BY <1>2
  <2>2. \A i \in 1 .. Len(enclosing) - 1 : enclosing[i] \in BlockType
    BY <1>1, <1>2
  <2>3. /\ SubSeq(enclosing, 1, Len(enclosing) - 1) \in Seq(BlockType)
        /\ Len(SubSeq(enclosing, 1, Len(enclosing) - 1)) =
              IF 1 <= Len(enclosing) - 1 THEN (Len(enclosing) - 1) - 1 + 1 ELSE 0
        /\ \A i \in 1 .. (Len(enclosing) - 1) - 1 + 1 :
              SubSeq(enclosing, 1, Len(enclosing) - 1)[i] = enclosing[1 + i - 1]
    BY <2>1, <2>2, SubSeqProperties
  <2>4. /\ (IF 1 <= Len(enclosing) - 1 THEN (Len(enclosing) - 1) - 1 + 1 ELSE 0) = Len(enclosing) - 1
        /\ (Len(enclosing) - 1) - 1 + 1 = Len(enclosing) - 1
        /\ \A i \in 1 .. Len(enclosing) - 1 : 1 + i - 1 = i
    <3>1. PICK n \in Nat : n = Len(enclosing) - 1
      BY <1>2
    <3>2. n - 1 + 1 = n /\ (IF 1 <= n THEN n - 1 + 1 ELSE 0) = n
      OBVIOUS
    <3>3. \A i \in 1 .. n : 1 + i - 1 = i
      OBVIOUS
    <3>4. QED
      BY <3>1, <3>2, <3>3
  <2> HIDE DEF BlockType
  <2>5. Len(enclosing') = Len(enclosing) - 1
    BY <1>1, <2>3, <2>4
  <2>6. \A i \in 1 .. Len(enclosing) - 1 : enclosing'[i] = enclosing[i]
    BY <1>1, <2>3, <2>4
  <2>7. QED
    BY <1>1, <2>3, <2>5, <2>6
<1>4. MaxDepth \in Nat /\ Len(enclosing) <= MaxDepth
  BY DEF Inv, Blocks
<1>5. Blocks'
  <2>1. Len(enclosing') <= MaxDepth
    BY <1>2, <1>3, <1>4
  <2>2. ASSUME NEW i \in 1 .. Len(enclosing')
        PROVE  Keeps(enclosing'[i].tracker, enclosing'[i].boxes, enclosing'[i].untracked)
    <3>1. i \in 1 .. Len(enclosing) /\ enclosing'[i] = enclosing[i]
      BY <1>2, <1>3
    <3>2. QED
      BY <3>1 DEF Inv, Blocks
  <2>3. QED
    BY <1>3, <2>1, <2>2 DEF Blocks, Keeps, Closed, Partition, Matched, Agree, Agrees
<1>6. Keeps(Block.tracker, Block.boxes, Block.untracked) /\ Block.written \subseteq Names
  <2>1. Len(enclosing) \in 1 .. Len(enclosing)
    BY <1>2
  <2>2. Block \in BlockType
    BY <1>1, <2>1 DEF Block
  <2>3. QED
    BY <2>1, <2>2 DEF Inv, Blocks, Block, BlockType
<1>7. /\ reported' \subseteq ReportType /\ faults' \subseteq ReportType
      /\ overlooked' \subseteq Names /\ Truthful
  BY ReadsIs DEF Inv, Leave, Touches
<1>8. statements' \in 0 .. MaxStatements
  BY DEF Leave, Answers, Inv
<1>9. QED
  BY <1>5, <1>6, <1>7, <1>8 DEF Answers

(* The forms the tracker does not follow: what they change is left out.             *)
LEMMA CopyUnseenKeeps ==
  ASSUME Keeps(tracker, boxes, untracked), NEW dest \in Names, NEW source \in Names
  PROVE  Keeps(RecordBinding(tracker, dest, Fresh), Rebound(dest, source),
               (untracked \ {dest}) \cup Changed(Rebound(dest, Fresh), Rebound(dest, source)))
<1> DEFINE t == RecordBinding(tracker, dest, Fresh)
           B == Rebound(dest, Fresh)
           C == Rebound(dest, source)
           V == untracked \ {dest}
<1>1. Keeps(t, B, V)
  BY FreshKeeps
<1>2. C \subseteq BoxType /\ Partition(C)
  BY Rebinding DEF Keeps
<1>3. Closed(C, {})
  BY DEF Closed
<1> HIDE DEF t, B, C, V
<1>4. Keeps(t, C, {} \cup V \cup Changed(B, C))
  BY <1>1, <1>2, <1>3, ChangedKeeps
<1>5. {} \cup V \cup Changed(B, C) = V \cup Changed(B, C)
  OBVIOUS
<1>6. QED
  BY <1>4, <1>5 DEF t, B, C, V

LEMMA UnseenKeeps ==
  ASSUME Keeps(tracker, boxes, untracked), NEW C, C \subseteq BoxType, Partition(C)
  PROVE  Keeps(tracker, C, untracked \cup Changed(boxes, C))
<1>1. Closed(C, {})
  BY DEF Closed
<1>2. Keeps(tracker, C, {} \cup untracked \cup Changed(boxes, C))
  BY <1>1, ChangedKeeps
<1>3. {} \cup untracked \cup Changed(boxes, C) = untracked \cup Changed(boxes, C)
  OBVIOUS
<1>4. QED
  BY <1>2, <1>3

LEMMA RanKeeps ==
  ASSUME Keeps(tracker, boxes, untracked), NEW t, NEW B, NEW V, Keeps(t, B, V),
         written \subseteq Names
  PROVE  Keeps(t, boxes, untracked \cup V \cup Changed(B, boxes) \cup SharingWith(written))
<1> DEFINE S == SharingWith(written)
           W == untracked \cup S
<1>1. \A x \in Names : BoxOf(boxes, x) \in boxes /\ x \in BoxOf(boxes, x).names
  BY BoxIs DEF Keeps
<1>2. \A z \in S : \E x \in written : z \in BoxOf(boxes, x).names
  BY DEF SharingWith
<1>3. \A x \in written : BoxOf(boxes, x).names \subseteq S
  BY DEF SharingWith
<1>4. S \subseteq Names
  BY <1>1, <1>2 DEF Keeps, BoxType
<1> HIDE DEF S
<1>5. ASSUME NEW b \in boxes, NEW x \in b.names, NEW y \in b.names, x \in W
      PROVE  y \in W
  <2>1. CASE x \in untracked
    BY <1>5, <2>1 DEF Keeps, Closed
  <2>2. CASE x \in S
    <3>1. PICK z \in written : x \in BoxOf(boxes, z).names
      BY <1>2, <2>2
    <3>2. b = BoxOf(boxes, z)
      BY <1>1, <3>1 DEF Keeps, Partition
    <3>3. QED
      BY <1>3, <3>2
  <2>3. QED
    BY <1>5, <2>1, <2>2
<1>6. Closed(boxes, W) /\ W \subseteq Names
  BY <1>4, <1>5 DEF Closed, Keeps
<1>7. boxes \subseteq BoxType /\ Partition(boxes)
  BY DEF Keeps
<1>8. W \cup V \cup Changed(B, boxes) = untracked \cup V \cup Changed(B, boxes) \cup S
  OBVIOUS
<1> HIDE DEF W
<1>9. Keeps(t, boxes, W \cup V \cup Changed(B, boxes))
  BY <1>6, <1>7, ChangedKeeps
<1>10. QED
  BY <1>8, <1>9 DEF S

LEMMA WritesIs ==
  ASSUME NEW names, names \subseteq Names, Writes(names)
  PROVE  written' \subseteq Names
BY DEF Writes

LEMMA OneOfIs ==
  ASSUME NEW names \in SUBSET Names, NEW reads \in OneOf(names)
  PROVE  reads \in SUBSET Names
BY DEF OneOf

(* One step per kind of statement.                                            *)
LEMMA BindFreshStep ==
  ASSUME Inv, NEW x \in Names, NEW reads \in SUBSET Names, BindFresh(x, reads)
  PROVE  Inv' /\ Truthful
<1>1. Statement /\ Reads(reads, {}) /\ UNCHANGED enclosing
  BY DEF BindFresh, Bind, Touches
<1>2. Fresh \notin untracked
  BY DEF Inv, Keeps
<1>3. /\ tracker' = RecordBinding(tracker, x, Fresh) /\ boxes' = Rebound(x, Fresh)
      /\ untracked' = untracked \ {x}
  BY <1>2 DEF BindFresh, Bind
<1>4. Keeps(tracker', boxes', untracked')
  BY <1>3, FreshKeeps DEF Inv
<1>5. written' \subseteq Names
  BY WritesIs DEF BindFresh, Bind, Inv, Answers
<1>6. QED
  BY <1>1, <1>4, <1>5, StatementKeeps

LEMMA CopyStep ==
  ASSUME Inv, NEW x \in Names, NEW y \in Names, Copy(x, y)
  PROVE  Inv' /\ Truthful
<1>1. Statement /\ Reads({y}, {}) /\ UNCHANGED enclosing /\ y # x /\ SameKind(x, y)
  BY DEF Copy, Bind, Touches
<1>2. /\ tracker' = RecordBinding(tracker, x, y) /\ boxes' = Rebound(x, y)
      /\ untracked' = IF y \in untracked THEN untracked \cup {x} ELSE untracked \ {x}
  BY DEF Copy, Bind
<1>3. Keeps(RecordBinding(tracker, x, y), Rebound(x, y), untracked')
  BY <1>1, <1>2, CopyKeeps DEF Inv
<1>4. Keeps(tracker', boxes', untracked')
  BY <1>2, <1>3
<1>5. written' \subseteq Names
  BY WritesIs DEF Copy, Bind, Inv, Answers
<1>6. QED
  BY <1>1, <1>4, <1>5, StatementKeeps

LEMMA CopyUnseenStep ==
  ASSUME Inv, NEW x \in Names, NEW y \in Names, NEW reads \in SUBSET Names, CopyUnseen(x, y, reads)
  PROVE  Inv' /\ Truthful
<1>1. Statement /\ Reads(reads, {}) /\ UNCHANGED enclosing
  BY DEF CopyUnseen, Touches
<1>2. /\ tracker' = RecordBinding(tracker, x, Fresh) /\ boxes' = Rebound(x, y)
      /\ untracked' = (untracked \ {x}) \cup Changed(Rebound(x, Fresh), Rebound(x, y))
  BY DEF CopyUnseen
<1>3. Keeps(tracker', boxes', untracked')
  BY <1>2, CopyUnseenKeeps DEF Inv
<1>4. written' \subseteq Names
  BY WritesIs DEF CopyUnseen, Inv, Answers
<1>5. QED
  BY <1>1, <1>3, <1>4, StatementKeeps

LEMMA SelfCopyStep ==
  ASSUME Inv, NEW x \in Names, SelfCopy(x)
  PROVE  Inv' /\ Truthful
<1>1. Statement /\ Reads({x}, {}) /\ UNCHANGED <<enclosing, written>>
  BY DEF SelfCopy, Touches
<1>2. /\ tracker' = RecordBinding(tracker, x, x) /\ boxes' = boxes
      /\ untracked' = untracked \cup BoxOf(boxes, x).names
  BY DEF SelfCopy
<1>3. Keeps(tracker', boxes', untracked')
  BY <1>2, SelfCopyKeeps DEF Inv
<1>4. written' \subseteq Names
  BY <1>1 DEF Inv, Answers
<1>5. QED
  BY <1>1, <1>3, <1>4, StatementKeeps

LEMMA StorePartStep ==
  ASSUME Inv, NEW s \in Aggregates, NEW value \in (Names \ {s}) \cup {Fresh},
         NEW reads \in SUBSET Names, NEW path \in SUBSET Names, StorePart(s, value, reads, path)
  PROVE  Inv' /\ Truthful
<1>1. Statement /\ Reads(reads, path) /\ UNCHANGED <<enclosing, written>>
  BY DEF StorePart
<1>2. /\ tracker' = RecordBinding(tracker, s, value) /\ boxes' = boxes
      /\ untracked' = untracked \cup BoxOf(boxes, s).names
  BY DEF StorePart
<1>3. Keeps(tracker', boxes', untracked')
  <2>1. CASE value = Fresh
    <3>1. s \in Names /\ Fresh # s
      BY DEF Names
    <3>2. RecordBinding(tracker, s, Fresh) = RecordBinding(tracker, s, s)
      BY DEF RecordBinding
    <3>3. QED
      BY <1>2, <2>1, <3>1, <3>2, SelfCopyKeeps DEF Inv
  <2>2. CASE value # Fresh
    BY <1>2, <2>2, StorePartKeeps DEF Inv
  <2>3. QED
    BY <2>1, <2>2
<1>4. written' \subseteq Names
  BY <1>1 DEF Inv, Answers
<1>5. QED
  BY <1>1, <1>3, <1>4, StatementKeeps

LEMMA FreeStep ==
  ASSUME Inv, NEW x \in Pointers, Free(x)
  PROVE  Inv' /\ Truthful
<1>1. Statement /\ Reads({x}, {}) /\ UNCHANGED <<enclosing, written>> /\ x \in Names
  BY DEF Free, Touches, Names
<1>2. tracker' = RecordFree(tracker, x) /\ untracked' = untracked /\ boxes' = Freed(x)
  BY DEF Free
<1>3. Keeps(RecordFree(tracker, x), Freed(x), untracked)
  BY FreeKeeps DEF Inv
<1>4. Keeps(tracker', boxes', untracked')
  BY <1>2, <1>3
<1>5. written' \subseteq Names
  BY <1>1 DEF Inv, Answers
<1>6. QED
  BY <1>1, <1>4, <1>5, StatementKeeps

LEMMA FreeUnseenStep ==
  ASSUME Inv, NEW x \in Pointers, NEW reads \in SUBSET Names, FreeUnseen(x, reads)
  PROVE  Inv' /\ Truthful
<1>1. Statement /\ Reads(reads, {}) /\ UNCHANGED <<enclosing, written>> /\ x \in Names
  BY DEF FreeUnseen, Touches, Names
<1>2. tracker' = tracker /\ boxes' = Freed(x) /\ untracked' = untracked \cup Changed(boxes, Freed(x))
  BY DEF FreeUnseen
<1>3. Freed(x) \subseteq BoxType /\ Partition(Freed(x))
  BY <1>1, FreeingIs DEF Inv, Keeps
<1>4. Keeps(tracker, Freed(x), untracked \cup Changed(boxes, Freed(x)))
  BY <1>3, UnseenKeeps DEF Inv
<1>5. Keeps(tracker', boxes', untracked')
  BY <1>2, <1>4
<1>6. written' \subseteq Names
  BY <1>1 DEF Inv, Answers
<1>7. QED
  BY <1>1, <1>5, <1>6, StatementKeeps

LEMMA UseStep ==
  ASSUME Inv, NEW reads \in SUBSET Names, NEW captured \in SUBSET Names, Use(reads, captured)
  PROVE  Inv' /\ Truthful
<1>1. Statement /\ Reads(reads, captured) /\ UNCHANGED <<tracker, enclosing, boxes, untracked, written>>
  BY DEF Use
<1>2. Keeps(tracker', boxes', untracked') /\ written' \subseteq Names
  BY <1>1 DEF Inv, Answers
<1>3. QED
  BY <1>1, <1>2, StatementKeeps

LEMMA OpenStep ==
  ASSUME Inv, NEW kind \in AllForms, Open(kind)
  PROVE  Inv' /\ Truthful
<1>1. Enter(kind) /\ written' = {} /\ UNCHANGED <<boxes, untracked>>
  BY DEF Open
<1>2. Keeps(tracker, boxes', untracked')
  BY <1>1 DEF Inv
<1>3. QED
  BY <1>1, <1>2, EnterKeeps

LEMMA OpenBinderStep ==
  ASSUME Inv, NEW x \in Names, NEW value \in Names \cup {Fresh}, OpenBinder(x, value)
  PROVE  Inv' /\ Truthful
<1>1. /\ Enter("binder") /\ written' = {x} /\ boxes' = Rebound(x, value)
      /\ untracked' = untracked \cup Changed(boxes, Rebound(x, value))
  BY DEF OpenBinder
<1>2. Rebound(x, value) \subseteq BoxType /\ Partition(Rebound(x, value))
  BY Rebinding DEF Inv, Keeps
<1>3. Keeps(tracker, boxes', untracked')
  BY <1>1, <1>2, UnseenKeeps DEF Inv
<1>4. "binder" \in AllForms
  BY DEF AllForms
<1>5. QED
  BY <1>1, <1>3, <1>4, EnterKeeps

LEMMA LeaveStep ==
  ASSUME Inv, LeaveSkipped \/ LeaveRan
  PROVE  Inv' /\ Truthful
<1>1. Leave /\ tracker' = Block.tracker
  BY DEF LeaveSkipped, LeaveRan, Leave, TrackerAfter
<1>2. /\ Blocks' /\ (written' \subseteq Names => Answers') /\ Truthful
      /\ Keeps(Block.tracker, Block.boxes, Block.untracked) /\ Block.written \subseteq Names
  BY <1>1, LeaveIs
<1>3. Keeps(tracker', boxes', untracked') /\ written' \subseteq Names
  <2>1. CASE LeaveSkipped
    BY <1>1, <1>2, <2>1 DEF LeaveSkipped
  <2>2. CASE LeaveRan
    <3>1. /\ boxes' = boxes /\ Writes(written \cup Block.written)
          /\ untracked' = untracked \cup Block.untracked \cup Changed(Block.boxes, boxes)
                          \cup SharingWith(written)
      BY <2>2 DEF LeaveRan
    <3>2. written \subseteq Names
      BY DEF Inv, Answers
    <3>3. Keeps(tracker', boxes', untracked')
      BY <1>1, <1>2, <3>1, <3>2, RanKeeps DEF Inv
    <3>4. QED
      BY <1>2, <3>1, <3>2, <3>3, WritesIs
  <2>3. QED
    BY <2>1, <2>2
<1>4. Keeps(tracker, boxes, untracked)'
  BY <1>3 DEF Keeps, Closed, Partition, Matched, Agree, Agrees
<1>5. QED
  BY <1>2, <1>3, <1>4 DEF Inv

LEMMA NextKeeps ==
  ASSUME Inv, Next
  PROVE  Inv' /\ Truthful
<1>1. \A x \in Names : {x} \in SUBSET Names
  OBVIOUS
<1>2. CASE \E x \in Names : \E reads \in OneOf({x}) : BindFresh(x, reads)
  BY <1>1, <1>2, OneOfIs, BindFreshStep
<1>3. CASE \E x, y \in Names : Copy(x, y)
  BY <1>3, CopyStep
<1>4. CASE \E x, y \in Names : \E reads \in OneOf({y}) : CopyUnseen(x, y, reads)
  BY <1>1, <1>4, OneOfIs, CopyUnseenStep
<1>5. CASE \E x \in Names : SelfCopy(x)
  BY <1>5, SelfCopyStep
<1>6. CASE \E s \in Aggregates, path \in OneOf(Pointers) :
              \/ \E x \in Names \ {s} : StorePart(s, x, {x}, path)
              \/ StorePart(s, Fresh, {}, path)
  <2>1. PICK s \in Aggregates, path \in OneOf(Pointers) :
              \/ \E x \in Names \ {s} : StorePart(s, x, {x}, path)
              \/ StorePart(s, Fresh, {}, path)
    BY <1>6
  <2>2. path \in SUBSET Names
    BY OneOfIs DEF Names
  <2>3. CASE \E x \in Names \ {s} : StorePart(s, x, {x}, path)
    BY <1>1, <2>2, <2>3, StorePartStep
  <2>4. CASE StorePart(s, Fresh, {}, path)
    <3>1. {} \in SUBSET Names
      OBVIOUS
    <3>2. QED
      BY <2>2, <2>4, <3>1, StorePartStep
  <2>5. QED
    BY <2>1, <2>3, <2>4
<1>7. CASE \E x \in Pointers : Free(x)
  BY <1>7, FreeStep
<1>8. CASE \E x \in Pointers : \E reads \in OneOf({x}) : FreeUnseen(x, reads)
  <2>1. PICK x \in Pointers : \E reads \in OneOf({x}) : FreeUnseen(x, reads)
    BY <1>8
  <2>2. \A reads \in OneOf({x}) : reads \in SUBSET Names
    BY <1>1, OneOfIs DEF Names
  <2>3. QED
    BY <2>1, <2>2, FreeUnseenStep
<1>9. CASE \/ \E reads \in OneOf(Names) : Use(reads, {})
         \/ \E captured \in OneOf(Pointers) : Use({}, captured)
  <2>1. /\ {} \in SUBSET Names
        /\ \A reads \in OneOf(Names) : reads \in SUBSET Names
        /\ \A captured \in OneOf(Pointers) : captured \in SUBSET Names
    BY OneOfIs DEF Names
  <2>2. QED
    BY <1>9, <2>1, UseStep
<1>10. CASE Open("conditional") \/ Open("always")
  <2>1. "conditional" \in AllForms /\ "always" \in AllForms
    BY DEF AllForms
  <2>2. QED
    BY <1>10, <2>1, OpenStep
<1>11. CASE \E x \in Names : OpenBinder(x, Fresh)
  BY <1>11, OpenBinderStep
<1>12. CASE \E x, y \in Names : SameKind(x, y) /\ OpenBinder(x, y)
  BY <1>12, OpenBinderStep
<1>13. CASE LeaveSkipped \/ LeaveRan
  BY <1>13, LeaveStep
<1>14. QED
  BY <1>2, <1>3, <1>4, <1>5, <1>6, <1>7, <1>8, <1>9, <1>10, <1>11, <1>12, <1>13 DEF Next

-----------------------------------------------------------------------------
(* However many names, blocks and statements a body has, and whichever of AllForms   *)
(* it uses, the tracker is true to the boxes of the names outside untracked           *)
(* (walk_lifetimes over FreedTracker).                                         *)
LEMMA InvCorrect == Spec => []Inv
<1>1. Inv /\ UNCHANGED vars => Inv'
  BY DEF Inv, Blocks, Answers, Keeps, Closed, Partition, Matched, Agree, Agrees, vars
<1>2. Inv /\ [Next]_vars => Inv'
  BY <1>1, NextKeeps
<1>3. QED
  BY InitKeeps, <1>2, PTL DEF Spec

(* The types of the variables, and that every name holds one box.                *)
THEOREM TypeCorrect == Spec => []TypeOK
<1>1. Inv => TypeOK
  <2>1. ASSUME Inv, NEW x \in Names
        PROVE  \E b \in boxes : \A c \in boxes : x \in c.names <=> c = b
    BY <2>1 DEF Inv, Keeps, Partition
  <2>2. QED
    BY <2>1 DEF Inv, TypeOK, Keeps, Blocks, Answers, BlockType
<1>2. QED
  BY <1>1, InvCorrect, PTL

(* Among the names outside untracked, the groups of the tracker are the names of one *)
(* box, and a name counts as freed exactly when its box is, by the free that is      *)
(* blamed (record_binding, record_free, detach).                               *)
THEOREM GroupsCorrect == Spec => []GroupsAreBoxes
<1>1. Inv => GroupsAreBoxes
  <2>1. ASSUME Inv, NEW x \in Names \ untracked
        PROVE  /\ tracker.aliases[x] \ untracked = BoxOf(boxes, x).names \ ({x} \cup untracked)
               /\ tracker.freed[x] = BoxOf(boxes, x).freedBy
    <3>1. BoxOf(boxes, x) \in boxes /\ x \in BoxOf(boxes, x).names
      BY <2>1, BoxIs DEF Inv, Keeps
    <3>2. Agrees(tracker, untracked, x, BoxOf(boxes, x))
      BY <2>1, <3>1 DEF Inv, Keeps, Agree
    <3>3. tracker.aliases[x] \subseteq Names /\ BoxOf(boxes, x).names \subseteq Names
      BY <2>1, <3>1 DEF Inv, Keeps, TrackerType, BoxType
    <3>4. QED
      BY <3>2, <3>3 DEF Agrees
  <2>2. QED
    BY <2>1 DEF GroupsAreBoxes
<1>2. QED
  BY <1>1, InvCorrect, PTL

(* Of the names outside untracked, read where the walk looks, a statement is         *)
(* reported for exactly those whose box is dead, each with the name whose free       *)
(* killed it, whichever blocks the execution skips (check_freed_uses, record_free).   *)
THEOREM ReportsCorrect == Spec => ReportsAreTheFaults
<1>1. Inv /\ [Next]_vars => [Truthful]_vars
  BY NextKeeps
<1>2. QED
  BY <1>1, InvCorrect, PTL DEF Spec, ReportsAreTheFaults

=============================================================================
