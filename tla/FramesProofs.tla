---------------------------- MODULE FramesProofs -----------------------------
(* Proofs about environments, frames and raw pointers: types, the pairing of *)
(* shelf and stack, that an address never reaches another cell than its own,  *)
(* that placeholders are owed a value, and that addresses work as long as     *)
(* their variables live.                                                   *)
EXTENDS FramesProperties, TLAPS, FiniteSetTheorems, SequenceTheorems, WellFoundedInduction

USE FramesAssumption

-----------------------------------------------------------------------------
(* Bounded sets have a largest element: among the sets {j \in T : j > x} one  *)
(* is smallest, and it is empty.                                            *)
LEMMA Largest ==
  ASSUME NEW n \in Nat, NEW T \in SUBSET (1..n), T # {}
  PROVE  \E x \in T : \A y \in T : y <= x
<1> DEFINE Above(x) == {j \in T : j > x}
           F == {Above(x) : x \in T}
<1>1. IsFiniteSet(T)
  <2>1. IsFiniteSet(1..n)
    BY FS_Interval
  <2>2. QED
    BY <2>1, FS_Subset
<1>2. \A x \in T : Above(x) \in SUBSET T /\ IsFiniteSet(Above(x))
  BY <1>1, FS_Subset
<1>3. F \subseteq FiniteSubsetsOf(T) /\ F # {}
  <2>1. \A x \in T : Above(x) \in FiniteSubsetsOf(T)
    BY <1>2 DEF FiniteSubsetsOf
  <2>2. PICK x \in T : TRUE
    OBVIOUS
  <2> HIDE DEF Above
  <2>3. Above(x) \in F
    OBVIOUS
  <2>4. QED
    BY <2>1, <2>3
<1>4. PICK u \in F : \A v \in F : <<v, u>> \notin StrictSubsetOrdering(T)
  <2>1. IsWellFoundedOn(StrictSubsetOrdering(T), FiniteSubsetsOf(T))
    BY FS_StrictSubsetOrderingWellFounded
  <2> HIDE DEF F
  <2>2. QED
    BY <1>3, <2>1, WFMin
<1>5. PICK x \in T : u = Above(x)
  OBVIOUS
<1>6. ASSUME NEW y \in T, y > x
      PROVE  FALSE
  <2>1. /\ \A j \in T : j > y => j > x
        /\ ~ (y > y)
    BY <1>6
  <2>2. Above(y) \subseteq Above(x) /\ y \in Above(x) /\ y \notin Above(y)
    BY <1>6, <2>1
  <2>3. <<Above(y), Above(x)>> \in StrictSubsetOrdering(T)
    BY <1>2, <2>2 DEF StrictSubsetOrdering
  <2>4. QED
    BY <1>4, <1>5, <2>3
<1>7. QED
  BY <1>6

-----------------------------------------------------------------------------
(* Environments: the scopes of one have different ids, below the next one, so *)
(* that a slot is of one place at most.                                     *)
ArenaNamed(b) == b.arena.buffer.env # 0 => b.arena.name \in Var

EnvOK(e) ==
    /\ e \in EnvType /\ e.id > 0 /\ Len(e.scopes) > 0
    /\ \A i \in DOMAIN e.scopes : e.scopes[i].id < e.next_scope_id
    /\ \A i, j \in DOMAIN e.scopes : e.scopes[i].id = e.scopes[j].id => i = j
    /\ \A p \in Positions(e) : ArenaNamed(EntryAt(e, p))

LEMMA PositionsAre ==
  ASSUME NEW e \in EnvType
  PROVE  /\ DOMAIN e.scopes = 1..Len(e.scopes) /\ Len(e.scopes) \in Nat
         /\ \A i \in DOMAIN e.scopes :
               /\ e.scopes[i] \in ScopeType
               /\ DOMAIN e.scopes[i].entries = 1..Len(e.scopes[i].entries)
               /\ Len(e.scopes[i].entries) \in Nat
         /\ \A p \in Positions(e) :
               /\ p = <<p[1], p[2]>> /\ p[1] \in DOMAIN e.scopes
               /\ p[2] \in DOMAIN e.scopes[p[1]].entries
               /\ EntryAt(e, p) \in EntryType
         /\ \A i \in DOMAIN e.scopes : \A j \in DOMAIN e.scopes[i].entries :
               /\ <<i, j>> \in Positions(e)
               /\ EntryAt(e, <<i, j>>) = e.scopes[i].entries[j]
<1>1. /\ DOMAIN e.scopes = 1..Len(e.scopes) /\ Len(e.scopes) \in Nat
      /\ \A i \in DOMAIN e.scopes : e.scopes[i] \in ScopeType
  BY DEF EnvType
<1>2. \A i \in DOMAIN e.scopes :
         /\ DOMAIN e.scopes[i].entries = 1..Len(e.scopes[i].entries)
         /\ Len(e.scopes[i].entries) \in Nat
         /\ \A j \in DOMAIN e.scopes[i].entries : e.scopes[i].entries[j] \in EntryType
  BY <1>1 DEF ScopeType
<1>3. ASSUME NEW p \in Positions(e)
      PROVE  /\ p = <<p[1], p[2]>> /\ p[1] \in DOMAIN e.scopes
             /\ p[2] \in DOMAIN e.scopes[p[1]].entries
  BY <1>3 DEF Positions
<1>4. \A i \in DOMAIN e.scopes : \A j \in DOMAIN e.scopes[i].entries : <<i, j>> \in Positions(e)
  BY DEF Positions
<1>5. QED
  BY <1>1, <1>2, <1>3, <1>4 DEF EntryAt

LEMMA NearestIsBound ==
  ASSUME NEW e \in EnvType, NEW x, Bound(e, x)
  PROVE  /\ Nearest(e, x) \in Positions(e) /\ EntryAt(e, Nearest(e, x)).name = x
         /\ \A q \in BoundAt(e, x) : q[1] <= Nearest(e, x)[1]
<1> DEFINE T == {q[1] : q \in BoundAt(e, x)}
<1>1. T \subseteq 1..Len(e.scopes) /\ T # {} /\ Len(e.scopes) \in Nat
  BY PositionsAre DEF BoundAt, Bound
<1>2. PICK i \in T : \A j \in T : j <= i
  BY <1>1, Largest
<1>3. PICK p \in BoundAt(e, x) : p[1] = i
  OBVIOUS
<1>4. \A q \in BoundAt(e, x) : q[1] <= p[1]
  BY <1>2, <1>3
<1>5. Nearest(e, x) \in BoundAt(e, x) /\ \A q \in BoundAt(e, x) : q[1] <= Nearest(e, x)[1]
  BY <1>4 DEF Nearest
<1>6. QED
  BY <1>5 DEF BoundAt

LEMMA EntryReplaced ==
  ASSUME NEW S, NEW s \in Seq(S), NEW i \in DOMAIN s, NEW b \in S
  PROVE  /\ [s EXCEPT ![i] = b] \in Seq(S)
         /\ DOMAIN [s EXCEPT ![i] = b] = DOMAIN s
OBVIOUS

(* Replacing an entry replaces that entry.                                  *)
LEMMA WithIs ==
  ASSUME NEW e \in EnvType, NEW p \in Positions(e), NEW b \in EntryType
  PROVE  /\ With(e, p, b) \in EnvType
         /\ With(e, p, b).id = e.id /\ With(e, p, b).next_scope_id = e.next_scope_id
         /\ DOMAIN With(e, p, b).scopes = DOMAIN e.scopes
         /\ Len(With(e, p, b).scopes) = Len(e.scopes)
         /\ \A i \in DOMAIN e.scopes :
               /\ With(e, p, b).scopes[i].id = e.scopes[i].id
               /\ DOMAIN With(e, p, b).scopes[i].entries = DOMAIN e.scopes[i].entries
         /\ Positions(With(e, p, b)) = Positions(e)
         /\ \A q \in Positions(e) :
               EntryAt(With(e, p, b), q) = IF q = p THEN b ELSE EntryAt(e, q)
<1> DEFINE f == With(e, p, b)
           S == e.scopes[p[1]]
           T == [S EXCEPT !.entries = [S.entries EXCEPT ![p[2]] = b]]
<1>1. /\ p = <<p[1], p[2]>> /\ p[1] \in DOMAIN e.scopes /\ p[2] \in DOMAIN S.entries
      /\ S \in ScopeType /\ e.scopes \in Seq(ScopeType)
  BY PositionsAre DEF EnvType
<1>2. f = [e EXCEPT !.scopes = [e.scopes EXCEPT ![p[1]] = T]]
  BY DEF With
<1>3. /\ [S.entries EXCEPT ![p[2]] = b] \in Seq(EntryType)
      /\ DOMAIN [S.entries EXCEPT ![p[2]] = b] = DOMAIN S.entries
  <2>1. S.entries \in Seq(EntryType) /\ p[2] \in DOMAIN S.entries
    BY <1>1 DEF ScopeType
  <2> HIDE DEF S
  <2>2. QED
    BY <2>1, EntryReplaced
<1>4. T \in ScopeType /\ T.id = S.id /\ T.entries = [S.entries EXCEPT ![p[2]] = b]
  BY <1>1, <1>3 DEF ScopeType
<1> HIDE DEF T
<1>5. /\ [e.scopes EXCEPT ![p[1]] = T] \in Seq(ScopeType)
      /\ Len([e.scopes EXCEPT ![p[1]] = T]) = Len(e.scopes)
      /\ DOMAIN [e.scopes EXCEPT ![p[1]] = T] = DOMAIN e.scopes
  BY <1>1, <1>4
<1>6. /\ f \in EnvType /\ f.id = e.id /\ f.next_scope_id = e.next_scope_id
      /\ f.scopes = [e.scopes EXCEPT ![p[1]] = T]
  BY <1>2, <1>5 DEF EnvType
<1> HIDE DEF f
<1>7. \A i \in DOMAIN e.scopes :
         /\ f.scopes[i].id = e.scopes[i].id
         /\ DOMAIN f.scopes[i].entries = DOMAIN e.scopes[i].entries
  BY <1>1, <1>3, <1>4, <1>6
<1>8. Positions(f) = Positions(e)
  BY <1>5, <1>6, <1>7 DEF Positions
<1>9. ASSUME NEW q \in Positions(e)
      PROVE  EntryAt(f, q) = IF q = p THEN b ELSE EntryAt(e, q)
  <2>1. q = <<q[1], q[2]>> /\ q[1] \in DOMAIN e.scopes /\ q[2] \in DOMAIN e.scopes[q[1]].entries
    BY PositionsAre
  <2>2. CASE q[1] # p[1]
    BY <1>6, <2>1, <2>2 DEF EntryAt
  <2>3. CASE q[1] = p[1]
    <3>1. f.scopes[q[1]].entries = [S.entries EXCEPT ![p[2]] = b]
      BY <1>1, <1>4, <1>6, <2>3
    <3>2. CASE q[2] = p[2]
      BY <1>1, <2>1, <2>3, <3>1, <3>2 DEF EntryAt
    <3>3. CASE q[2] # p[2]
      BY <1>1, <2>1, <2>3, <3>1, <3>3 DEF EntryAt
    <3>4. QED
      BY <3>2, <3>3
  <2>4. QED
    BY <2>2, <2>3
<1>10. QED
  BY <1>5, <1>6, <1>7, <1>8, <1>9 DEF f

(***************************************************************************)
(* f is what e may become: a slot e has handed out, or has room for below its *)
(* next scope, names in f the binding it named in e, or nothing.             *)
(***************************************************************************)
Grows(e, f) ==
    /\ f.id = e.id /\ f.next_scope_id >= e.next_scope_id
    /\ \A i \in DOMAIN f.scopes :
          \/ f.scopes[i].id >= e.next_scope_id
          \/ \E j \in DOMAIN e.scopes :
                /\ e.scopes[j].id = f.scopes[i].id
                /\ \A k \in DOMAIN e.scopes[j].entries :
                      /\ k \in DOMAIN f.scopes[i].entries
                      /\ f.scopes[i].entries[k].born = e.scopes[j].entries[k].born

(* What the arenas declared in e say of their buffers.                      *)
Claim(b)  == <<b.arena.buffer, b.arena.born>>
Claims(e) == {Claim(EntryAt(e, p)) : p \in Positions(e)}
NoClaim   == <<NoSlot, 0>>

Becomes(e, f, new) == EnvOK(f) /\ Grows(e, f) /\ Claims(f) \subseteq Claims(e) \cup {NoClaim} \cup new

(***************************************************************************)
(* The bindings of f are e's, in their places, and those of `new`; no value    *)
(* has been moved out of one of them.                                       *)
(***************************************************************************)
PlacesOf(e) == {<<Slot(e, p), BornAt(e, p)>> : p \in Positions(e)}
Gaps(e)     == {BornAt(e, p) : p \in {q \in Positions(e) : EntryAt(e, q).hole}}

Inherits(e, f, new) == PlacesOf(f) \subseteq PlacesOf(e) \cup new /\ Gaps(f) \subseteq Gaps(e)
Stays(e, f)         == Becomes(e, f, {}) /\ Inherits(e, f, {})

(* The one binding that a step can make.                                    *)
Fresh(new) == new = {} \/ (births' = births + 1 /\ \E slot : new = {<<slot, births + 1>>})

LEMMA BecomesTrans ==
  ASSUME NEW e, NEW f, NEW g, NEW a, NEW b,
         EnvOK(e), Becomes(e, f, a), Becomes(f, g, b)
  PROVE  Becomes(e, g, a \cup b)
<1>1. e \in EnvType /\ f \in EnvType /\ g \in EnvType
  BY DEF EnvOK, Becomes
<1>2. g.id = e.id /\ g.next_scope_id >= e.next_scope_id
  BY <1>1 DEF Becomes, Grows, EnvType
<1>3. ASSUME NEW i \in DOMAIN g.scopes, ~ (g.scopes[i].id >= e.next_scope_id)
      PROVE  \E j \in DOMAIN e.scopes :
                /\ e.scopes[j].id = g.scopes[i].id
                /\ \A k \in DOMAIN e.scopes[j].entries :
                      /\ k \in DOMAIN g.scopes[i].entries
                      /\ g.scopes[i].entries[k].born = e.scopes[j].entries[k].born
  <2>1. g.scopes[i].id \in Nat
    BY <1>1, PositionsAre DEF ScopeType
  <2>2. PICK j \in DOMAIN f.scopes :
                /\ f.scopes[j].id = g.scopes[i].id
                /\ \A k \in DOMAIN f.scopes[j].entries :
                      /\ k \in DOMAIN g.scopes[i].entries
                      /\ g.scopes[i].entries[k].born = f.scopes[j].entries[k].born
    <3>1. ~ (g.scopes[i].id >= f.next_scope_id)
      BY <1>1, <1>3, <2>1 DEF Becomes, Grows, EnvType
    <3>2. QED
      BY <3>1 DEF Becomes, Grows
  <2>3. PICK l \in DOMAIN e.scopes :
                /\ e.scopes[l].id = f.scopes[j].id
                /\ \A k \in DOMAIN e.scopes[l].entries :
                      /\ k \in DOMAIN f.scopes[j].entries
                      /\ f.scopes[j].entries[k].born = e.scopes[l].entries[k].born
    BY <1>3, <2>2 DEF Becomes, Grows
  <2>4. QED
    BY <2>2, <2>3
<1>4. Grows(e, g)
  BY <1>2, <1>3 DEF Grows
<1>5. QED
  BY <1>4 DEF Becomes

LEMMA BecomesItself ==
  ASSUME NEW e, EnvOK(e)
  PROVE  Becomes(e, e, {})
<1>1. e.next_scope_id \in Nat
  BY DEF EnvOK, EnvType
<1>2. QED
  BY <1>1 DEF Becomes, Grows

LEMMA WithBecomes ==
  ASSUME NEW e, EnvOK(e), NEW p \in Positions(e), NEW b \in EntryType,
         b.born = BornAt(e, p), ArenaNamed(b)
  PROVE  Becomes(e, With(e, p, b), {Claim(b)})
<1> DEFINE f == With(e, p, b)
<1>1. e \in EnvType
  BY DEF EnvOK
<1>2. /\ f \in EnvType /\ f.id = e.id /\ f.next_scope_id = e.next_scope_id
      /\ DOMAIN f.scopes = DOMAIN e.scopes /\ Len(f.scopes) = Len(e.scopes)
      /\ \A i \in DOMAIN e.scopes :
            /\ f.scopes[i].id = e.scopes[i].id
            /\ DOMAIN f.scopes[i].entries = DOMAIN e.scopes[i].entries
      /\ Positions(f) = Positions(e)
      /\ \A q \in Positions(e) : EntryAt(f, q) = IF q = p THEN b ELSE EntryAt(e, q)
  BY <1>1, WithIs
<1> HIDE DEF f
<1>3. EnvOK(f)
  BY <1>2 DEF EnvOK
<1>4. ASSUME NEW i \in DOMAIN e.scopes, NEW k \in DOMAIN e.scopes[i].entries
      PROVE  f.scopes[i].entries[k].born = e.scopes[i].entries[k].born
  <2>1. /\ <<i, k>> \in Positions(e) /\ EntryAt(e, <<i, k>>) = e.scopes[i].entries[k]
        /\ EntryAt(f, <<i, k>>) = f.scopes[i].entries[k]
    <3>1. <<i, k>> \in Positions(e) /\ EntryAt(e, <<i, k>>) = e.scopes[i].entries[k]
      BY <1>1, <1>4, PositionsAre
    <3>2. i \in DOMAIN f.scopes /\ k \in DOMAIN f.scopes[i].entries /\ f \in EnvType
      BY <1>2, <1>4
    <3>3. EntryAt(f, <<i, k>>) = f.scopes[i].entries[k]
      BY <3>2, PositionsAre
    <3>4. QED
      BY <3>1, <3>3
  <2>2. QED
    BY <1>2, <2>1 DEF BornAt
<1>5. Grows(e, f)
  <2>1. e.next_scope_id \in Nat
    BY <1>1 DEF EnvType
  <2>2. QED
    BY <1>2, <1>4, <2>1 DEF Grows
<1>6. Claims(f) \subseteq Claims(e) \cup {Claim(b)}
  BY <1>2 DEF Claims
<1>7. QED
  BY <1>3, <1>5, <1>6 DEF Becomes, f

LEMMA AppendIs ==
  ASSUME NEW S, NEW s \in Seq(S), NEW b \in S
  PROVE  /\ Append(s, b) \in Seq(S) /\ Len(Append(s, b)) = Len(s) + 1
         /\ Len(s) \in Nat /\ DOMAIN s = 1..Len(s)
         /\ DOMAIN Append(s, b) = 1..(Len(s) + 1)
         /\ \A k \in DOMAIN s : k \in DOMAIN Append(s, b) /\ Append(s, b)[k] = s[k]
         /\ \A k \in DOMAIN Append(s, b) : k \notin DOMAIN s => k = Len(s) + 1
         /\ Append(s, b)[Len(s) + 1] = b
OBVIOUS

(* A new entry at the end of the innermost scope.                            *)
AddEntry(e, b) == [e EXCEPT !.scopes[Len(e.scopes)].entries = Append(@, b)]

LEMMA AddBecomes ==
  ASSUME NEW e, EnvOK(e), NEW b \in EntryType, ArenaNamed(b)
  PROVE  /\ Becomes(e, AddEntry(e, b), {Claim(b)})
         /\ \A x : Bound(e, x) => Bound(AddEntry(e, b), x)
         /\ ~ b.hole => \E slot : Inherits(e, AddEntry(e, b), {<<slot, b.born>>})
<1> DEFINE n == Len(e.scopes)
           S == e.scopes[n]
           T == [S EXCEPT !.entries = Append(S.entries, b)]
           f == AddEntry(e, b)
<1>1. /\ e \in EnvType /\ n \in DOMAIN e.scopes /\ S \in ScopeType /\ S = e.scopes[n]
      /\ e.scopes \in Seq(ScopeType)
  <2>1. e \in EnvType /\ n > 0
    BY DEF EnvOK
  <2>2. QED
    BY <2>1, PositionsAre DEF EnvType
<1>2. f = [e EXCEPT !.scopes = [e.scopes EXCEPT ![n] = T]]
  BY DEF AddEntry
<1>3. S.entries \in Seq(EntryType)
  BY <1>1 DEF ScopeType
<1>4. /\ Append(S.entries, b) \in Seq(EntryType)
      /\ \A k \in DOMAIN S.entries : /\ k \in DOMAIN Append(S.entries, b)
                                    /\ Append(S.entries, b)[k] = S.entries[k]
      /\ \A k \in DOMAIN Append(S.entries, b) :
            k \notin DOMAIN S.entries => k = Len(S.entries) + 1 /\ Append(S.entries, b)[k] = b
  <2> HIDE DEF S
  <2>1. QED
    BY <1>3, AppendIs
<1>5. T \in ScopeType /\ T.id = S.id /\ T.entries = Append(S.entries, b)
  BY <1>1, <1>4 DEF ScopeType
<1> HIDE DEF T, S, n
<1>6. /\ [e.scopes EXCEPT ![n] = T] \in Seq(ScopeType)
      /\ Len([e.scopes EXCEPT ![n] = T]) = Len(e.scopes)
      /\ DOMAIN [e.scopes EXCEPT ![n] = T] = DOMAIN e.scopes
  BY <1>1, <1>5
<1>7. /\ f \in EnvType /\ f.id = e.id /\ f.next_scope_id = e.next_scope_id
      /\ f.scopes = [e.scopes EXCEPT ![n] = T]
  BY <1>1, <1>2, <1>6 DEF EnvType
<1> HIDE DEF f
<1>8. /\ DOMAIN f.scopes = DOMAIN e.scopes /\ Len(f.scopes) = Len(e.scopes)
      /\ \A i \in DOMAIN e.scopes : /\ i # n => f.scopes[i] = e.scopes[i]
                                   /\ f.scopes[i].id = e.scopes[i].id
      /\ f.scopes[n] = T
  BY <1>1, <1>5, <1>6, <1>7
<1>9. ASSUME NEW i \in DOMAIN e.scopes, NEW k \in DOMAIN e.scopes[i].entries
      PROVE  k \in DOMAIN f.scopes[i].entries /\ f.scopes[i].entries[k] = e.scopes[i].entries[k]
  <2>1. CASE i # n
    BY <1>8, <1>9, <2>1
  <2>2. CASE i = n
    BY <1>1, <1>4, <1>5, <1>8, <1>9, <2>2
  <2>3. QED
    BY <2>1, <2>2
<1> DEFINE last == [env |-> e.id, scope |-> S.id, entry |-> Len(S.entries) + 1]
<1>10. ASSUME NEW p \in Positions(f)
       PROVE  \/ EntryAt(f, p) = b /\ Slot(f, p) = last
              \/ p \in Positions(e) /\ EntryAt(f, p) = EntryAt(e, p) /\ Slot(f, p) = Slot(e, p)
  <2>1. /\ p = <<p[1], p[2]>> /\ p[1] \in DOMAIN e.scopes /\ p[2] \in DOMAIN f.scopes[p[1]].entries
        /\ EntryAt(f, p) = f.scopes[p[1]].entries[p[2]]
    BY <1>7, <1>8, PositionsAre DEF EntryAt
  <2>5. Slot(f, p) = [env |-> e.id, scope |-> e.scopes[p[1]].id, entry |-> p[2]]
    BY <1>7, <1>8, <2>1 DEF Slot
  <2>2. CASE p[2] \in DOMAIN e.scopes[p[1]].entries
    <3>1. <<p[1], p[2]>> \in Positions(e) /\ EntryAt(e, <<p[1], p[2]>>) = e.scopes[p[1]].entries[p[2]]
      BY <1>1, <2>1, <2>2, PositionsAre
    <3>2. f.scopes[p[1]].entries[p[2]] = e.scopes[p[1]].entries[p[2]]
      BY <1>9, <2>1, <2>2
    <3>3. p \in Positions(e) /\ EntryAt(f, p) = EntryAt(e, p)
      BY <2>1, <3>1, <3>2
    <3>4. Slot(f, p) = Slot(e, p)
      BY <2>5 DEF Slot
    <3>5. QED
      BY <3>3, <3>4
  <2>3. CASE p[2] \notin DOMAIN e.scopes[p[1]].entries
    <3>1. p[1] = n
      BY <1>8, <2>1, <2>3
    <3>2. f.scopes[p[1]].entries = Append(S.entries, b) /\ e.scopes[p[1]] = S
      BY <1>1, <1>5, <1>8, <3>1
    <3>3. EntryAt(f, p) = b /\ p[2] = Len(S.entries) + 1
      BY <1>4, <2>1, <2>3, <3>2
    <3>4. QED
      BY <2>5, <3>2, <3>3
  <2>4. QED
    BY <2>2, <2>3
<1> HIDE DEF last
<1>11. EnvOK(f)
  <2>1. f \in EnvType /\ f.id > 0 /\ Len(f.scopes) > 0
    BY <1>7, <1>8 DEF EnvOK
  <2>2. /\ \A i \in DOMAIN f.scopes : f.scopes[i].id < f.next_scope_id
        /\ \A i, j \in DOMAIN f.scopes : f.scopes[i].id = f.scopes[j].id => i = j
    BY <1>7, <1>8 DEF EnvOK
  <2>3. \A p \in Positions(f) : ArenaNamed(EntryAt(f, p))
    BY <1>10 DEF EnvOK
  <2>4. QED
    BY <2>1, <2>2, <2>3 DEF EnvOK
<1>12. Grows(e, f)
  <2>1. e.next_scope_id \in Nat
    BY <1>1 DEF EnvType
  <2>2. \A i \in DOMAIN f.scopes :
           /\ i \in DOMAIN e.scopes /\ e.scopes[i].id = f.scopes[i].id
           /\ \A k \in DOMAIN e.scopes[i].entries :
                 /\ k \in DOMAIN f.scopes[i].entries
                 /\ f.scopes[i].entries[k].born = e.scopes[i].entries[k].born
    BY <1>8, <1>9
  <2>3. QED
    BY <1>7, <2>1, <2>2 DEF Grows
<1>13. Claims(f) \subseteq Claims(e) \cup {Claim(b)}
  BY <1>10 DEF Claims
<1>14. ASSUME NEW x, Bound(e, x)
       PROVE  Bound(f, x)
  <2>1. PICK p \in Positions(e) : EntryAt(e, p).name = x
    BY <1>14 DEF Bound, BoundAt
  <2>2. p = <<p[1], p[2]>> /\ p[1] \in DOMAIN e.scopes /\ p[2] \in DOMAIN e.scopes[p[1]].entries
    BY <1>1, PositionsAre
  <2>3. p \in Positions(f) /\ EntryAt(f, p) = EntryAt(e, p)
    BY <1>7, <1>8, <1>9, <2>2, PositionsAre DEF EntryAt
  <2>4. QED
    BY <2>1, <2>3 DEF Bound, BoundAt
<1>15. ASSUME ~ b.hole
       PROVE  Inherits(e, f, {<<last, b.born>>})
  BY <1>10, <1>15 DEF Inherits, PlacesOf, Gaps, BornAt
<1>16. QED
  BY <1>11, <1>12, <1>13, <1>14, <1>15 DEF Becomes, f

(* A binding that changes its value only.                                   *)
LEMMA WithSame ==
  ASSUME NEW e \in EnvType, NEW p \in Positions(e), NEW b \in EntryType,
         b.born = BornAt(e, p), b.name = EntryAt(e, p).name
  PROVE  /\ Positions(With(e, p, b)) = Positions(e)
         /\ PlacesOf(With(e, p, b)) = PlacesOf(e)
         /\ \A q \in Positions(e) :
               /\ BornAt(With(e, p, b), q) = BornAt(e, q)
               /\ q # p => EntryAt(With(e, p, b), q) = EntryAt(e, q)
         /\ EntryAt(With(e, p, b), p) = b
         /\ \A x : Nearest(With(e, p, b), x) = Nearest(e, x)
         /\ (b.hole => EntryAt(e, p).hole) => Inherits(e, With(e, p, b), {})
<1> DEFINE f == With(e, p, b)
<1>1. /\ f.id = e.id /\ Positions(f) = Positions(e)
      /\ \A i \in DOMAIN e.scopes : f.scopes[i].id = e.scopes[i].id
      /\ \A q \in Positions(e) : EntryAt(f, q) = IF q = p THEN b ELSE EntryAt(e, q)
  BY WithIs
<1> HIDE DEF f
<1>2. \A q \in Positions(e) : /\ BornAt(f, q) = BornAt(e, q)
                              /\ EntryAt(f, q).name = EntryAt(e, q).name
                              /\ q # p => EntryAt(f, q) = EntryAt(e, q)
  BY <1>1 DEF BornAt
<1>3. \A q \in Positions(e) : Slot(f, q) = Slot(e, q)
  BY <1>1, PositionsAre DEF Slot
<1>4. PlacesOf(f) = PlacesOf(e)
  BY <1>1, <1>2, <1>3 DEF PlacesOf
<1>5. \A x : BoundAt(f, x) = BoundAt(e, x)
  BY <1>1, <1>2 DEF BoundAt
<1>6. \A x : Nearest(f, x) = Nearest(e, x)
  BY <1>5 DEF Nearest
<1>7. ASSUME b.hole => EntryAt(e, p).hole
      PROVE  Inherits(e, f, {})
  <2>1. \A q \in Positions(e) : EntryAt(f, q).hole => EntryAt(e, q).hole
    BY <1>1, <1>7
  <2>2. QED
    BY <1>1, <1>2, <1>4, <2>1 DEF Inherits, Gaps
<1>8. QED
  BY <1>1, <1>2, <1>4, <1>6, <1>7 DEF f

LEMMA WithKeeps ==
  ASSUME NEW e, EnvOK(e), NEW p \in Positions(e), NEW b \in EntryType,
         b.born = BornAt(e, p), b.name = EntryAt(e, p).name,
         Claim(b) = Claim(EntryAt(e, p)), ArenaNamed(b)
  PROVE  /\ Becomes(e, With(e, p, b), {})
         /\ \A x : Bound(e, x) => Bound(With(e, p, b), x)
<1>1. Claim(b) \in Claims(e)
  BY DEF Claims
<1>2. Becomes(e, With(e, p, b), {})
  BY <1>1, WithBecomes DEF Becomes
<1>3. /\ Positions(With(e, p, b)) = Positions(e)
      /\ \A q \in Positions(e) : EntryAt(With(e, p, b), q).name = EntryAt(e, q).name
  BY WithIs DEF EnvOK
<1>4. \A x : Bound(e, x) => Bound(With(e, p, b), x)
  BY <1>3 DEF Bound, BoundAt
<1>5. QED
  BY <1>2, <1>4

LEMMA PutBecomes ==
  ASSUME NEW e, EnvOK(e), NEW x, Bound(e, x), NEW hole \in BOOLEAN
  PROVE  /\ Becomes(e, Put(e, x, hole), {})
         /\ \A y : Bound(e, y) => Bound(Put(e, x, hole), y)
         /\ ~ hole => Stays(e, Put(e, x, hole))
         /\ Positions(Put(e, x, hole)) = Positions(e)
         /\ PlacesOf(Put(e, x, hole)) = PlacesOf(e)
         /\ Nearest(Put(e, x, hole), x) = Nearest(e, x)
         /\ \A q \in Positions(e) :
               /\ BornAt(Put(e, x, hole), q) = BornAt(e, q)
               /\ q # Nearest(e, x) => EntryAt(Put(e, x, hole), q) = EntryAt(e, q)
         /\ ~ hole => ~ EntryAt(Put(e, x, hole), Nearest(e, x)).hole
<1> DEFINE p == Nearest(e, x)
           a == EntryAt(e, p)
           b == [a EXCEPT !.hole = hole]
<1>1. p \in Positions(e) /\ a \in EntryType /\ ArenaNamed(a)
  BY NearestIsBound, PositionsAre DEF EnvOK
<1>2. b \in EntryType /\ b.born = a.born /\ b.name = a.name /\ b.arena = a.arena /\ b.hole = hole
  BY <1>1 DEF EntryType
<1>3. ArenaNamed(b) /\ Claim(b) = Claim(a) /\ a.born = BornAt(e, p)
  BY <1>1, <1>2 DEF ArenaNamed, Claim, BornAt
<1>6. e \in EnvType
  BY DEF EnvOK
<1> HIDE DEF b
<1>4. /\ Becomes(e, With(e, p, b), {})
      /\ \A y : Bound(e, y) => Bound(With(e, p, b), y)
  BY <1>1, <1>2, <1>3, WithKeeps
<1>7. Put(e, x, hole) = With(e, p, b)
  BY DEF Put, b
<1> HIDE DEF p
<1>8. /\ Positions(With(e, p, b)) = Positions(e)
      /\ PlacesOf(With(e, p, b)) = PlacesOf(e)
      /\ \A q \in Positions(e) :
            /\ BornAt(With(e, p, b), q) = BornAt(e, q)
            /\ q # p => EntryAt(With(e, p, b), q) = EntryAt(e, q)
      /\ EntryAt(With(e, p, b), p) = b
      /\ \A y : Nearest(With(e, p, b), y) = Nearest(e, y)
      /\ ~ hole => Inherits(e, With(e, p, b), {})
  BY <1>1, <1>2, <1>3, <1>6, WithSame
<1>9. ~ hole => ~ EntryAt(With(e, p, b), p).hole
  BY <1>2, <1>8
<1>5. QED
  BY <1>4, <1>7, <1>8, <1>9 DEF Stays, p

LEMMA FilledBecomes ==
  ASSUME NEW e, EnvOK(e), NEW of
  PROVE  /\ Becomes(e, Filled(e, of), {})
         /\ \A y : Bound(e, y) => Bound(Filled(e, of), y)
         /\ PlacesOf(Filled(e, of)) = PlacesOf(e)
         /\ Positions(Filled(e, of)) = Positions(e)
         /\ \A y : Nearest(Filled(e, of), y) = Nearest(e, y)
         /\ \A q \in Positions(e) :
               /\ BornAt(Filled(e, of), q) = BornAt(e, q)
               /\ EntryAt(Filled(e, of), q).hole => EntryAt(e, q).hole
<1>1. CASE HoleOf(e, of) = {}
  BY <1>1, BecomesItself DEF Filled
<1>2. CASE HoleOf(e, of) # {}
  <2> DEFINE p == CHOOSE p \in HoleOf(e, of) : TRUE
             a == EntryAt(e, p)
             b == [a EXCEPT !.hole = FALSE]
  <2>1. p \in HoleOf(e, of) /\ Filled(e, of) = With(e, p, b)
    BY <1>2 DEF Filled
  <2> HIDE DEF p
  <2>2. p \in Positions(e) /\ a \in EntryType /\ ArenaNamed(a)
    BY <2>1, PositionsAre DEF EnvOK, HoleOf
  <2>3. b \in EntryType /\ b.born = a.born /\ b.name = a.name /\ b.arena = a.arena /\ ~ b.hole
    BY <2>2 DEF EntryType
  <2>4. ArenaNamed(b) /\ Claim(b) = Claim(a) /\ a.born = BornAt(e, p)
    BY <2>2, <2>3 DEF ArenaNamed, Claim, BornAt
  <2> HIDE DEF b
  <2>5. /\ Becomes(e, With(e, p, b), {})
        /\ \A y : Bound(e, y) => Bound(With(e, p, b), y)
    BY <2>2, <2>3, <2>4, WithKeeps
  <2>7. /\ Positions(With(e, p, b)) = Positions(e)
        /\ PlacesOf(With(e, p, b)) = PlacesOf(e)
        /\ \A q \in Positions(e) :
              /\ BornAt(With(e, p, b), q) = BornAt(e, q)
              /\ q # p => EntryAt(With(e, p, b), q) = EntryAt(e, q)
        /\ EntryAt(With(e, p, b), p) = b
        /\ \A y : Nearest(With(e, p, b), y) = Nearest(e, y)
    <3>1. e \in EnvType
      BY DEF EnvOK
    <3>2. QED
      BY <2>2, <2>3, <2>4, <3>1, WithSame
  <2>8. \A q \in Positions(e) : EntryAt(With(e, p, b), q).hole => EntryAt(e, q).hole
    BY <2>3, <2>7
  <2>6. QED
    BY <2>1, <2>5, <2>7, <2>8
<1>3. QED
  BY <1>1, <1>2

LEMMA DefineBecomes ==
  ASSUME births \in Nat, NEW e, EnvOK(e), NEW x \in Names, NEW state \in ArenaType,
         state.buffer.env # 0 => state.name \in Var
  PROVE  /\ Becomes(e, Define(e, x, state), {<<state.buffer, state.born>>})
         /\ IF Innermost(e, x) = {}
            THEN \E slot : Inherits(e, Define(e, x, state), {<<slot, births + 1>>})
            ELSE Inherits(e, Define(e, x, state), {})
<1> DEFINE b == [name |-> x, born |-> births + 1, hole |-> FALSE, arena |-> state]
           p == Nearest(e, x)
           c == [b EXCEPT !.born = BornAt(e, p)]
<1>1. /\ b \in EntryType /\ ArenaNamed(b) /\ Claim(b) = <<state.buffer, state.born>>
      /\ b.born = births + 1 /\ ~ b.hole
  BY DEF EntryType, ArenaNamed, Claim
<1>2. CASE Innermost(e, x) = {}
  <2>1. Define(e, x, state) = AddEntry(e, b)
    BY <1>2 DEF Define, AddEntry
  <2> HIDE DEF b
  <2>2. QED
    BY <1>1, <1>2, <2>1, AddBecomes
<1>3. CASE Innermost(e, x) # {}
  <2>1. Define(e, x, state) = With(e, p, c)
    BY <1>3 DEF Define
  <2>2. p \in Positions(e) /\ EntryAt(e, p) \in EntryType /\ EntryAt(e, p).name = x
    BY <1>3, NearestIsBound, PositionsAre DEF EnvOK, Innermost, Bound
  <2>3. BornAt(e, p) \in Nat
    BY <2>2 DEF BornAt, EntryType
  <2>4. /\ c \in EntryType /\ ArenaNamed(c) /\ Claim(c) = <<state.buffer, state.born>>
        /\ c.born = BornAt(e, p) /\ c.name = x /\ ~ c.hole
    BY <2>3 DEF EntryType, ArenaNamed, Claim
  <2> HIDE DEF c, p
  <2>5. Inherits(e, With(e, p, c), {})
    BY <2>2, <2>4, WithSame DEF EnvOK
  <2>6. QED
    BY <1>3, <2>1, <2>2, <2>4, <2>5, WithBecomes
<1>4. QED
  BY <1>2, <1>3

(* Scopes come and go at the end: f has a prefix of e's scopes, and perhaps a *)
(* fresh one.                                                              *)
LEMMA ScopesBecome ==
  ASSUME NEW e, EnvOK(e), NEW n \in 0..Len(e.scopes), NEW f \in EnvType,
         f.id = e.id,
         \/ n > 0 /\ Len(f.scopes) = n /\ f.next_scope_id = e.next_scope_id
         \/ /\ Len(f.scopes) = n + 1 /\ f.next_scope_id = e.next_scope_id + 1
            /\ f.scopes[n + 1] = FreshScope(e),
         \A i \in 1..n : f.scopes[i] = e.scopes[i]
  PROVE  Stays(e, f)
<1>1. /\ e \in EnvType /\ e.next_scope_id \in Nat /\ f.next_scope_id \in Nat /\ n \in Nat
      /\ DOMAIN e.scopes = 1..Len(e.scopes) /\ DOMAIN f.scopes = 1..Len(f.scopes)
      /\ Len(e.scopes) \in Nat /\ Len(f.scopes) \in Nat
      /\ f.next_scope_id >= e.next_scope_id
      /\ \A i \in 1..n : i \in DOMAIN e.scopes /\ i \in DOMAIN f.scopes
  BY DEF EnvOK, EnvType
<1>2. ASSUME NEW i \in DOMAIN f.scopes
      PROVE  \/ i \in 1..n /\ i \in DOMAIN e.scopes /\ f.scopes[i] = e.scopes[i]
             \/ /\ i = n + 1 /\ f.scopes[i].id = e.next_scope_id /\ f.scopes[i].entries = << >>
                /\ f.next_scope_id = e.next_scope_id + 1
  BY <1>1 DEF FreshScope, Scope
<1>3. /\ \A i \in DOMAIN e.scopes : e.scopes[i].id \in Nat /\ e.scopes[i].id < e.next_scope_id
      /\ \A i, j \in DOMAIN e.scopes : e.scopes[i].id = e.scopes[j].id => i = j
  BY <1>1, PositionsAre DEF EnvOK, ScopeType
<1>4. ASSUME NEW p \in Positions(f)
      PROVE  p \in Positions(e) /\ EntryAt(f, p) = EntryAt(e, p) /\ Slot(f, p) = Slot(e, p)
  <2>1. p = <<p[1], p[2]>> /\ p[1] \in DOMAIN f.scopes /\ p[2] \in DOMAIN f.scopes[p[1]].entries
    BY PositionsAre
  <2>2. f.scopes[p[1]].entries # << >>
    BY <2>1
  <2>3. p[1] \in DOMAIN e.scopes /\ f.scopes[p[1]] = e.scopes[p[1]]
    BY <1>2, <2>1, <2>2
  <2>4. <<p[1], p[2]>> \in Positions(e)
    BY <1>1, <2>1, <2>3, PositionsAre
  <2>5. EntryAt(f, p) = EntryAt(e, p) /\ Slot(f, p) = Slot(e, p)
    BY <2>3 DEF EntryAt, Slot
  <2>6. QED
    BY <2>1, <2>4, <2>5
<1>5. EnvOK(f)
  <2>1. f.id > 0 /\ Len(f.scopes) > 0
    BY <1>1 DEF EnvOK
  <2>2. ASSUME NEW i \in DOMAIN f.scopes
        PROVE  f.scopes[i].id < f.next_scope_id
    <3>1. CASE i = n + 1 /\ f.scopes[i].id = e.next_scope_id /\ f.next_scope_id = e.next_scope_id + 1
      BY <1>1, <3>1
    <3>2. CASE i \in DOMAIN e.scopes /\ f.scopes[i] = e.scopes[i]
      <4>1. f.scopes[i].id \in Nat /\ f.scopes[i].id < e.next_scope_id
        BY <1>3, <3>2
      <4>2. QED
        BY <1>1, <4>1
    <3>3. QED
      BY <1>2, <2>2, <3>1, <3>2
  <2>3. ASSUME NEW i \in DOMAIN f.scopes, NEW j \in DOMAIN f.scopes,
               f.scopes[i].id = f.scopes[j].id
        PROVE  i = j
    <3>1. CASE i \in DOMAIN e.scopes /\ j \in DOMAIN e.scopes
               /\ f.scopes[i] = e.scopes[i] /\ f.scopes[j] = e.scopes[j]
      BY <1>3, <2>3, <3>1
    <3>2. CASE i = n + 1 /\ f.scopes[i].id = e.next_scope_id
      <4>1. ~ (j \in DOMAIN e.scopes /\ f.scopes[j] = e.scopes[j])
        BY <1>1, <1>3, <2>3, <3>2
      <4>2. QED
        BY <1>2, <3>2, <4>1
    <3>3. CASE j = n + 1 /\ f.scopes[j].id = e.next_scope_id
      <4>1. ~ (i \in DOMAIN e.scopes /\ f.scopes[i] = e.scopes[i])
        BY <1>1, <1>3, <2>3, <3>3
      <4>2. QED
        BY <1>2, <3>3, <4>1
    <3>4. QED
      BY <1>2, <3>1, <3>2, <3>3
  <2>4. \A p \in Positions(f) : ArenaNamed(EntryAt(f, p))
    BY <1>4 DEF EnvOK
  <2>5. QED
    BY <2>1, <2>2, <2>3, <2>4 DEF EnvOK
<1>6. Grows(e, f)
  <2>1. ASSUME NEW i \in DOMAIN f.scopes, ~ (f.scopes[i].id >= e.next_scope_id)
        PROVE  i \in DOMAIN e.scopes /\ f.scopes[i] = e.scopes[i]
    BY <1>1, <1>2, <2>1
  <2>2. QED
    BY <1>1, <2>1 DEF Grows
<1>7. Claims(f) \subseteq Claims(e) /\ Inherits(e, f, {})
  BY <1>4 DEF Claims, Inherits, PlacesOf, Gaps, BornAt
<1>8. QED
  BY <1>5, <1>6, <1>7 DEF Becomes, Stays

LEMMA PushScopeIs ==
  ASSUME NEW e \in EnvType
  PROVE  /\ PushScope(e) = [id |-> e.id, scopes |-> Append(e.scopes, FreshScope(e)),
                            next_scope_id |-> e.next_scope_id + 1]
         /\ Reset(e) = [id |-> e.id, scopes |-> <<FreshScope(e)>>,
                        next_scope_id |-> e.next_scope_id + 1]
<1>1. ASSUME NEW S, NEW x
      PROVE  [[e EXCEPT !.next_scope_id = x] EXCEPT !.scopes = S]
                 = [id |-> e.id, scopes |-> S, next_scope_id |-> x]
  <2>1. e = [id |-> e.id, scopes |-> e.scopes, next_scope_id |-> e.next_scope_id]
    BY DEF EnvType
  <2>2. [e EXCEPT !.next_scope_id = x] = [id |-> e.id, scopes |-> e.scopes, next_scope_id |-> x]
    BY <2>1
  <2>3. [[id |-> e.id, scopes |-> e.scopes, next_scope_id |-> x] EXCEPT !.scopes = S]
            = [id |-> e.id, scopes |-> S, next_scope_id |-> x]
    OBVIOUS
  <2>4. QED
    BY <2>2, <2>3
<1>2. QED
  BY <1>1 DEF PushScope, Reset, NextScope, FreshScope

LEMMA PushScopeBecomes ==
  ASSUME NEW e, EnvOK(e), NEW n \in 1..Len(e.scopes)
  PROVE  /\ Stays(e, [e EXCEPT !.scopes = SubSeq(@, 1, n)])
         /\ Stays(e, PushScope([e EXCEPT !.scopes = SubSeq(@, 1, n)]))
         /\ Stays(e, PushScope(e))
         /\ Stays(e, Reset(e))
<1>1. /\ e \in EnvType /\ e.scopes \in Seq(ScopeType) /\ Len(e.scopes) \in Nat
      /\ e.next_scope_id \in Nat /\ FreshScope(e) \in ScopeType
  BY DEF EnvOK, EnvType, FreshScope, Scope, ScopeType
<1>2. /\ SubSeq(e.scopes, 1, n) \in Seq(ScopeType) /\ Len(SubSeq(e.scopes, 1, n)) = n
      /\ \A i \in 1..n : SubSeq(e.scopes, 1, n)[i] = e.scopes[i]
  BY <1>1
<1> DEFINE f == [e EXCEPT !.scopes = SubSeq(@, 1, n)]
<1>3. /\ f \in EnvType /\ f.id = e.id /\ f.next_scope_id = e.next_scope_id
      /\ f.scopes = SubSeq(e.scopes, 1, n)
  BY <1>1, <1>2 DEF EnvType
<1>4. Stays(e, f)
  <2>1. n \in 0..Len(e.scopes) /\ n > 0
    BY <1>1
  <2> HIDE DEF f
  <2>2. /\ f \in EnvType /\ f.id = e.id /\ f.next_scope_id = e.next_scope_id
        /\ Len(f.scopes) = n /\ \A i \in 1..n : f.scopes[i] = e.scopes[i]
    BY <1>2, <1>3
  <2>3. QED
    BY <2>1, <2>2, ScopesBecome
<1>5. ASSUME NEW g \in EnvType, NEW k \in 1..Len(e.scopes), g.id = e.id,
             g.next_scope_id = e.next_scope_id, Len(g.scopes) = k,
             \A i \in 1..k : g.scopes[i] = e.scopes[i]
      PROVE  Stays(e, PushScope(g))
  <2>1. /\ g.scopes \in Seq(ScopeType) /\ FreshScope(g) = FreshScope(e)
        /\ PushScope(g) = [id |-> g.id, scopes |-> Append(g.scopes, FreshScope(e)),
                           next_scope_id |-> e.next_scope_id + 1]
    BY <1>5, PushScopeIs DEF EnvType, FreshScope
  <2>2. /\ Append(g.scopes, FreshScope(e)) \in Seq(ScopeType)
        /\ Len(Append(g.scopes, FreshScope(e))) = k + 1
        /\ Append(g.scopes, FreshScope(e))[k + 1] = FreshScope(e)
        /\ \A i \in 1..k : Append(g.scopes, FreshScope(e))[i] = e.scopes[i]
    BY <1>1, <1>5, <2>1
  <2>3. PushScope(g) \in EnvType
    BY <1>1, <2>1, <2>2 DEF EnvType
  <2> DEFINE h == PushScope(g)
  <2>4. /\ h.id = e.id /\ h.next_scope_id = e.next_scope_id + 1 /\ Len(h.scopes) = k + 1
        /\ h.scopes[k + 1] = FreshScope(e) /\ \A i \in 1..k : h.scopes[i] = e.scopes[i]
    BY <1>5, <2>1, <2>2
  <2> HIDE DEF h
  <2>5. k \in 0..Len(e.scopes)
    BY <1>1
  <2>6. h \in EnvType
    BY <2>3 DEF h
  <2>7. Stays(e, h)
    BY <2>4, <2>5, <2>6, ScopesBecome
  <2>8. QED
    BY <2>7 DEF h
<1>6. Stays(e, PushScope(f))
  <2> HIDE DEF f
  <2>1. QED
    BY <1>2, <1>3, <1>5
<1>7. Stays(e, PushScope(e))
  <2>1. Len(e.scopes) \in 1..Len(e.scopes)
    BY <1>1
  <2>2. QED
    BY <1>1, <1>5, <2>1
<1>8. Stays(e, Reset(e))
  <2>1. Reset(e) = [id |-> e.id, scopes |-> <<FreshScope(e)>>,
                    next_scope_id |-> e.next_scope_id + 1]
    BY <1>1, PushScopeIs
  <2>2. /\ <<FreshScope(e)>> \in Seq(ScopeType) /\ Len(<<FreshScope(e)>>) = 0 + 1
        /\ <<FreshScope(e)>>[0 + 1] = FreshScope(e)
    BY <1>1
  <2> DEFINE h == Reset(e)
  <2>3. /\ h \in EnvType /\ h.id = e.id /\ h.next_scope_id = e.next_scope_id + 1
        /\ Len(h.scopes) = 0 + 1 /\ h.scopes[0 + 1] = FreshScope(e)
    BY <1>1, <2>1, <2>2 DEF EnvType
  <2>4. 0 \in 0..Len(e.scopes) /\ \A i \in 1..0 : h.scopes[i] = e.scopes[i]
    BY <1>1
  <2> HIDE DEF h
  <2>5. Stays(e, h)
    BY <2>3, <2>4, ScopesBecome
  <2>6. QED
    BY <2>5 DEF h
<1>9. QED
  BY <1>4, <1>6, <1>7, <1>8

LEMMA ResetIs ==
  ASSUME NEW e \in EnvType
  PROVE  Positions(Reset(e)) = {}
<1> DEFINE f == Reset(e)
           S == FreshScope(e)
<1>1. f.scopes = <<S>>
  BY PushScopeIs
<1>2. S.entries = << >>
  BY DEF FreshScope, Scope
<1> HIDE DEF f, S
<1>3. DOMAIN f.scopes = {1} /\ DOMAIN f.scopes[1].entries = {}
  BY <1>1, <1>2
<1>4. Positions(f) = {}
  BY <1>3 DEF Positions
<1>5. QED
  BY <1>4 DEF f

LEMMA NewEnvIs ==
  ASSUME NEW id \in Nat, id > 0
  PROVE  /\ EnvOK(NewEnv(id)) /\ NewEnv(id).id = id /\ Claims(NewEnv(id)) = {}
         /\ Positions(NewEnv(id)) = {}
<1> DEFINE e == NewEnv(id)
<1>1. e = [id |-> id, scopes |-> <<[id |-> 0, entries |-> << >>]>>, next_scope_id |-> 1]
  BY DEF NewEnv, Scope
<1>2. /\ [id |-> 0, entries |-> << >>] \in ScopeType
      /\ e \in EnvType /\ e.id = id /\ Len(e.scopes) = 1 /\ e.scopes[1].id = 0
      /\ DOMAIN e.scopes = {1} /\ e.next_scope_id = 1 /\ e.scopes[1].entries = << >>
  BY <1>1 DEF EnvType, ScopeType
<1> HIDE DEF e
<1>3. Positions(e) = {}
  BY <1>2 DEF Positions
<1>4. EnvOK(e) /\ Claims(e) = {}
  BY <1>2, <1>3 DEF EnvOK, Claims
<1>5. QED
  BY <1>2, <1>3, <1>4 DEF e

-----------------------------------------------------------------------------
(* The stack and the shelf.  Count is ShelvedUpTo of any stack, Own is OwnEnv *)
(* of any stack and shelf.                                                 *)
Count(F, i)  == Cardinality({j \in 1 .. i : F[j].shelved})
Own(F, s, i) == IF F[i].shelved THEN s[Count(F, i)] ELSE F[i].env

LEMMA PrefixIs ==
  ASSUME NEW S, NEW s \in Seq(S), NEW n \in Nat, n <= Len(s)
  PROVE  /\ SubSeq(s, 1, n) \in Seq(S) /\ Len(SubSeq(s, 1, n)) = n
         /\ \A i \in 1..n : SubSeq(s, 1, n)[i] = s[i]
OBVIOUS

LEMMA CountIs ==
  ASSUME NEW F, NEW i \in Nat
  PROVE  /\ Count(F, i) \in Nat /\ Count(F, 0) = 0
         /\ i > 0 => Count(F, i) = Count(F, i - 1) + IF F[i].shelved THEN 1 ELSE 0
         /\ \A k \in 0..i : Count(F, k) <= Count(F, i)
<1> DEFINE T(k) == {j \in 1..k : F[j].shelved}
<1>1. \A k \in Nat : IsFiniteSet(T(k)) /\ Cardinality(T(k)) \in Nat /\ Count(F, k) = Cardinality(T(k))
  <2> SUFFICES ASSUME NEW k \in Nat
               PROVE  IsFiniteSet(T(k)) /\ Cardinality(T(k)) \in Nat /\ Count(F, k) = Cardinality(T(k))
    OBVIOUS
  <2>1. IsFiniteSet(1..k) /\ T(k) \in SUBSET (1..k)
    BY FS_Interval
  <2>2. IsFiniteSet(T(k))
    BY <2>1, FS_Subset
  <2>3. QED
    BY <2>2, FS_CardinalityType DEF Count
<1>2. T(0) = {}
  OBVIOUS
<1>3. ASSUME i > 0
      PROVE  Count(F, i) = Count(F, i - 1) + IF F[i].shelved THEN 1 ELSE 0
  <2>1. i - 1 \in Nat /\ i \notin T(i - 1)
    BY <1>3
  <2>2. T(i) = IF F[i].shelved THEN T(i - 1) \cup {i} ELSE T(i - 1)
    BY <1>3, <2>1
  <2> HIDE DEF T
  <2>3. Cardinality(T(i - 1) \cup {i}) = Cardinality(T(i - 1)) + 1
    BY <1>1, <2>1, FS_AddElement
  <2>4. /\ Count(F, i) = Cardinality(T(i)) /\ Count(F, i - 1) = Cardinality(T(i - 1))
        /\ Cardinality(T(i - 1)) \in Nat
    BY <1>1, <2>1
  <2>5. CASE F[i].shelved
    BY <2>2, <2>3, <2>4, <2>5
  <2>6. CASE ~ F[i].shelved
    BY <2>2, <2>4, <2>6
  <2>7. QED
    BY <2>5, <2>6
<1>4. ASSUME NEW k \in 0..i
      PROVE  Count(F, k) <= Count(F, i)
  <2>1. k \in Nat /\ T(k) \in SUBSET T(i)
    BY <1>4
  <2> HIDE DEF T
  <2>2. QED
    BY <1>1, <2>1, FS_Subset
<1>5. Count(F, 0) = 0
  <2> HIDE DEF T
  <2>1. QED
    BY <1>1, <1>2, FS_EmptySet
<1>6. QED
  BY <1>1, <1>3, <1>4, <1>5

LEMMA CountSame ==
  ASSUME NEW F, NEW G, NEW i, \A j \in 1..i : F[j].shelved <=> G[j].shelved
  PROVE  Count(F, i) = Count(G, i)
<1>1. {j \in 1..i : F[j].shelved} = {j \in 1..i : G[j].shelved}
  OBVIOUS
<1>2. QED
  BY <1>1 DEF Count

Paired(F, s) ==
    /\ F \in Seq(FrameType) /\ F # << >> /\ s \in Seq(EnvType)
    /\ Len(s) = Count(F, Len(F))

LEMMA PairedIs ==
  ASSUME NEW F, NEW s, Paired(F, s)
  PROVE  /\ Len(F) \in Nat /\ Len(F) > 0 /\ DOMAIN F = 1..Len(F)
         /\ Len(s) \in Nat /\ DOMAIN s = 1..Len(s)
         /\ \A i \in 1..Len(F) :
               /\ F[i] \in FrameType /\ F[i].shelved \in BOOLEAN
               /\ F[i].shelved => Count(F, i) \in 1..Len(s)
               /\ Own(F, s, i) \in EnvType
         /\ F[Len(F)].shelved => /\ Own(F, s, Len(F)) = s[Len(s)] /\ Len(s) > 0
                                /\ Count(F, Len(F) - 1) = Len(s) - 1
         /\ ~ F[Len(F)].shelved => /\ Own(F, s, Len(F)) = F[Len(F)].env
                                  /\ Count(F, Len(F) - 1) = Len(s)
<1>1. /\ Len(F) \in Nat /\ Len(F) > 0 /\ DOMAIN F = 1..Len(F)
      /\ Len(s) \in Nat /\ DOMAIN s = 1..Len(s) /\ Len(s) = Count(F, Len(F))
  BY DEF Paired
<1>2. ASSUME NEW i \in 1..Len(F)
      PROVE  /\ F[i] \in FrameType /\ F[i].shelved \in BOOLEAN /\ F[i].env \in EnvType
             /\ F[i].shelved => Count(F, i) \in 1..Len(s)
             /\ Own(F, s, i) \in EnvType
  <2>1. F[i] \in FrameType /\ F[i].shelved \in BOOLEAN /\ F[i].env \in EnvType
    <3>1. F[i] \in FrameType
      BY <1>1, <1>2 DEF Paired
    <3>2. QED
      BY <3>1 DEF FrameType
  <2>2. /\ Count(F, i) = Count(F, i - 1) + IF F[i].shelved THEN 1 ELSE 0
        /\ Count(F, i) \in Nat /\ Count(F, i - 1) \in Nat
    <3>1. i \in Nat /\ i - 1 \in Nat /\ i > 0
      BY <1>1, <1>2
    <3>2. QED
      BY <3>1, CountIs
  <2>3. Count(F, i) <= Count(F, Len(F))
    BY <1>1, CountIs
  <2>4. F[i].shelved => Count(F, i) \in 1..Len(s)
    BY <1>1, <2>2, <2>3
  <2>5. QED
    BY <2>1, <2>4 DEF Own, Paired
<1>3. /\ Count(F, Len(F)) = Count(F, Len(F) - 1) + IF F[Len(F)].shelved THEN 1 ELSE 0
      /\ Count(F, Len(F) - 1) \in Nat
  BY <1>1, CountIs
<1>4. QED
  BY <1>1, <1>2, <1>3 DEF Own

(* The last frame is replaced by g and the shelf by t: nothing else changes   *)
(* hands if the shelf changes with g.shelved.                              *)
Replaced(F, g) == [F EXCEPT ![Len(F)] = g]
TopEnv(g, t)   == IF g.shelved THEN t[Len(t)] ELSE g.env

Replaces(F, s, g, t) ==
    /\ Paired(F, s) /\ g \in FrameType /\ t \in Seq(EnvType)
    /\ Len(t) = Count(F, Len(F) - 1) + IF g.shelved THEN 1 ELSE 0
    /\ \A k \in 1..Count(F, Len(F) - 1) : t[k] = s[k]

LEMMA TopReplaced ==
  ASSUME NEW F, NEW s, NEW g, NEW t, Replaces(F, s, g, t)
  PROVE  /\ Paired(Replaced(F, g), t) /\ Len(Replaced(F, g)) = Len(F)
         /\ \A i \in 1..Len(F) :
               /\ Replaced(F, g)[i] = IF i = Len(F) THEN g ELSE F[i]
               /\ Own(Replaced(F, g), t, i) = IF i # Len(F) THEN Own(F, s, i) ELSE TopEnv(g, t)
<1> DEFINE n == Len(F)
           G == [F EXCEPT ![n] = g]
<1>1. /\ n \in Nat /\ n > 0 /\ DOMAIN F = 1..n /\ n - 1 \in Nat
      /\ \A i \in 1..n : F[i].shelved \in BOOLEAN
  <2>1. /\ n \in Nat /\ n > 0 /\ DOMAIN F = 1..n
        /\ \A i \in 1..n : F[i].shelved \in BOOLEAN
    BY PairedIs DEF Replaces
  <2>2. QED
    BY <2>1
<1>2. /\ G \in Seq(FrameType) /\ G # << >> /\ Len(G) = n /\ g.shelved \in BOOLEAN
      /\ \A i \in 1..n : G[i] = IF i = n THEN g ELSE F[i]
  BY <1>1 DEF Paired, FrameType, Replaces
<1> HIDE DEF n, G
<1>3. \A i \in 1..(n - 1) : Count(G, i) = Count(F, i)
  <2>1. \A i \in 1..(n - 1) : \A j \in 1..i : F[j].shelved <=> G[j].shelved
    BY <1>1, <1>2
  <2>2. QED
    BY <2>1, CountSame
<1>4. Count(G, n - 1) = Count(F, n - 1)
  <2>1. \A j \in 1..(n - 1) : F[j].shelved <=> G[j].shelved
    BY <1>1, <1>2
  <2>2. QED
    BY <2>1, CountSame
<1>5. Count(G, n) = Len(t)
  <2>1. Count(G, n) = Count(G, n - 1) + IF G[n].shelved THEN 1 ELSE 0
    BY <1>1, CountIs
  <2>2. G[n] = g
    BY <1>1, <1>2
  <2>3. QED
    BY <1>4, <2>1, <2>2 DEF n, Replaces
<1>6. Paired(G, t)
  BY <1>2, <1>5 DEF Paired, Replaces
<1>7. ASSUME NEW i \in 1..n
      PROVE  Own(G, t, i) = IF i # n THEN Own(F, s, i) ELSE TopEnv(g, t)
  <2>1. CASE i = n
    BY <1>2, <1>5, <2>1 DEF Own, TopEnv
  <2>2. CASE i # n
    <3>1. i \in 1..(n - 1) /\ G[i] = F[i]
      BY <1>1, <1>2, <2>2
    <3>2. F[i].shelved => Count(F, i) \in 1..Count(F, n - 1)
      <4>1. /\ Count(F, i) <= Count(F, n - 1) /\ Count(F, n - 1) \in Nat
        BY <1>1, <3>1, CountIs
      <4>2. F[i].shelved => Count(F, i) \in 1..Len(s)
        BY <1>7, PairedIs DEF n, Replaces
      <4>3. QED
        BY <4>1, <4>2
    <3>3. F[i].shelved => t[Count(F, i)] = s[Count(F, i)]
      BY <3>2 DEF n, Replaces
    <3>4. QED
      BY <1>3, <2>2, <3>1, <3>3 DEF Own
  <2>3. QED
    BY <2>1, <2>2
<1>8. QED
  BY <1>2, <1>6, <1>7 DEF n, G, Replaced

(* A frame is pushed.                                                       *)
LEMMA FramePushed ==
  ASSUME NEW F, NEW s, Paired(F, s), NEW g \in FrameType, ~ g.shelved
  PROVE  /\ Paired(Append(F, g), s) /\ Len(Append(F, g)) = Len(F) + 1
         /\ Append(F, g)[Len(F) + 1] = g /\ Own(Append(F, g), s, Len(F) + 1) = g.env
         /\ \A i \in 1..Len(F) : /\ Append(F, g)[i] = F[i]
                                /\ Own(Append(F, g), s, i) = Own(F, s, i)
<1> DEFINE n == Len(F)
           G == Append(F, g)
<1>1. n \in Nat /\ n > 0 /\ DOMAIN F = 1..n /\ F \in Seq(FrameType)
  BY PairedIs DEF Paired
<1>2. /\ G \in Seq(FrameType) /\ Len(G) = n + 1 /\ G # << >>
      /\ \A i \in 1..n : G[i] = F[i]
      /\ G[n + 1] = g
  BY <1>1, AppendIs
<1> HIDE DEF G
<1>3. \A i \in 1..n : Count(G, i) = Count(F, i)
  <2>1. \A i \in 1..n : \A j \in 1..i : F[j].shelved <=> G[j].shelved
    BY <1>1, <1>2
  <2>2. QED
    BY <2>1, CountSame
<1>4. Count(G, n + 1) = Count(F, n)
  <2>1. Count(G, n + 1) = Count(G, (n + 1) - 1) + IF G[n + 1].shelved THEN 1 ELSE 0
    BY <1>1, CountIs
  <2>2. Count(G, (n + 1) - 1) = Count(F, n) /\ Count(F, n) \in Nat
    BY <1>1, <1>3, CountIs
  <2>3. QED
    BY <1>2, <2>1, <2>2
<1>5. Paired(G, s)
  BY <1>2, <1>4 DEF Paired
<1>6. \A i \in 1..n : Own(G, s, i) = Own(F, s, i)
  BY <1>2, <1>3 DEF Own
<1>7. QED
  BY <1>2, <1>5, <1>6 DEF Own, G

(* The last frame, which has nothing on the shelf, is popped.                *)
LEMMA FramePopped ==
  ASSUME NEW F, NEW s, Paired(F, s), Len(F) > 1, ~ F[Len(F)].shelved
  PROVE  /\ Paired(SubSeq(F, 1, Len(F) - 1), s)
         /\ Len(SubSeq(F, 1, Len(F) - 1)) = Len(F) - 1
         /\ \A i \in 1..(Len(F) - 1) :
               /\ SubSeq(F, 1, Len(F) - 1)[i] = F[i]
               /\ Own(SubSeq(F, 1, Len(F) - 1), s, i) = Own(F, s, i)
<1> DEFINE n == Len(F) - 1
           G == SubSeq(F, 1, n)
<1>1. n \in Nat /\ n > 0 /\ F \in Seq(FrameType) /\ Len(F) = n + 1 /\ Len(F) \in Nat
  BY PairedIs DEF Paired
<1>2. /\ G \in Seq(FrameType) /\ Len(G) = n /\ G # << >>
      /\ \A i \in 1..n : G[i] = F[i]
  <2>1. n <= Len(F)
    BY <1>1
  <2> HIDE DEF n
  <2>2. G \in Seq(FrameType) /\ Len(G) = n /\ \A i \in 1..n : G[i] = F[i]
    BY <1>1, <2>1, PrefixIs
  <2> HIDE DEF G
  <2>3. G # << >>
    BY <1>1, <2>2
  <2>4. QED
    BY <2>2, <2>3
<1> HIDE DEF n, G
<1>3. \A i \in 1..n : Count(G, i) = Count(F, i)
  <2>1. \A i \in 1..n : \A j \in 1..i : F[j].shelved <=> G[j].shelved
    BY <1>1, <1>2
  <2>2. QED
    BY <2>1, CountSame
<1>4. Len(s) = Count(F, n)
  BY PairedIs DEF n
<1>5. Paired(G, s)
  BY <1>1, <1>2, <1>3, <1>4 DEF Paired
<1>6. QED
  BY <1>2, <1>3, <1>5 DEF Own, n, G

(***************************************************************************)
(* What is always true of a stack, a shelf, a pool and the next environment's *)
(* id.                                                                     *)
(***************************************************************************)
FrameOK(f, e, N) ==
    /\ EnvOK(e) /\ e.id = f.home /\ f.home < N
    /\ f.shelved => f.doing \in {"call", "builtin"}
    /\ f.doing = "builtin" => f.moved \in Var /\ Bound(e, f.moved)

PoolOK(F, P, N) ==
    /\ P \in Seq(EnvType)
    /\ \A k \in 1..Len(P) : /\ EnvOK(P[k]) /\ P[k].id < N
                            /\ \A i \in 1..Len(F) : P[k].id # F[i].home
    /\ \A k, l \in 1..Len(P) : P[k].id = P[l].id => k = l

StackOK(F, s, P, N) ==
    /\ Paired(F, s) /\ N \in Nat
    /\ \A i \in 1..Len(F) : FrameOK(F[i], Own(F, s, i), N)
    /\ \A i, j \in 1..Len(F) : F[i].home = F[j].home => i = j
    /\ \A i \in 2..Len(F) : F[i].outer = F[i - 1].id
    /\ PoolOK(F, P, N)

(* The environments there are, and what they may become in one step: what     *)
(* they name stays, or is new and so has a new id.                          *)
EnvsOf(F, s, P) == {Own(F, s, i) : i \in 1..Len(F)} \cup {P[k] : k \in 1..Len(P)}

Follows(A, N, f, new) ==
    \/ f.id >= N /\ Claims(f) \subseteq {NoClaim} \cup new
    \/ \E e \in A : Grows(e, f) /\ Claims(f) \subseteq Claims(e) \cup {NoClaim} \cup new

Flow(A, N, B, M, new) == N <= M /\ \A f \in B : Follows(A, N, f, new)

LEMMA EnvsAreOK ==
  ASSUME NEW F, NEW s, NEW P, NEW N, StackOK(F, s, P, N)
  PROVE  \A e \in EnvsOf(F, s, P) : EnvOK(e) /\ e.id \in Nat /\ e.id < N
<1>1. \A e \in EnvsOf(F, s, P) : EnvOK(e) /\ e.id < N
  BY DEF StackOK, PoolOK, FrameOK, EnvsOf
<1>2. QED
  BY <1>1 DEF EnvOK, EnvType

LEMMA FlowItself ==
  ASSUME NEW A, NEW N, NEW f \in A, EnvOK(f), NEW new
  PROVE  Follows(A, N, f, new)
BY BecomesItself DEF Becomes, Follows

LEMMA FlowTrans ==
  ASSUME NEW A, NEW N \in Nat, NEW B, NEW M \in Nat, NEW C, NEW O \in Nat, NEW new,
         \A e \in A : EnvOK(e), \A f \in B : EnvOK(f), \A g \in C : EnvOK(g),
         Flow(A, N, B, M, {}), Flow(B, M, C, O, new)
  PROVE  Flow(A, N, C, O, new)
<1>1. N <= M /\ M <= O /\ N <= O
  BY DEF Flow
<1>2. ASSUME NEW g \in C
      PROVE  Follows(A, N, g, new)
  <2>1. Follows(B, M, g, new) /\ g.id \in Nat
    BY DEF Flow, EnvOK, EnvType
  <2>2. CASE g.id >= M /\ Claims(g) \subseteq {NoClaim} \cup new
    BY <1>1, <2>1, <2>2 DEF Follows
  <2>3. ASSUME NEW f \in B, Grows(f, g), Claims(g) \subseteq Claims(f) \cup {NoClaim} \cup new
        PROVE  Follows(A, N, g, new)
    <3>1. Follows(A, N, f, {})
      BY DEF Flow
    <3>2. CASE f.id >= N /\ Claims(f) \subseteq {NoClaim}
      BY <2>3, <3>2 DEF Grows, Follows
    <3>3. ASSUME NEW e \in A, Grows(e, f), Claims(f) \subseteq Claims(e) \cup {NoClaim}
          PROVE  Follows(A, N, g, new)
      <4>1. Becomes(e, f, {}) /\ Becomes(f, g, new) /\ EnvOK(e)
        BY <2>3, <3>3 DEF Becomes
      <4>2. Becomes(e, g, {} \cup new)
        BY <4>1, BecomesTrans
      <4>3. QED
        BY <4>2 DEF Becomes, Follows
    <3>4. QED
      BY <3>1, <3>2, <3>3 DEF Follows
  <2>4. QED
    BY <2>1, <2>2, <2>3 DEF Follows
<1>3. QED
  BY <1>1, <1>2 DEF Flow

(* The first n frames and their environments are the same.                   *)
Same(F, s, G, t, n) == \A i \in 1..n : G[i] = F[i] /\ Own(G, t, i) = Own(F, s, i)

(* The last frame goes on as g, its environment as e.                        *)
LEMMA StackTop ==
  ASSUME NEW F, NEW s, NEW P, NEW N, StackOK(F, s, P, N),
         NEW g, NEW t, Replaces(F, s, g, t), NEW new,
         Becomes(Own(F, s, Len(F)), TopEnv(g, t), new),
         g.home = F[Len(F)].home, g.id = F[Len(F)].id, g.outer = F[Len(F)].outer,
         g.shelved => g.doing \in {"call", "builtin"},
         g.doing = "builtin" => g.moved \in Var /\ Bound(TopEnv(g, t), g.moved)
  PROVE  /\ StackOK(Replaced(F, g), t, P, N)
         /\ Flow(EnvsOf(F, s, P), N, EnvsOf(Replaced(F, g), t, P), N, new)
         /\ Len(Replaced(F, g)) = Len(F) /\ Replaced(F, g)[Len(F)] = g
         /\ Own(Replaced(F, g), t, Len(F)) = TopEnv(g, t)
         /\ Same(F, s, Replaced(F, g), t, Len(F) - 1)
<1> DEFINE n == Len(F)
           G == Replaced(F, g)
           e == TopEnv(g, t)
<1>1. Paired(F, s) /\ n \in Nat /\ n > 0
  BY PairedIs DEF StackOK
<1>2. /\ Paired(G, t) /\ Len(G) = n
      /\ \A i \in 1..n : /\ G[i] = IF i = n THEN g ELSE F[i]
                         /\ Own(G, t, i) = IF i # n THEN Own(F, s, i) ELSE e
  BY TopReplaced
<1> HIDE DEF n, G, e
<1>3. n \in 1..n
  BY <1>1
<1>4. FrameOK(F[n], Own(F, s, n), N)
  BY <1>3 DEF StackOK, n
<1>5. FrameOK(g, e, N)
  BY <1>4 DEF FrameOK, Becomes, Grows, n, e
<1>6. \A i \in 1..n : FrameOK(G[i], Own(G, t, i), N)
  BY <1>2, <1>5 DEF StackOK, n
<1>7. \A i \in 1..n : G[i].home = F[i].home /\ G[i].id = F[i].id /\ G[i].outer = F[i].outer
  BY <1>2 DEF n
<1>8. StackOK(G, t, P, N)
  <2>1. \A i, j \in 1..n : G[i].home = G[j].home => i = j
    BY <1>7 DEF StackOK, n
  <2>2. \A i \in 2..n : G[i].outer = G[i - 1].id
    <3>1. \A i \in 2..n : i \in 1..n /\ i - 1 \in 1..n
      BY <1>1
    <3>2. QED
      BY <1>7, <3>1 DEF StackOK, n
  <2>3. PoolOK(G, P, N)
    BY <1>2, <1>7 DEF StackOK, PoolOK, n
  <2>4. QED
    BY <1>2, <1>6, <2>1, <2>2, <2>3 DEF StackOK
<1>9. ASSUME NEW f \in EnvsOf(G, t, P)
      PROVE  Follows(EnvsOf(F, s, P), N, f, new)
  <2>1. CASE f = e
    <3>1. Own(F, s, n) \in EnvsOf(F, s, P)
      BY <1>3 DEF EnvsOf, n
    <3>2. QED
      BY <2>1, <3>1 DEF Becomes, Follows, n, e
  <2>2. CASE f # e
    <3>1. f \in EnvsOf(F, s, P)
      BY <1>2, <2>2 DEF EnvsOf, n
    <3>2. EnvOK(f)
      BY <3>1, EnvsAreOK
    <3>3. QED
      BY <3>1, <3>2, FlowItself
  <2>3. QED
    BY <2>1, <2>2
<1>10. N <= N
  BY DEF StackOK
<1>11. G[n] = g /\ Own(G, t, n) = e
  BY <1>2, <1>3
<1>12. Same(F, s, G, t, n - 1)
  <2>1. \A i \in 1..(n - 1) : i \in 1..n /\ i # n
    BY <1>1
  <2>2. QED
    BY <1>2, <2>1 DEF Same
<1>13. QED
  BY <1>2, <1>8, <1>9, <1>10, <1>11, <1>12 DEF Flow, n, G, e

(* A frame is entered, its environment from the pool or new.                 *)
LEMMA StackPush ==
  ASSUME NEW F, NEW s, NEW P, NEW N, StackOK(F, s, P, N),
         NEW g \in FrameType, ~ g.shelved, g.doing = "body", g.outer = F[Len(F)].id,
         NEW Q, NEW M, g.home = g.env.id,
         \/ g.env = NewEnv(N) /\ Q = P /\ M = N + 1
         \/ /\ P # << >> /\ Becomes(P[Len(P)], g.env, {})
            /\ Q = SubSeq(P, 1, Len(P) - 1) /\ M = N
  PROVE  /\ StackOK(Append(F, g), s, Q, M)
         /\ Flow(EnvsOf(F, s, P), N, EnvsOf(Append(F, g), s, Q), M, {})
         /\ Len(Append(F, g)) = Len(F) + 1 /\ Append(F, g)[Len(F) + 1] = g
         /\ Own(Append(F, g), s, Len(F) + 1) = g.env
         /\ Same(F, s, Append(F, g), s, Len(F))
<1> DEFINE n == Len(F)
           G == Append(F, g)
<1>1. /\ Paired(F, s) /\ n \in Nat /\ n > 0 /\ N \in Nat /\ PoolOK(F, P, N)
      /\ P \in Seq(EnvType) /\ Len(P) \in Nat
  BY PairedIs DEF StackOK, PoolOK
<1>2. /\ Paired(G, s) /\ Len(G) = n + 1 /\ G[n + 1] = g /\ Own(G, s, n + 1) = g.env
      /\ \A i \in 1..n : G[i] = F[i] /\ Own(G, s, i) = Own(F, s, i)
  <2> HIDE DEF StackOK, Becomes
  <2>1. Paired(F, s) /\ g \in FrameType /\ ~ g.shelved
    BY <1>1
  <2>2. QED
    BY <2>1, FramePushed, SMTT(30)
<1> HIDE DEF n, G
<1>3. \A i \in 1..n : FrameOK(F[i], Own(F, s, i), N) /\ F[i].home \in Nat /\ F[i].home < N
  <2>1. \A i \in 1..n : FrameOK(F[i], Own(F, s, i), N)
    BY DEF StackOK, n
  <2>2. QED
    BY <2>1 DEF FrameOK, EnvOK, EnvType
<1>4. N > 0
  <2>1. 1 \in 1..n
    BY <1>1
  <2>2. QED
    BY <1>1, <1>3, <2>1
<1>5. /\ M \in Nat /\ N <= M /\ EnvOK(g.env) /\ g.home = g.env.id /\ g.env.id < M
      /\ \A i \in 1..n : F[i].home # g.home
      /\ PoolOK(F, Q, M) /\ \A k \in 1..Len(Q) : Q[k].id # g.home
      /\ Follows(EnvsOf(F, s, P), N, g.env, {})
      /\ \A k \in 1..Len(Q) : Q[k] \in {P[l] : l \in 1..Len(P)}
  <2>1. CASE g.env = NewEnv(N) /\ Q = P /\ M = N + 1
    <3>1. EnvOK(g.env) /\ g.env.id = N /\ Claims(g.env) = {} /\ M \in Nat
      BY <1>1, <1>4, <2>1, NewEnvIs
    <3>2. \A k \in 1..Len(P) : EnvOK(P[k]) /\ P[k].id \in Nat /\ P[k].id < N
      BY <1>1 DEF PoolOK, EnvOK, EnvType
    <3>3. PoolOK(F, Q, M)
      <4>1. \A k \in 1..Len(P) : P[k].id < N + 1
        BY <1>1, <3>2
      <4>2. PoolOK(F, P, N + 1)
        BY <1>1, <4>1 DEF PoolOK
      <4>3. QED
        BY <2>1, <4>2
    <3>4. Follows(EnvsOf(F, s, P), N, g.env, {})
      BY <1>1, <3>1 DEF Follows
    <3>5. (\A i \in 1..n : F[i].home # g.home) /\ \A k \in 1..Len(Q) : Q[k].id # g.home
      BY <1>1, <1>3, <2>1, <3>1, <3>2
    <3>6. QED
      BY <1>1, <2>1, <3>1, <3>3, <3>4, <3>5
  <2>2. CASE P # << >> /\ Becomes(P[Len(P)], g.env, {})
             /\ Q = SubSeq(P, 1, Len(P) - 1) /\ M = N
    <3> DEFINE k == Len(P)
    <3>1. k > 0 /\ k \in 1..Len(P) /\ k - 1 \in Nat /\ k - 1 <= Len(P)
      BY <1>1, <2>2
    <3>2. Q \in Seq(EnvType) /\ Len(Q) = k - 1 /\ \A l \in 1..(k - 1) : Q[l] = P[l]
      <4>1. k - 1 \in Nat /\ k - 1 <= Len(P) /\ P \in Seq(EnvType)
        BY <1>1, <3>1
      <4> HIDE DEF k
      <4>2. /\ SubSeq(P, 1, k - 1) \in Seq(EnvType) /\ Len(SubSeq(P, 1, k - 1)) = k - 1
            /\ \A l \in 1..(k - 1) : SubSeq(P, 1, k - 1)[l] = P[l]
        BY <4>1, PrefixIs
      <4>3. QED
        BY <2>2, <4>2 DEF k
    <3>3. EnvOK(P[k]) /\ P[k].id < N /\ (\A i \in 1..n : P[k].id # F[i].home)
      BY <1>1, <3>1 DEF PoolOK, n
    <3>4. EnvOK(g.env) /\ g.env.id = P[k].id
      BY <2>2 DEF Becomes, Grows
    <3> HIDE DEF k
    <3>5. \A l \in 1..(k - 1) : l \in 1..Len(P) /\ l # k
      BY <1>1, <3>1 DEF k
    <3>6. PoolOK(F, Q, M) /\ \A l \in 1..Len(Q) : Q[l].id # g.home
      BY <1>1, <2>2, <3>1, <3>2, <3>4, <3>5 DEF PoolOK
    <3>7. P[k] \in EnvsOf(F, s, P)
      BY <3>1 DEF EnvsOf
    <3>8. Follows(EnvsOf(F, s, P), N, g.env, {})
      BY <2>2, <3>7 DEF Follows, Becomes, k
    <3>9. QED
      BY <1>1, <2>2, <3>2, <3>3, <3>4, <3>5, <3>6, <3>8
  <2>3. QED
    BY <2>1, <2>2
<1>6. ASSUME NEW i \in 1..(n + 1)
      PROVE  i = n + 1 \/ i \in 1..n
  BY <1>1
<1>7. FrameOK(g, g.env, M)
  BY <1>5 DEF FrameOK
<1>8. \A i \in 1..n : FrameOK(G[i], Own(G, s, i), M)
  <2>1. \A i \in 1..n : F[i].home < M
    BY <1>1, <1>3, <1>5
  <2>2. QED
    BY <1>2, <1>3, <2>1 DEF FrameOK
<1>9. StackOK(G, s, Q, M)
  <2>1. \A i \in 1..(n + 1) : FrameOK(G[i], Own(G, s, i), M)
    BY <1>2, <1>6, <1>7, <1>8
  <2>2. \A i, j \in 1..n : F[i].home = F[j].home => i = j
    BY DEF StackOK, n
  <2>3. ASSUME NEW i \in 1..(n + 1), NEW j \in 1..(n + 1), G[i].home = G[j].home
        PROVE  i = j
    <3>1. CASE i \in 1..n /\ j \in 1..n
      BY <1>2, <2>2, <2>3, <3>1
    <3>2. CASE i = n + 1 /\ j \in 1..n
      BY <1>2, <1>5, <2>3, <3>2
    <3>3. CASE i \in 1..n /\ j = n + 1
      BY <1>2, <1>5, <2>3, <3>3
    <3>4. QED
      BY <1>6, <3>1, <3>2, <3>3
  <2>4. \A i \in 2..(n + 1) : G[i].outer = G[i - 1].id
    <3>1. \A i \in 2..n : F[i].outer = F[i - 1].id
      BY DEF StackOK, n
    <3>2. G[n + 1].outer = G[n].id
      <4>1. n \in 1..n
        BY <1>1
      <4>2. QED
        BY <1>2, <4>1 DEF n
    <3>3. \A i \in 2..(n + 1) : \/ i = n + 1 /\ i - 1 = n
                                \/ i \in 2..n /\ i \in 1..n /\ i - 1 \in 1..n
      BY <1>1
    <3>4. QED
      BY <1>2, <3>1, <3>2, <3>3
  <2>5. PoolOK(G, Q, M)
    BY <1>2, <1>5, <1>6 DEF PoolOK, n
  <2>6. QED
    BY <1>2, <1>5, <2>1, <2>3, <2>4, <2>5 DEF StackOK
<1>10. ASSUME NEW f \in EnvsOf(G, s, Q)
       PROVE  Follows(EnvsOf(F, s, P), N, f, {})
  <2>1. CASE f = g.env
    BY <1>5, <2>1
  <2>2. CASE f # g.env
    <3>1. \/ \E i \in 1..(n + 1) : f = Own(G, s, i)
          \/ \E k \in 1..Len(Q) : f = Q[k]
      BY <1>2 DEF EnvsOf
    <3>2. f \in EnvsOf(F, s, P)
      <4>1. ASSUME NEW i \in 1..(n + 1), f = Own(G, s, i)
            PROVE  f \in EnvsOf(F, s, P)
        <5>1. i \in 1..n
          BY <1>2, <1>6, <2>2, <4>1
        <5>2. f = Own(F, s, i)
          BY <1>2, <4>1, <5>1
        <5>3. QED
          BY <5>1, <5>2 DEF EnvsOf, n
      <4>2. ASSUME NEW k \in 1..Len(Q), f = Q[k]
            PROVE  f \in EnvsOf(F, s, P)
        BY <1>5, <4>2 DEF EnvsOf
      <4>3. QED
        BY <3>1, <4>1, <4>2
    <3>3. EnvOK(f)
      BY <3>2, EnvsAreOK
    <3>4. QED
      BY <3>2, <3>3, FlowItself
  <2>3. QED
    BY <2>1, <2>2
<1>11. Same(F, s, G, s, n) /\ Own(G, s, n + 1) = g.env
  BY <1>2 DEF Same
<1>12. QED
  BY <1>2, <1>5, <1>9, <1>10, <1>11 DEF Flow, n, G

(* The last frame, which has nothing on the shelf, is left; its environment   *)
(* goes to the pool or is dropped.                                         *)
Left(F) == SubSeq(F, 1, Len(F) - 1)

LEMMA StackPop ==
  ASSUME NEW F, NEW s, NEW P, NEW N, StackOK(F, s, P, N), Len(F) > 1, ~ F[Len(F)].shelved,
         NEW Q, Q = P \/ Q = Append(P, F[Len(F)].env)
  PROVE  /\ StackOK(Left(F), s, Q, N)
         /\ Flow(EnvsOf(F, s, P), N, EnvsOf(Left(F), s, Q), N, {})
         /\ Len(Left(F)) = Len(F) - 1
         /\ \A i \in 1..(Len(F) - 1) : Left(F)[i] = F[i] /\ Own(Left(F), s, i) = Own(F, s, i)
<1> DEFINE n == Len(F)
           G == Left(F)
           e == F[n].env
<1>1. /\ Paired(F, s) /\ n \in Nat /\ n > 1 /\ N \in Nat /\ PoolOK(F, P, N)
      /\ P \in Seq(EnvType) /\ Len(P) \in Nat /\ Own(F, s, n) = e
  BY PairedIs DEF StackOK, PoolOK
<1>2. /\ Paired(G, s) /\ Len(G) = n - 1
      /\ \A i \in 1..(n - 1) : G[i] = F[i] /\ Own(G, s, i) = Own(F, s, i)
  BY <1>1, FramePopped DEF Left
<1> HIDE DEF n, G, e
<1>3. (\A i \in 1..(n - 1) : i \in 1..n /\ i # n) /\ n \in 1..n
  BY <1>1
<1>4. \A i \in 1..n : FrameOK(F[i], Own(F, s, i), N)
  BY DEF StackOK, n
<1>5. EnvOK(e) /\ e.id = F[n].home /\ e.id < N /\ e \in EnvType
  BY <1>1, <1>3, <1>4 DEF FrameOK, EnvOK
<1>6. \A i \in 1..(n - 1) : F[i].home # e.id
  BY <1>3, <1>5 DEF StackOK, n
<1>7. \A k \in 1..Len(P) : P[k].id # e.id
  BY <1>1, <1>3, <1>5 DEF PoolOK, n
<1>8. /\ \A k \in 1..Len(Q) : Q[k] = e \/ \E l \in 1..Len(P) : Q[k] = P[l]
      /\ PoolOK(G, Q, N)
  <2>1. CASE Q = P
    <3>1. PoolOK(G, P, N)
      BY <1>1, <1>2, <1>3 DEF PoolOK, n
    <3>2. QED
      BY <2>1, <3>1
  <2>2. CASE Q = Append(P, e)
    <3>1. /\ Q \in Seq(EnvType) /\ Len(Q) = Len(P) + 1
          /\ \A k \in 1..Len(P) : Q[k] = P[k]
          /\ Q[Len(P) + 1] = e
      BY <1>1, <1>5, <2>2, AppendIs
    <3> HIDE <2>2
    <3>2. \A k \in 1..Len(Q) : k \in 1..Len(P) \/ k = Len(P) + 1
      BY <1>1, <3>1
    <3>3. ASSUME NEW k \in 1..Len(Q)
          PROVE  EnvOK(Q[k]) /\ Q[k].id < N /\ \A i \in 1..Len(G) : Q[k].id # G[i].home
      <4>1. CASE k \in 1..Len(P)
        <5>1. EnvOK(P[k]) /\ P[k].id < N /\ \A i \in 1..n : P[k].id # F[i].home
          BY <1>1, <4>1 DEF PoolOK, n
        <5>2. Q[k] = P[k]
          BY <3>1, <4>1
        <5>3. QED
          BY <1>2, <1>3, <5>1, <5>2
      <4>2. CASE k = Len(P) + 1
        BY <1>2, <1>5, <1>6, <3>1, <4>2
      <4>3. QED
        BY <3>2, <4>1, <4>2
    <3>4. \A k, l \in 1..Len(P) : P[k].id = P[l].id => k = l
      BY <1>1 DEF PoolOK
    <3>5. \A k, l \in 1..Len(Q) : Q[k].id = Q[l].id => k = l
      BY <1>7, <3>1, <3>2, <3>4
    <3>6. QED
      BY <3>1, <3>2, <3>3, <3>5 DEF PoolOK
  <2>3. QED
    BY <2>1, <2>2 DEF n, e
<1>9. StackOK(G, s, Q, N)
  <2>1. \A i \in 1..(n - 1) : FrameOK(G[i], Own(G, s, i), N)
    BY <1>2, <1>3, <1>4
  <2>2. \A i, j \in 1..(n - 1) : G[i].home = G[j].home => i = j
    BY <1>2, <1>3 DEF StackOK, n
  <2>3. \A i \in 2..(n - 1) : G[i].outer = G[i - 1].id
    <3>1. \A i \in 2..(n - 1) : i \in 2..n /\ i \in 1..(n - 1) /\ i - 1 \in 1..(n - 1)
      BY <1>1
    <3>2. \A i \in 2..n : F[i].outer = F[i - 1].id
      BY DEF StackOK, n
    <3>3. QED
      BY <1>2, <3>1, <3>2
  <2>4. QED
    BY <1>1, <1>2, <1>8, <2>1, <2>2, <2>3 DEF StackOK
<1>10. ASSUME NEW f \in EnvsOf(G, s, Q)
       PROVE  Follows(EnvsOf(F, s, P), N, f, {})
  <2>1. \/ \E i \in 1..(n - 1) : f = Own(F, s, i)
        \/ \E k \in 1..Len(Q) : f = Q[k]
    BY <1>2 DEF EnvsOf
  <2>2. \/ \E i \in 1..n : f = Own(F, s, i)
        \/ \E l \in 1..Len(P) : f = P[l]
    BY <1>1, <1>3, <1>8, <2>1
  <2>3. f \in EnvsOf(F, s, P)
    BY <2>2 DEF EnvsOf, n
  <2>4. EnvOK(f)
    BY <2>3, EnvsAreOK
  <2>5. QED
    BY <2>3, <2>4, FlowItself
<1>11. QED
  BY <1>1, <1>2, <1>9, <1>10 DEF Flow, n, G

(* A store fills the placeholder wherever it is.                             *)
Fills(F, s, of, G, t) ==
    /\ t = [k \in DOMAIN s |-> Filled(s[k], of)]
    /\ G = [F EXCEPT ![Len(F)].env = Filled(F[Len(F)].env, of)]

LEMMA StackFill ==
  ASSUME NEW F, NEW s, NEW P, NEW N, StackOK(F, s, P, N), ~ F[Len(F)].shelved, NEW of,
         NEW t, NEW G, Fills(F, s, of, G, t)
  PROVE  /\ StackOK(G, t, P, N)
         /\ Flow(EnvsOf(F, s, P), N, EnvsOf(G, t, P), N, {})
         /\ Len(G) = Len(F) /\ G[Len(F)].id = F[Len(F)].id
         /\ \A i \in 1..Len(F) :
               /\ Own(G, t, i) \in {Own(F, s, i), Filled(Own(F, s, i), of)}
               /\ G[i].id = F[i].id /\ G[i].home = F[i].home /\ G[i].shelved = F[i].shelved
               /\ G[i].doing = F[i].doing /\ G[i].moved = F[i].moved
<1> DEFINE n == Len(F)
           Fill(e) == Filled(e, of)
<1>1. /\ Paired(F, s) /\ n \in Nat /\ n > 0 /\ DOMAIN F = 1..n /\ N \in Nat
      /\ Len(s) \in Nat /\ DOMAIN s = 1..Len(s) /\ s \in Seq(EnvType)
      /\ F \in Seq(FrameType)
      /\ \A i \in 1..n : /\ F[i] \in FrameType /\ F[i].shelved \in BOOLEAN
                         /\ F[i].shelved => Count(F, i) \in 1..Len(s)
      /\ Own(F, s, n) = F[n].env
  BY PairedIs DEF StackOK, Paired
<1>2. n \in 1..n
  BY <1>1
<1>3. \A i \in 1..n : FrameOK(F[i], Own(F, s, i), N)
  BY DEF StackOK, n
<1>4. \A i \in 1..n : /\ EnvOK(Own(F, s, i)) /\ Becomes(Own(F, s, i), Fill(Own(F, s, i)), {})
                      /\ \A x : Bound(Own(F, s, i), x) => Bound(Fill(Own(F, s, i)), x)
  BY <1>3, FilledBecomes DEF FrameOK
<1>5. \A e \in EnvType : Fill(e) \in EnvType
  <2> SUFFICES ASSUME NEW e \in EnvType PROVE Fill(e) \in EnvType
    OBVIOUS
  <2>1. CASE HoleOf(e, of) = {}
    BY <2>1 DEF Filled
  <2>2. CASE HoleOf(e, of) # {}
    <3> DEFINE p == CHOOSE p \in HoleOf(e, of) : TRUE
               b == [EntryAt(e, p) EXCEPT !.hole = FALSE]
    <3>1. p \in HoleOf(e, of) /\ Filled(e, of) = With(e, p, b)
      BY <2>2 DEF Filled
    <3> HIDE DEF p
    <3>2. p \in Positions(e) /\ EntryAt(e, p) \in EntryType
      BY <3>1, PositionsAre DEF HoleOf
    <3>3. b \in EntryType
      BY <3>2 DEF EntryType
    <3> HIDE DEF b
    <3>4. QED
      BY <3>1, <3>2, <3>3, WithIs
  <2>3. QED
    BY <2>1, <2>2
<1> HIDE DEF Fill
<1>6. t \in Seq(EnvType) /\ Len(t) = Len(s) /\ \A k \in 1..Len(s) : t[k] = Fill(s[k])
  <2>1. t = [k \in 1..Len(s) |-> Fill(s[k])]
    BY <1>1 DEF Fill, Fills
  <2>2. \A k \in 1..Len(s) : Fill(s[k]) \in EnvType
    BY <1>1, <1>5
  <2>3. QED
    BY <1>1, <2>1, <2>2
<1> DEFINE g == [F[n] EXCEPT !.env = Fill(F[n].env)]
<1>7. /\ g \in FrameType /\ g.env = Fill(F[n].env) /\ g.shelved = F[n].shelved
      /\ g.home = F[n].home /\ g.id = F[n].id /\ g.outer = F[n].outer
      /\ g.doing = F[n].doing /\ g.moved = F[n].moved
  <2>1. F[n] \in FrameType /\ Fill(F[n].env) \in EnvType
    BY <1>1, <1>2, <1>5 DEF FrameType
  <2>2. QED
    BY <2>1 DEF FrameType
<1>8. G = [F EXCEPT ![n] = g]
  BY DEF Fill, Fills
<1> HIDE DEF g, n
<1>9. /\ G \in Seq(FrameType) /\ Len(G) = n /\ G # << >>
      /\ \A i \in 1..n : G[i] = IF i = n THEN g ELSE F[i]
  BY <1>1, <1>7, <1>8 DEF n
<1>10. \A i \in 1..n : Count(G, i) = Count(F, i)
  <2>1. \A i \in 1..n : \A j \in 1..i : F[j].shelved <=> G[j].shelved
    BY <1>1, <1>7, <1>9
  <2>2. QED
    BY <2>1, CountSame
<1>11. Paired(G, t)
  BY <1>1, <1>2, <1>6, <1>9, <1>10 DEF Paired, n
<1>12. ASSUME NEW i \in 1..n
       PROVE  Own(G, t, i) \in {Own(F, s, i), Fill(Own(F, s, i))}
  <2>1. CASE i = n
    BY <1>1, <1>7, <1>9, <2>1 DEF Own
  <2>2. CASE i # n /\ F[i].shelved
    BY <1>1, <1>6, <1>9, <1>10, <2>2 DEF Own
  <2>3. CASE i # n /\ ~ F[i].shelved
    BY <1>9, <2>3 DEF Own
  <2>4. QED
    BY <2>1, <2>2, <2>3
<1>13. ASSUME NEW i \in 1..n
       PROVE  Becomes(Own(F, s, i), Own(G, t, i), {}) /\ FrameOK(G[i], Own(G, t, i), N)
  <2>1. /\ Becomes(Own(F, s, i), Own(G, t, i), {})
        /\ \A x : Bound(Own(F, s, i), x) => Bound(Own(G, t, i), x)
    BY <1>4, <1>12, BecomesItself DEF Fill
  <2>2. G[i].doing = F[i].doing /\ G[i].moved = F[i].moved /\ G[i].home = F[i].home
        /\ G[i].shelved = F[i].shelved
    BY <1>7, <1>9
  <2>3. QED
    BY <1>3, <2>1, <2>2 DEF FrameOK, Becomes, Grows
<1>14. \A i \in 1..n : G[i].home = F[i].home /\ G[i].id = F[i].id /\ G[i].outer = F[i].outer
  BY <1>7, <1>9
<1>15. StackOK(G, t, P, N)
  <2>1. \A i, j \in 1..n : G[i].home = G[j].home => i = j
    BY <1>14 DEF StackOK, n
  <2>2. \A i \in 2..n : G[i].outer = G[i - 1].id
    <3>1. \A i \in 2..n : i \in 1..n /\ i - 1 \in 1..n
      BY <1>1
    <3>2. QED
      BY <1>14, <3>1 DEF StackOK, n
  <2>3. PoolOK(G, P, N)
    BY <1>9, <1>14 DEF StackOK, PoolOK, n
  <2>4. QED
    BY <1>1, <1>9, <1>11, <1>13, <2>1, <2>2, <2>3 DEF StackOK
<1>16. ASSUME NEW f \in EnvsOf(G, t, P)
       PROVE  Follows(EnvsOf(F, s, P), N, f, {})
  <2>1. CASE f \in EnvsOf(F, s, P)
    BY <2>1, EnvsAreOK, FlowItself
  <2>2. CASE f \notin EnvsOf(F, s, P)
    <3>1. PICK i \in 1..n : f = Own(G, t, i)
      BY <1>9, <2>2 DEF EnvsOf
    <3>2. Own(F, s, i) \in EnvsOf(F, s, P)
      BY DEF EnvsOf, n
    <3>3. QED
      BY <1>13, <3>1, <3>2 DEF Becomes, Follows
  <2>3. QED
    BY <2>1, <2>2
<1>17. N <= N /\ Len(G) = n /\ G[n].id = F[n].id
  BY <1>1, <1>2, <1>9, <1>14
<1>18. \A i \in 1..n :
         /\ Own(G, t, i) \in {Own(F, s, i), Filled(Own(F, s, i), of)}
         /\ G[i].id = F[i].id /\ G[i].home = F[i].home /\ G[i].shelved = F[i].shelved
         /\ G[i].doing = F[i].doing /\ G[i].moved = F[i].moved
  BY <1>7, <1>9, <1>12 DEF Fill
<1>19. QED
  BY <1>15, <1>16, <1>17, <1>18 DEF Flow, n

-----------------------------------------------------------------------------
(* The steps of the program.                                                *)
Envs == EnvsOf(frames, env_shelf, env_pool)

(* The places of the running environment, and what is bound at them: all that *)
(* a step can hand out.                                                    *)
Handles == IF Top.doing = "body"
           THEN {<<Slot(Env, p), BornAt(Env, p)>> : p \in Positions(Env)} ELSE {}

StackInv == StackOK(frames, env_shelf, env_pool, next_env_id) /\ Top.id = current_frame

Counters ==
    /\ current_frame \in Nat /\ next_frame \in Nat
    /\ raised \in {"none", "throw", "early"}
    /\ births \in Nat /\ blocks \in Nat /\ lost \subseteq Nat

Moves(new) == Flow(Envs, next_env_id, Envs', next_env_id', new)

LEMMA FlowMore ==
  ASSUME NEW A, NEW N, NEW B, NEW M, NEW new, NEW more, Flow(A, N, B, M, new), new \subseteq more
  PROVE  Flow(A, N, B, M, more)
BY DEF Flow, Follows

LEMMA TopIs ==
  ASSUME StackInv
  PROVE  /\ Depth \in Nat /\ Depth > 0 /\ Depth \in 1..Depth /\ DOMAIN frames = 1..Depth
         /\ frames \in Seq(FrameType) /\ env_shelf \in Seq(EnvType) /\ env_pool \in Seq(EnvType)
         /\ next_env_id \in Nat
         /\ Top \in FrameType /\ FrameOK(Top, Own(frames, env_shelf, Depth), next_env_id)
         /\ EnvOK(Own(frames, env_shelf, Depth))
         /\ Top.doing \notin {"call", "builtin"} =>
              /\ Top.shelved = FALSE /\ Own(frames, env_shelf, Depth) = Env /\ EnvOK(Env)
              /\ Count(frames, Depth - 1) = Len(env_shelf)
<1>1. Paired(frames, env_shelf) /\ PoolOK(frames, env_pool, next_env_id) /\ next_env_id \in Nat
  BY DEF StackInv, StackOK
<1>2. /\ Depth \in Nat /\ Depth > 0 /\ DOMAIN frames = 1..Depth
      /\ frames \in Seq(FrameType) /\ env_shelf \in Seq(EnvType)
  BY <1>1, PairedIs DEF Paired, Depth
<1>3. Depth \in 1..Depth
  BY <1>2
<1>4. Top \in FrameType /\ FrameOK(Top, Own(frames, env_shelf, Depth), next_env_id)
  BY <1>2, <1>3 DEF StackInv, StackOK, Top, Depth
<1>5. Top.shelved \in BOOLEAN
  BY <1>4 DEF FrameType
<1>6. ~ Top.shelved => /\ Own(frames, env_shelf, Depth) = Env
                       /\ Count(frames, Depth - 1) = Len(env_shelf)
  BY <1>1, PairedIs DEF Depth, Top, Env
<1>7. QED
  BY <1>1, <1>2, <1>3, <1>4, <1>5, <1>6 DEF FrameOK, PoolOK

(* The running frame goes on with another environment.                       *)
LEMMA SetEnvStep ==
  ASSUME StackInv, Top.doing = "body", NEW e, NEW new, Becomes(Env, e, new), SetEnv(e),
         UNCHANGED <<envVars, current_frame>>
  PROVE  /\ StackInv' /\ Moves(new)
         /\ Depth' = Depth /\ Same(frames, env_shelf, frames', env_shelf', Depth - 1)
         /\ frames'[Depth] = [Top EXCEPT !.env = e] /\ Own(frames', env_shelf', Depth) = e
<1> DEFINE g == [Top EXCEPT !.env = e]
<1>1. e \in EnvType
  BY DEF Becomes, EnvOK
<1>2. /\ g \in FrameType /\ g.env = e /\ g.shelved = FALSE /\ g.home = Top.home /\ g.id = Top.id
      /\ g.outer = Top.outer /\ g.doing = "body"
  BY <1>1, TopIs DEF FrameType
<1>3. frames' = Replaced(frames, g)
  BY DEF SetEnv, Replaced, Top, Depth
<1> HIDE DEF g
<1>4. Replaces(frames, env_shelf, g, env_shelf)
  <2>1. Paired(frames, env_shelf)
    BY DEF StackInv, StackOK
  <2>2. Len(env_shelf) \in Nat /\ Len(env_shelf) = Count(frames, Len(frames) - 1)
    BY TopIs DEF Depth
  <2>3. QED
    BY <1>2, <2>1, <2>2, TopIs DEF Replaces
<1>5. TopEnv(g, env_shelf) = e
  BY <1>2 DEF TopEnv
<1>6. Becomes(Own(frames, env_shelf, Len(frames)), TopEnv(g, env_shelf), new)
  BY <1>5, TopIs DEF Depth
<1>7. /\ StackOK(Replaced(frames, g), env_shelf, env_pool, next_env_id)
      /\ Flow(EnvsOf(frames, env_shelf, env_pool), next_env_id,
              EnvsOf(Replaced(frames, g), env_shelf, env_pool), next_env_id, new)
      /\ Len(Replaced(frames, g)) = Len(frames) /\ Replaced(frames, g)[Len(frames)] = g
      /\ Own(Replaced(frames, g), env_shelf, Len(frames)) = TopEnv(g, env_shelf)
      /\ Same(frames, env_shelf, Replaced(frames, g), env_shelf, Len(frames) - 1)
  <2>1. StackOK(frames, env_shelf, env_pool, next_env_id)
    BY DEF StackInv
  <2>2. /\ g.home = frames[Len(frames)].home /\ g.id = frames[Len(frames)].id
        /\ g.outer = frames[Len(frames)].outer
    BY <1>2 DEF Top, Depth
  <2>3. g.doing # "builtin" /\ ~ g.shelved
    BY <1>2
  <2>4. QED
    BY <1>4, <1>6, <2>1, <2>2, <2>3, StackTop
<1>8. env_shelf' = env_shelf /\ env_pool' = env_pool /\ next_env_id' = next_env_id
      /\ current_frame' = current_frame
  BY DEF envVars
<1>9. StackInv' /\ Moves(new)
  BY <1>2, <1>3, <1>7, <1>8 DEF StackInv, Moves, Envs, Top, Depth
<1>10. QED
  BY <1>3, <1>5, <1>7, <1>8, <1>9 DEF Depth, g

(* Nothing happens to environments and frames.                              *)
LEMMA StackStands ==
  ASSUME StackInv, UNCHANGED <<frames, envVars, current_frame>>
  PROVE  StackInv' /\ Moves({})
<1>1. /\ frames' = frames /\ env_shelf' = env_shelf /\ env_pool' = env_pool
      /\ next_env_id' = next_env_id /\ current_frame' = current_frame
  BY DEF envVars
<1>2. StackInv'
  BY <1>1 DEF StackInv, Top, Depth
<1>3. \A e \in Envs : EnvOK(e)
  BY EnvsAreOK DEF StackInv, Envs
<1>4. Flow(Envs, next_env_id, Envs, next_env_id, {})
  BY <1>3, FlowItself, TopIs DEF Flow
<1>5. QED
  BY <1>1, <1>2, <1>4 DEF Moves, Envs

(* The running frame suspends itself for a call or a builtin, its environment *)
(* going to the shelf if it is needed there.                                *)
Shelved(e) == IF shelf_needed THEN Append(env_shelf, e) ELSE env_shelf

LEMMA Suspends ==
  ASSUME StackInv, Top.doing = "body", NEW e, Becomes(Env, e, {}),
         NEW doing \in {"call", "builtin"}, NEW x \in Names,
         doing = "builtin" => x \in Var /\ Bound(e, x),
         NEW F, F = Below(Suspended(e, doing, x))
  PROVE  /\ StackOK(F, Shelved(e), env_pool, next_env_id)
         /\ Flow(Envs, next_env_id, EnvsOf(F, Shelved(e), env_pool), next_env_id, {})
         /\ Len(F) = Depth /\ F[Depth].id = Top.id
         /\ Same(frames, env_shelf, F, Shelved(e), Depth - 1)
         /\ Own(F, Shelved(e), Depth) = e
         /\ F[Depth].home = Top.home /\ F[Depth].doing = doing /\ F[Depth].moved = x
         /\ F[Depth].shelved = shelf_needed
<1> DEFINE g == Suspended(e, doing, x)
           t == Shelved(e)
<1>1. e \in EnvType /\ Hollow \in EnvType
  BY DEF Becomes, EnvOK, Hollow, EnvType
<1>2. shelf_needed \in BOOLEAN
  BY DEF shelf_needed
<1>3. /\ g \in FrameType /\ g.shelved = shelf_needed /\ g.home = Top.home /\ g.id = Top.id
      /\ g.outer = Top.outer /\ g.doing = doing /\ g.moved = x
      /\ g.env = IF shelf_needed THEN Hollow ELSE e
  <2>1. Top \in FrameType
    BY TopIs
  <2>2. (IF shelf_needed THEN Hollow ELSE e) \in EnvType
    BY <1>1, <1>2
  <2>3. QED
    BY <1>2, <2>1, <2>2 DEF FrameType, Suspended
<1>4. F = Replaced(frames, g)
  BY DEF Replaced, Below, Depth
<1> HIDE DEF g
<1>5. /\ env_shelf \in Seq(EnvType) /\ Len(env_shelf) = Count(frames, Len(frames) - 1)
      /\ Len(env_shelf) \in Nat /\ DOMAIN env_shelf = 1..Len(env_shelf)
  BY TopIs DEF Depth
<1>6. /\ t \in Seq(EnvType) /\ Len(t) = Len(env_shelf) + IF shelf_needed THEN 1 ELSE 0
      /\ \A k \in 1..Len(env_shelf) : t[k] = env_shelf[k]
      /\ shelf_needed => t[Len(t)] = e
  <2>1. CASE shelf_needed
    <3>1. t = Append(env_shelf, e)
      BY <2>1 DEF Shelved
    <3> HIDE DEF t
    <3>2. QED
      BY <1>1, <1>5, <2>1, <3>1, AppendIs
  <2>2. CASE ~ shelf_needed
    BY <1>5, <2>2 DEF Shelved
  <2>3. QED
    BY <2>1, <2>2
<1> HIDE DEF t
<1>7. Replaces(frames, env_shelf, g, t)
  <2>1. Paired(frames, env_shelf)
    BY DEF StackInv, StackOK
  <2>2. QED
    BY <1>3, <1>5, <1>6, <2>1 DEF Replaces
<1>8. TopEnv(g, t) = e
  BY <1>3, <1>6 DEF TopEnv
<1>9. Becomes(Own(frames, env_shelf, Len(frames)), TopEnv(g, t), {})
  BY <1>8, TopIs DEF Depth
<1>10. /\ StackOK(Replaced(frames, g), t, env_pool, next_env_id)
       /\ Flow(EnvsOf(frames, env_shelf, env_pool), next_env_id,
               EnvsOf(Replaced(frames, g), t, env_pool), next_env_id, {})
       /\ Len(Replaced(frames, g)) = Len(frames) /\ Replaced(frames, g)[Len(frames)] = g
       /\ Own(Replaced(frames, g), t, Len(frames)) = TopEnv(g, t)
       /\ Same(frames, env_shelf, Replaced(frames, g), t, Len(frames) - 1)
  <2>1. StackOK(frames, env_shelf, env_pool, next_env_id)
    BY DEF StackInv
  <2>2. /\ g.home = frames[Len(frames)].home /\ g.id = frames[Len(frames)].id
        /\ g.outer = frames[Len(frames)].outer
    BY <1>3 DEF Top, Depth
  <2>3. /\ g.shelved => g.doing \in {"call", "builtin"}
        /\ g.doing = "builtin" => g.moved \in Var /\ Bound(TopEnv(g, t), g.moved)
    BY <1>3, <1>8
  <2>4. QED
    BY <1>7, <1>9, <2>1, <2>2, <2>3, StackTop
<1>11. QED
  BY <1>3, <1>4, <1>8, <1>10 DEF Envs, Depth, t

(* A frame is entered on top of F.                                          *)
LEMMA Enters ==
  ASSUME NEW F, NEW s, StackOK(F, s, env_pool, next_env_id), F[Len(F)].id = current_frame,
         current_frame \in Nat, next_frame \in Nat,
         NEW kind \in {"function", "closure", "turn"}, EnterFrame(F, kind)
  PROVE  /\ StackOK(frames', s, env_pool', next_env_id')
         /\ Flow(EnvsOf(F, s, env_pool), next_env_id,
                 EnvsOf(frames', s, env_pool'), next_env_id', {})
         /\ Top.id' = current_frame'
         /\ Depth' = Len(F) + 1 /\ Same(F, s, frames', s, Len(F))
         /\ frames'[Depth'].id = next_frame /\ frames'[Depth'].doing = "body"
         /\ Positions(Own(frames', s, Depth')) = {}
<1> DEFINE env == IF Pooled(kind) THEN Reset(env_pool[Len(env_pool)]) ELSE NewEnv(next_env_id)
           g == Frame(next_frame, kind, env)
<1>1. /\ frames' = Append(F, g) /\ current_frame' = next_frame
      /\ Pooled(kind) => /\ env_pool' = SubSeq(env_pool, 1, Len(env_pool) - 1)
                         /\ next_env_id' = next_env_id
      /\ ~ Pooled(kind) => next_env_id' = next_env_id + 1 /\ env_pool' = env_pool
  BY DEF EnterFrame
<1>2. PoolOK(F, env_pool, next_env_id) /\ next_env_id \in Nat /\ next_env_id > 0
  <2>1. /\ PoolOK(F, env_pool, next_env_id) /\ next_env_id \in Nat /\ Paired(F, s)
    BY DEF StackOK
  <2>2. 1 \in 1..Len(F)
    BY <2>1, PairedIs
  <2>3. EnvOK(Own(F, s, 1)) /\ Own(F, s, 1).id < next_env_id
    BY <2>2 DEF StackOK, FrameOK
  <2>4. QED
    BY <2>1, <2>3 DEF EnvOK, EnvType
<1>3. /\ \/ env = NewEnv(next_env_id) /\ ~ Pooled(kind)
         \/ /\ Pooled(kind) /\ env_pool # << >>
            /\ Becomes(env_pool[Len(env_pool)], env, {})
      /\ EnvOK(env) /\ Positions(env) = {}
  <2>1. CASE Pooled(kind)
    <3>1. env_pool # << >> /\ env_pool \in Seq(EnvType)
      BY <1>2, <2>1 DEF Pooled, PoolOK
    <3>2. Len(env_pool) \in 1..Len(env_pool)
      BY <3>1
    <3>3. EnvOK(env_pool[Len(env_pool)])
      BY <1>2, <3>2 DEF PoolOK
    <3>4. Len(env_pool[Len(env_pool)].scopes) \in 1..Len(env_pool[Len(env_pool)].scopes)
      BY <3>3, PositionsAre DEF EnvOK
    <3>5. Becomes(env_pool[Len(env_pool)], Reset(env_pool[Len(env_pool)]), {})
      BY <3>3, <3>4, PushScopeBecomes DEF Stays
    <3>6. Positions(Reset(env_pool[Len(env_pool)])) = {}
      BY <3>3, ResetIs DEF EnvOK
    <3>7. QED
      BY <2>1, <3>1, <3>5, <3>6 DEF Becomes
  <2>2. CASE ~ Pooled(kind)
    BY <1>2, <2>2, NewEnvIs
  <2>3. QED
    BY <2>1, <2>2
<1> HIDE DEF env
<1>4. /\ g \in FrameType /\ ~ g.shelved /\ g.doing = "body" /\ g.outer = current_frame
      /\ g.env = env /\ g.home = env.id /\ g.id = next_frame
  BY <1>3 DEF Frame, FrameType, Names, EnvOK, EnvType
<1> HIDE DEF g
<1>5. /\ StackOK(Append(F, g), s, env_pool', next_env_id')
      /\ Flow(EnvsOf(F, s, env_pool), next_env_id,
              EnvsOf(Append(F, g), s, env_pool'), next_env_id', {})
      /\ Len(Append(F, g)) = Len(F) + 1 /\ Append(F, g)[Len(F) + 1] = g
      /\ Own(Append(F, g), s, Len(F) + 1) = g.env
      /\ Same(F, s, Append(F, g), s, Len(F))
  <2>1. \/ g.env = NewEnv(next_env_id) /\ env_pool' = env_pool /\ next_env_id' = next_env_id + 1
        \/ /\ env_pool # << >> /\ Becomes(env_pool[Len(env_pool)], g.env, {})
           /\ env_pool' = SubSeq(env_pool, 1, Len(env_pool) - 1) /\ next_env_id' = next_env_id
    BY <1>1, <1>3, <1>4
  <2>2. /\ g.outer = F[Len(F)].id /\ g.home = g.env.id
        /\ g \in FrameType /\ ~ g.shelved /\ g.doing = "body"
    BY <1>4
  <2>3. QED
    BY <2>1, <2>2, StackPush, SMTT(30)
<1>6. QED
  BY <1>1, <1>3, <1>4, <1>5 DEF Top, Depth

(* The last frame of F, which was suspended, goes on with e for what it left. *)
Woken(f, e) == [Resumed(f) EXCEPT !.env = e]
Wakes(F, e) == Becomes(KeptEnv(F[Len(F)]), e, {}) /\ Unshelve(F[Len(F)])

LEMMA Resumes ==
  ASSUME NEW F, NEW P, NEW N, StackOK(F, env_shelf, P, N), NEW e, Wakes(F, e),
         NEW g, g = Woken(F[Len(F)], e)
  PROVE  /\ StackOK(Replaced(F, g), env_shelf', P, N)
         /\ Flow(EnvsOf(F, env_shelf, P), N, EnvsOf(Replaced(F, g), env_shelf', P), N, {})
         /\ Len(Replaced(F, g)) = Len(F) /\ Replaced(F, g)[Len(F)] = g
         /\ g.id = F[Len(F)].id
         /\ Same(F, env_shelf, Replaced(F, g), env_shelf', Len(F) - 1)
         /\ Own(Replaced(F, g), env_shelf', Len(F)) = e
         /\ g.home = F[Len(F)].home /\ g.doing = "body"
<1> DEFINE f == F[Len(F)]
<1>0. Becomes(KeptEnv(f), e, {}) /\ Unshelve(f)
  BY DEF Wakes
<1>1. /\ Paired(F, env_shelf) /\ Len(F) \in 1..Len(F) /\ env_shelf \in Seq(EnvType)
      /\ Len(env_shelf) \in Nat
      /\ f \in FrameType /\ f.shelved \in BOOLEAN
      /\ f.shelved => /\ Own(F, env_shelf, Len(F)) = env_shelf[Len(env_shelf)]
                      /\ Len(env_shelf) > 0 /\ Count(F, Len(F) - 1) = Len(env_shelf) - 1
      /\ ~ f.shelved => /\ Own(F, env_shelf, Len(F)) = f.env
                        /\ Count(F, Len(F) - 1) = Len(env_shelf)
  <2>1. Paired(F, env_shelf)
    BY DEF StackOK
  <2>2. Len(F) \in 1..Len(F)
    BY <2>1, PairedIs
  <2>3. QED
    BY <2>1, <2>2, PairedIs DEF Paired
<1>2. Own(F, env_shelf, Len(F)) = KeptEnv(f)
  BY <1>1 DEF KeptEnv
<1>3. e \in EnvType /\ KeptEnv(f) \in EnvType
  <2>1. Own(F, env_shelf, Len(F)) \in EnvType
    BY <1>1, PairedIs
  <2>2. QED
    BY <1>0, <1>2, <2>1 DEF Becomes, EnvOK
<1> HIDE DEF f
<1>4. /\ g \in FrameType /\ g.env = e /\ g.shelved = FALSE /\ g.doing = "body"
      /\ g.home = f.home /\ g.id = f.id /\ g.outer = f.outer
  <2>1. /\ Resumed(f) \in FrameType /\ Resumed(f).shelved = FALSE /\ Resumed(f).doing = "body"
        /\ Resumed(f).home = f.home /\ Resumed(f).id = f.id /\ Resumed(f).outer = f.outer
    BY <1>1, <1>3 DEF Resumed, FrameType, Names
  <2>2. QED
    BY <1>3, <2>1 DEF FrameType, Woken, f
<1>5. /\ env_shelf' \in Seq(EnvType) /\ Len(env_shelf') = Count(F, Len(F) - 1)
      /\ \A k \in 1..Count(F, Len(F) - 1) : env_shelf'[k] = env_shelf[k]
  <2>1. CASE f.shelved
    <3> DEFINE n == Len(env_shelf) - 1
    <3>1. n \in Nat /\ n <= Len(env_shelf) /\ n = Count(F, Len(F) - 1)
      BY <1>1, <2>1
    <3>2. env_shelf' = SubSeq(env_shelf, 1, n)
      BY <1>0, <2>1 DEF Unshelve
    <3> HIDE DEF n
    <3>3. QED
      BY <1>1, <3>1, <3>2, PrefixIs
  <2>2. CASE ~ f.shelved
    BY <1>0, <1>1, <2>2 DEF Unshelve
  <2>3. QED
    BY <2>1, <2>2
<1>6. Replaces(F, env_shelf, g, env_shelf') /\ TopEnv(g, env_shelf') = e
  <2>1. Count(F, Len(F) - 1) \in Nat
    BY <1>1
  <2>2. QED
    BY <1>1, <1>4, <1>5, <2>1 DEF Replaces, TopEnv
<1>7. Becomes(Own(F, env_shelf, Len(F)), TopEnv(g, env_shelf'), {})
  BY <1>0, <1>2, <1>6
<1>8. /\ g.home = F[Len(F)].home /\ g.id = F[Len(F)].id /\ g.outer = F[Len(F)].outer
      /\ ~ g.shelved /\ g.doing # "builtin" /\ g.doing = "body"
  BY <1>4 DEF f
<1>9. QED
  BY <1>4, <1>6, <1>7, <1>8, StackTop

LEMMA LastOfLeft ==
  ASSUME NEW S, NEW F \in Seq(S), Len(F) > 1, NEW x \in S
  PROVE  /\ Append(SubSeq(F, 1, Len(F) - 2), x) = Replaced(Left(F), x)
         /\ x = F[Len(F) - 1] => Append(SubSeq(F, 1, Len(F) - 2), x) = Left(F)
<1> DEFINE n == Len(F) - 1
           A == SubSeq(F, 1, n - 1)
           B == SubSeq(F, 1, n)
           C == Append(A, x)
<1>1. n \in Nat /\ n > 0 /\ n - 1 \in Nat /\ n <= Len(F) /\ n - 1 <= Len(F) /\ n - 1 = Len(F) - 2
  OBVIOUS
<1> HIDE DEF n
<1>2. /\ A \in Seq(S) /\ Len(A) = n - 1 /\ \A i \in 1..(n - 1) : A[i] = F[i]
      /\ B \in Seq(S) /\ Len(B) = n /\ \A i \in 1..n : B[i] = F[i]
  BY <1>1, PrefixIs
<1> HIDE DEF A, B
<1>3. /\ C \in Seq(S) /\ Len(C) = n /\ \A i \in 1..(n - 1) : C[i] = F[i]
      /\ C[n] = x
  <2>1. /\ C \in Seq(S) /\ Len(C) = Len(A) + 1 /\ DOMAIN A = 1..Len(A)
        /\ (\A k \in DOMAIN A : C[k] = A[k]) /\ C[Len(A) + 1] = x
    BY <1>2, AppendIs
  <2>2. Len(A) + 1 = n /\ DOMAIN A = 1..(n - 1)
    BY <1>1, <1>2, <2>1
  <2> HIDE DEF C
  <2>3. \A i \in 1..(n - 1) : C[i] = F[i]
    BY <1>2, <2>1, <2>2
  <2>4. QED
    BY <2>1, <2>2, <2>3
<1> HIDE DEF C
<1>4. \A i \in 1..n : i \in 1..(n - 1) \/ i = n
  BY <1>1
<1>5. /\ [B EXCEPT ![n] = x] \in Seq(S) /\ Len([B EXCEPT ![n] = x]) = n
      /\ \A i \in 1..n : [B EXCEPT ![n] = x][i] = IF i = n THEN x ELSE F[i]
  BY <1>1, <1>2
<1>6. C = [B EXCEPT ![n] = x]
  <2>1. \A i \in 1..n : C[i] = [B EXCEPT ![n] = x][i]
    BY <1>3, <1>4, <1>5
  <2>2. QED
    BY <1>3, <1>5, <2>1, SeqEqual
<1>7. x = F[n] => C = B
  <2>1. x = F[n] => \A i \in 1..n : C[i] = B[i]
    BY <1>2, <1>3, <1>4
  <2>2. QED
    BY <1>2, <1>3, <2>1, SeqEqual
<1>8. B = Left(F) /\ C = Append(SubSeq(F, 1, Len(F) - 2), x) /\ F[n] = F[Len(F) - 1]
  BY <1>1 DEF B, C, A, n, Left
<1>9. [B EXCEPT ![n] = x] = Replaced(B, x)
  BY <1>2 DEF Replaced
<1>10. QED
  BY <1>6, <1>7, <1>8, <1>9

LEMMA LeaveStep ==
  ASSUME StackInv, Depth > 1, Top.doing = "body", NEW wakes \in BOOLEAN, Leave(wakes),
         env_pool' = env_pool \/ env_pool' = Append(env_pool, Env),
         next_env_id' = next_env_id
  PROVE  /\ StackInv' /\ Moves({})
         /\ Depth' = Depth - 1 /\ Same(frames, env_shelf, frames', env_shelf', Depth - 2)
         /\ Own(frames', env_shelf', Depth - 1) = Own(frames, env_shelf, Depth - 1)
         /\ frames'[Depth - 1].id = Caller.id /\ frames'[Depth - 1].home = Caller.home
         /\ IF wakes THEN frames'[Depth - 1].doing = "body" ELSE frames'[Depth - 1] = Caller
<1> DEFINE F == Left(frames)
           n == Depth - 1
           g == Woken(Caller, KeptEnv(Caller))
<1>1. /\ n \in Nat /\ n > 0 /\ n \in 1..n /\ n \in 1..Depth /\ Depth \in 2..Depth
      /\ frames \in Seq(FrameType) /\ ~ Top.shelved
  <2>1. Depth \in Nat
    BY TopIs
  <2>2. n \in Nat /\ n > 0 /\ n \in 1..n /\ n \in 1..Depth /\ Depth \in 2..Depth
    BY <2>1
  <2>3. frames \in Seq(FrameType) /\ Top.shelved = FALSE
    BY TopIs
  <2>4. QED
    BY <2>2, <2>3
<1>2. /\ StackOK(F, env_shelf, env_pool', next_env_id)
      /\ Flow(Envs, next_env_id, EnvsOf(F, env_shelf, env_pool'), next_env_id, {})
      /\ Len(F) = n
      /\ \A i \in 1..n : F[i] = frames[i] /\ Own(F, env_shelf, i) = Own(frames, env_shelf, i)
  <2>1. /\ StackOK(frames, env_shelf, env_pool, next_env_id) /\ Len(frames) > 1
        /\ ~ frames[Len(frames)].shelved
        /\ env_pool' = env_pool \/ env_pool' = Append(env_pool, frames[Len(frames)].env)
    BY <1>1 DEF StackInv, Depth, Top, Env
  <2>2. /\ StackOK(F, env_shelf, env_pool', next_env_id)
        /\ Flow(EnvsOf(frames, env_shelf, env_pool), next_env_id,
                EnvsOf(F, env_shelf, env_pool'), next_env_id, {})
        /\ Len(F) = Len(frames) - 1
        /\ \A i \in 1..(Len(frames) - 1) :
              F[i] = frames[i] /\ Own(F, env_shelf, i) = Own(frames, env_shelf, i)
    BY <2>1, StackPop
  <2>3. QED
    BY <2>2 DEF Envs, Depth
<1>3. Caller \in FrameType /\ F[Len(F)] = Caller
  BY <1>1, <1>2 DEF Caller, Depth
<1>4. current_frame' = Caller.id
  <2>1. frames[Depth].outer = frames[Depth - 1].id
    BY <1>1 DEF StackInv, StackOK, Depth
  <2>2. QED
    BY <2>1 DEF Leave, ExitFrame, Top, Caller
<1>5. CASE ~ wakes
  <2>1. frames' = F /\ env_shelf' = env_shelf
    <3>1. frames' = Append(SubSeq(frames, 1, Depth - 2), Caller) /\ env_shelf' = env_shelf
      BY <1>5 DEF Leave
    <3>2. Append(SubSeq(frames, 1, Len(frames) - 2), Caller) = F
      BY <1>1, <1>3, LastOfLeft DEF Caller, Depth
    <3>3. QED
      BY <3>1, <3>2 DEF Depth
  <2>2. StackInv' /\ Moves({})
    BY <1>2, <1>3, <1>4, <2>1 DEF StackInv, Moves, Envs, Top, Depth
  <2>3. \A i \in 1..(Depth - 2) : i \in 1..n
    BY <1>1
  <2>4. QED
    BY <1>1, <1>2, <1>3, <1>5, <2>1, <2>2, <2>3 DEF Same, Depth
<1>6. CASE wakes
  <2>1. /\ frames' = Append(SubSeq(frames, 1, Depth - 2), Resumed(Caller)) /\ Unshelve(Caller)
    BY <1>6 DEF Leave
  <2>2. Own(F, env_shelf, n) = KeptEnv(Caller) /\ EnvOK(KeptEnv(Caller))
    <3>1. Paired(F, env_shelf) /\ FrameOK(F[n], Own(F, env_shelf, n), next_env_id)
      BY <1>1, <1>2 DEF StackOK
    <3>2. /\ F[Len(F)].shelved \in BOOLEAN
          /\ F[Len(F)].shelved => Own(F, env_shelf, Len(F)) = env_shelf[Len(env_shelf)]
          /\ ~ F[Len(F)].shelved => Own(F, env_shelf, Len(F)) = F[Len(F)].env
      <4>1. Len(F) \in 1..Len(F)
        BY <1>1, <1>2
      <4>2. QED
        BY <3>1, <4>1, PairedIs
    <3>3. Own(F, env_shelf, n) = KeptEnv(Caller)
      BY <1>2, <1>3, <3>2 DEF KeptEnv
    <3>4. QED
      BY <3>1, <3>3 DEF FrameOK
  <2>3. Resumed(Caller) = g /\ Resumed(Caller) \in FrameType
    <3>1. KeptEnv(Caller) \in EnvType
      BY <2>2 DEF EnvOK
    <3>2. /\ Resumed(Caller) \in FrameType /\ Resumed(Caller).env = KeptEnv(Caller)
      BY <1>3, <3>1 DEF Resumed, FrameType, Names
    <3>3. [Resumed(Caller) EXCEPT !.env = KeptEnv(Caller)] = Resumed(Caller)
      BY <3>2 DEF FrameType
    <3>4. QED
      BY <3>2, <3>3 DEF Woken
  <2> HIDE DEF g
  <2>4. frames' = Replaced(F, g)
    <3>1. Append(SubSeq(frames, 1, Len(frames) - 2), g) = Replaced(F, g)
      BY <1>1, <2>3, LastOfLeft DEF Depth
    <3>2. QED
      BY <2>1, <2>3, <3>1 DEF Depth
  <2>5. Wakes(F, KeptEnv(Caller))
    BY <1>3, <2>1, <2>2, BecomesItself DEF Wakes
  <2>6. g = Woken(F[Len(F)], KeptEnv(Caller))
    BY <1>3 DEF g
  <2> HIDE DEF F
  <2>7. /\ StackOK(Replaced(F, g), env_shelf', env_pool', next_env_id)
        /\ Flow(EnvsOf(F, env_shelf, env_pool'), next_env_id,
                EnvsOf(Replaced(F, g), env_shelf', env_pool'), next_env_id, {})
        /\ Len(Replaced(F, g)) = Len(F) /\ Replaced(F, g)[Len(F)] = g
        /\ g.id = F[Len(F)].id
        /\ Same(F, env_shelf, Replaced(F, g), env_shelf', Len(F) - 1)
        /\ Own(Replaced(F, g), env_shelf', Len(F)) = KeptEnv(Caller)
        /\ g.home = F[Len(F)].home /\ g.doing = "body"
    BY <1>2, <2>5, <2>6, Resumes
  <2>8. Moves({})
    <3>1. /\ \A e \in Envs : EnvOK(e)
          /\ \A e \in EnvsOf(F, env_shelf, env_pool') : EnvOK(e)
          /\ \A e \in EnvsOf(Replaced(F, g), env_shelf', env_pool') : EnvOK(e)
      BY <1>2, <2>7, EnvsAreOK DEF StackInv, Envs
    <3>2. Flow(Envs, next_env_id, EnvsOf(Replaced(F, g), env_shelf', env_pool'), next_env_id, {})
      BY <1>2, <2>7, <3>1, FlowTrans, TopIs
    <3>3. QED
      BY <2>4, <3>2 DEF Moves, Envs
  <2>9. StackInv' /\ Moves({})
    BY <1>2, <1>3, <1>4, <2>4, <2>7, <2>8 DEF StackInv, Top, Depth
  <2>10. Same(frames, env_shelf, frames', env_shelf', Depth - 2)
    <3>1. /\ \A i \in 1..(Depth - 2) : i \in 1..n /\ i \in 1..(Len(F) - 1)
      BY <1>1, <1>2
    <3>2. QED
      BY <1>2, <2>4, <2>7, <3>1 DEF Same
  <2>11. QED
    BY <1>2, <1>3, <1>6, <2>2, <2>4, <2>7, <2>9, <2>10 DEF Depth
<1>7. QED
  BY <1>5, <1>6

LEMMA SlotIs ==
  ASSUME NEW e \in EnvType, NEW p \in Positions(e)
  PROVE  Slot(e, p) \in SlotType /\ BornAt(e, p) \in Nat /\ Slot(e, p).env = e.id
<1>1. /\ p[1] \in DOMAIN e.scopes /\ p[2] \in DOMAIN e.scopes[p[1]].entries
      /\ e.scopes[p[1]] \in ScopeType /\ EntryAt(e, p) \in EntryType
  BY PositionsAre
<1>2. p[2] \in Nat /\ e.scopes[p[1]].id \in Nat /\ e.id \in Nat
  <2>1. DOMAIN e.scopes[p[1]].entries = 1..Len(e.scopes[p[1]].entries)
    BY <1>1, PositionsAre
  <2>2. QED
    BY <1>1, <2>1 DEF ScopeType, EnvType
<1>3. QED
  BY <1>1, <1>2 DEF Slot, SlotType, BornAt, EntryType

(* The statements that change the running environment only.                  *)
LEMMA Statements ==
  ASSUME StackInv, Counters, Top.doing = "body"
  PROVE  /\ \A x \in Var : Defines(x, NoArena) =>
               \E e, more : /\ SetEnv(e) /\ Becomes(Env, e, {})
                            /\ Inherits(Env, e, more) /\ Fresh(more)
         /\ \A x \in Var : DeclareArena(x) =>
               \E e, new, more : /\ SetEnv(e) /\ Becomes(Env, e, new) /\ new \subseteq Handles
                                 /\ Inherits(Env, e, more) /\ Fresh(more)
         /\ \A x \in Var : Assign(x) => \E e : SetEnv(e) /\ Stays(Env, e)
         /\ OpenScope => \E e : SetEnv(e) /\ Stays(Env, e)
         /\ CloseScope => \E e : SetEnv(e) /\ Stays(Env, e)
         /\ ArenaAlloc => \E e : SetEnv(e) /\ Stays(Env, e)
         /\ \A depth \in 1..Len(Env.scopes) - 1 : Catch(depth) =>
               \E e : SetEnv(e) /\ Stays(Env, e)
<1>1. /\ EnvOK(Env) /\ Env \in EnvType /\ births \in Nat /\ Len(Env.scopes) \in Nat
      /\ Len(Env.scopes) \in 1..Len(Env.scopes)
  <2>1. EnvOK(Env)
    BY TopIs
  <2>2. Env \in EnvType /\ Len(Env.scopes) > 0
    BY <2>1 DEF EnvOK
  <2>3. Len(Env.scopes) \in Nat
    BY <2>2, PositionsAre
  <2>4. QED
    BY <2>1, <2>2, <2>3 DEF Counters
<1>2. ASSUME NEW x \in Var, Defines(x, NoArena)
      PROVE  \E e, more : /\ SetEnv(e) /\ Becomes(Env, e, {})
                          /\ Inherits(Env, e, more) /\ Fresh(more)
  <2>1. /\ NoArena \in ArenaType /\ NoArena.buffer.env = 0 /\ x \in Names
        /\ <<NoArena.buffer, NoArena.born>> = NoClaim
    BY DEF NoArena, ArenaType, NoSlot, SlotType, Names, NoClaim
  <2>2. Becomes(Env, Define(Env, x, NoArena), {NoClaim})
    BY <1>1, <2>1, DefineBecomes
  <2>3. Becomes(Env, Define(Env, x, NoArena), {})
    BY <2>2 DEF Becomes
  <2>4. \E more : Inherits(Env, Define(Env, x, NoArena), more) /\ Fresh(more)
    <3>1. IF Innermost(Env, x) = {}
          THEN \E slot : Inherits(Env, Define(Env, x, NoArena), {<<slot, births + 1>>})
          ELSE Inherits(Env, Define(Env, x, NoArena), {})
      BY <1>1, <2>1, DefineBecomes
    <3>2. QED
      BY <1>2, <3>1 DEF Defines, Fresh
  <2>5. QED
    BY <1>2, <2>3, <2>4 DEF Defines
<1>3. ASSUME NEW x \in Var, DeclareArena(x)
      PROVE  \E e, new, more : /\ SetEnv(e) /\ Becomes(Env, e, new) /\ new \subseteq Handles
                               /\ Inherits(Env, e, more) /\ Fresh(more)
  <2> DEFINE p == Nearest(Env, x)
             state == [buffer |-> Slot(Env, p), name |-> x, born |-> BornAt(Env, p), cursor |-> 0]
  <2>1. SetEnv(Define(Env, arena_key, state)) /\ Bound(Env, x)
    BY <1>3 DEF DeclareArena, Defines
  <2>2. p \in Positions(Env)
    BY <1>1, <2>1, NearestIsBound
  <2> HIDE DEF p
  <2>3. /\ state \in ArenaType /\ state.name \in Var /\ arena_key \in Names
        /\ state.buffer = Slot(Env, p) /\ state.born = BornAt(Env, p)
    BY <1>1, <2>2, SlotIs DEF ArenaType, Names
  <2> HIDE DEF state
  <2>4. Becomes(Env, Define(Env, arena_key, state), {<<state.buffer, state.born>>})
    BY <1>1, <2>3, DefineBecomes
  <2>5. <<state.buffer, state.born>> \in Handles
    BY <2>2, <2>3 DEF Handles
  <2>6. \E more : Inherits(Env, Define(Env, arena_key, state), more) /\ Fresh(more)
    <3>1. IF Innermost(Env, arena_key) = {}
          THEN \E slot : Inherits(Env, Define(Env, arena_key, state), {<<slot, births + 1>>})
          ELSE Inherits(Env, Define(Env, arena_key, state), {})
      BY <1>1, <2>3, DefineBecomes
    <3>2. QED
      BY <1>3, <3>1 DEF DeclareArena, Defines, Fresh
  <2>7. QED
    BY <2>1, <2>4, <2>5, <2>6 DEF state, p
<1>4. ASSUME NEW x \in Var, Assign(x)
      PROVE  \E e : SetEnv(e) /\ Stays(Env, e)
  <2>1. Bound(Env, x) /\ SetEnv(Put(Env, x, FALSE))
    BY <1>4 DEF Assign
  <2>2. QED
    BY <1>1, <2>1, PutBecomes
<1>5. ASSUME OpenScope
      PROVE  \E e : SetEnv(e) /\ Stays(Env, e)
  BY <1>1, <1>5, PushScopeBecomes DEF OpenScope
<1>6. ASSUME CloseScope
      PROVE  \E e : SetEnv(e) /\ Stays(Env, e)
  <2>1. SetEnv(PopScope(Env)) /\ Len(Env.scopes) > 1
    BY <1>6 DEF CloseScope
  <2>2. Len(Env.scopes) - 1 \in 1..Len(Env.scopes)
    BY <1>1, <2>1
  <2>3. PopScope(Env) = [Env EXCEPT !.scopes = SubSeq(@, 1, Len(Env.scopes) - 1)]
    BY DEF PopScope
  <2>4. QED
    BY <1>1, <2>1, <2>2, <2>3, PushScopeBecomes
<1>7. ASSUME ArenaAlloc
      PROVE  \E e : SetEnv(e) /\ Stays(Env, e)
  <2> DEFINE p == Nearest(Env, arena_key)
             a == EntryAt(Env, p)
             b == [a EXCEPT !.arena.cursor = @ + 1]
  <2>1. Bound(Env, arena_key) /\ SetEnv(With(Env, p, b))
    BY <1>7 DEF ArenaAlloc
  <2>2. p \in Positions(Env) /\ a \in EntryType /\ ArenaNamed(a)
    BY <1>1, <2>1, NearestIsBound, PositionsAre DEF EnvOK
  <2> HIDE DEF p
  <2>3. /\ b \in EntryType /\ b.born = a.born /\ b.name = a.name /\ b.hole = a.hole
        /\ b.arena.buffer = a.arena.buffer /\ b.arena.born = a.arena.born
        /\ b.arena.name = a.arena.name
    <3>1. /\ a.arena \in ArenaType /\ b = [a EXCEPT !.arena = [a.arena EXCEPT !.cursor = @ + 1]]
      BY <2>2 DEF EntryType
    <3> DEFINE c == [a.arena EXCEPT !.cursor = @ + 1]
    <3>2. /\ c \in ArenaType /\ c.buffer = a.arena.buffer /\ c.born = a.arena.born
          /\ c.name = a.arena.name
      BY <3>1 DEF ArenaType
    <3> HIDE DEF c
    <3>3. b = [a EXCEPT !.arena = c]
      BY <3>1 DEF c
    <3> HIDE DEF b
    <3>4. QED
      BY <2>2, <3>2, <3>3 DEF EntryType
  <2>4. ArenaNamed(b) /\ Claim(b) = Claim(a) /\ a.born = BornAt(Env, p)
    BY <2>2, <2>3 DEF ArenaNamed, Claim, BornAt
  <2> HIDE DEF b
  <2>5. Becomes(Env, With(Env, p, b), {})
    BY <1>1, <2>2, <2>3, <2>4, WithKeeps
  <2>6. Inherits(Env, With(Env, p, b), {})
    BY <1>1, <2>2, <2>3, <2>4, WithSame
  <2>7. QED
    BY <2>1, <2>5, <2>6 DEF Stays
<1>8. ASSUME NEW depth \in 1..Len(Env.scopes) - 1, Catch(depth)
      PROVE  \E e : SetEnv(e) /\ Stays(Env, e)
  <2>1. depth \in 1..Len(Env.scopes)
    BY <1>1
  <2>2. QED
    BY <1>1, <1>8, <2>1, PushScopeBecomes DEF Catch
<1>9. QED
  BY <1>2, <1>3, <1>4, <1>5, <1>6, <1>7, <1>8

LEMMA CallStep ==
  ASSUME StackInv, Counters, NEW kind \in {"function", "closure"}, Call(kind)
  PROVE  StackInv' /\ Moves({})
<1> DEFINE F == Below(Suspended(Env, "call", arena_key))
           s == Shelved(Env)
<1>1. Top.doing = "body" /\ env_shelf' = s /\ EnterFrame(F, kind)
  BY DEF Call, Runs, Shelve, Shelved
<1>2. Becomes(Env, Env, {}) /\ arena_key \in Names
  BY <1>1, TopIs, BecomesItself DEF Names
<1>3. /\ StackOK(F, s, env_pool, next_env_id)
      /\ Flow(Envs, next_env_id, EnvsOf(F, s, env_pool), next_env_id, {})
      /\ Len(F) = Depth /\ F[Depth].id = Top.id
  BY <1>1, <1>2, Suspends
<1>4. F[Len(F)].id = current_frame
  BY <1>3 DEF StackInv
<1> HIDE DEF F, s
<1>5. /\ StackOK(frames', s, env_pool', next_env_id')
      /\ Flow(EnvsOf(F, s, env_pool), next_env_id, EnvsOf(frames', s, env_pool'), next_env_id', {})
      /\ Top.id' = current_frame'
  BY <1>1, <1>3, <1>4, Enters DEF Counters
<1>6. Flow(Envs, next_env_id, EnvsOf(frames', s, env_pool'), next_env_id', {})
  <2>1. /\ \A e \in Envs : EnvOK(e)
        /\ \A e \in EnvsOf(F, s, env_pool) : EnvOK(e)
        /\ \A e \in EnvsOf(frames', s, env_pool') : EnvOK(e)
    BY <1>3, <1>5, EnvsAreOK DEF StackInv, Envs
  <2>2. next_env_id \in Nat /\ next_env_id' \in Nat
    BY <1>3, <1>5 DEF StackOK
  <2>3. QED
    BY <1>3, <1>5, <2>1, <2>2, FlowTrans
<1>7. QED
  BY <1>1, <1>5, <1>6 DEF StackInv, Moves, Envs

LEMMA BuiltinStep ==
  ASSUME StackInv, Counters, NEW x \in Var, StartBuiltin(x)
  PROVE  StackInv' /\ Moves({})
<1> DEFINE e == Put(Env, x, TRUE)
           F == Below(Suspended(e, "builtin", x))
           s == Shelved(e)
<1>1. /\ Top.doing = "body" /\ Bound(Env, x) /\ env_shelf' = s /\ frames' = F
      /\ env_pool' = env_pool /\ next_env_id' = next_env_id /\ current_frame' = current_frame
  BY DEF StartBuiltin, Runs, Shelve, Shelved, rawVars
<1>2. Becomes(Env, e, {}) /\ Bound(e, x) /\ x \in Names
  BY <1>1, TopIs, PutBecomes DEF Names
<1> HIDE DEF e
<1>3. /\ StackOK(F, s, env_pool, next_env_id)
      /\ Flow(Envs, next_env_id, EnvsOf(F, s, env_pool), next_env_id, {})
      /\ Len(F) = Depth /\ F[Depth].id = Top.id
  BY <1>1, <1>2, Suspends
<1> HIDE DEF F, s
<1>4. QED
  BY <1>1, <1>3 DEF StackInv, Moves, Envs, Top, Depth

LEMMA CallbackStep ==
  ASSUME StackInv, Counters, NEW kind \in {"function", "closure"}, Callback(kind)
  PROVE  StackInv' /\ Moves({})
<1>1. /\ EnterFrame(frames, kind) /\ env_shelf' = env_shelf
      /\ StackOK(frames, env_shelf, env_pool, next_env_id)
      /\ frames[Len(frames)].id = current_frame
  BY DEF Callback, StackInv, Top, Depth
<1>2. /\ StackOK(frames', env_shelf, env_pool', next_env_id')
      /\ Flow(EnvsOf(frames, env_shelf, env_pool), next_env_id,
              EnvsOf(frames', env_shelf, env_pool'), next_env_id', {})
      /\ Top.id' = current_frame'
  BY <1>1, Enters DEF Counters
<1>3. QED
  BY <1>1, <1>2 DEF StackInv, Moves, Envs

(* The running frame waits for a reply.                                     *)
LEMMA Awaits ==
  ASSUME StackInv, Top.doing \in {"body", "await"},
         NEW F, F = Below([Top EXCEPT !.doing = "await"])
  PROVE  /\ StackOK(F, env_shelf, env_pool, next_env_id)
         /\ Flow(Envs, next_env_id, EnvsOf(F, env_shelf, env_pool), next_env_id, {})
         /\ Len(F) = Depth /\ F[Depth].id = Top.id
         /\ Same(frames, env_shelf, F, env_shelf, Depth - 1)
         /\ Own(F, env_shelf, Depth) = Own(frames, env_shelf, Depth)
         /\ F[Depth].home = Top.home /\ F[Depth].doing = "await"
<1> DEFINE g == [Top EXCEPT !.doing = "await"]
<1>1. /\ g \in FrameType /\ g.shelved = FALSE /\ g.env = Top.env /\ g.doing = "await"
      /\ g.home = Top.home /\ g.id = Top.id /\ g.outer = Top.outer
  BY TopIs DEF FrameType
<1>2. F = Replaced(frames, g)
  BY DEF Below, Replaced, Depth
<1> HIDE DEF g
<1>3. Own(frames, env_shelf, Depth) = Env /\ Own(frames, env_shelf, Len(frames)) = Env
  BY TopIs DEF Depth
<1>4. Replaces(frames, env_shelf, g, env_shelf) /\ TopEnv(g, env_shelf) = Env
  <2>1. Paired(frames, env_shelf)
    BY DEF StackInv, StackOK
  <2>2. /\ Len(env_shelf) \in Nat /\ Len(env_shelf) = Count(frames, Len(frames) - 1)
        /\ env_shelf \in Seq(EnvType)
    <3>1. Count(frames, Depth - 1) = Len(env_shelf) /\ env_shelf \in Seq(EnvType)
      BY TopIs
    <3>2. QED
      BY <3>1 DEF Depth
  <2>3. Replaces(frames, env_shelf, g, env_shelf)
    BY <1>1, <2>1, <2>2 DEF Replaces
  <2>4. QED
    BY <1>1, <2>3 DEF TopEnv, Env
<1>5. Becomes(Own(frames, env_shelf, Len(frames)), TopEnv(g, env_shelf), {})
  BY <1>3, <1>4, TopIs, BecomesItself
<1>6. /\ StackOK(F, env_shelf, env_pool, next_env_id)
      /\ Flow(EnvsOf(frames, env_shelf, env_pool), next_env_id,
              EnvsOf(F, env_shelf, env_pool), next_env_id, {})
      /\ Len(F) = Len(frames) /\ F[Len(frames)] = g
      /\ Own(F, env_shelf, Len(frames)) = TopEnv(g, env_shelf)
      /\ Same(frames, env_shelf, F, env_shelf, Len(frames) - 1)
  <2>1. StackOK(frames, env_shelf, env_pool, next_env_id)
    BY DEF StackInv
  <2>2. /\ g.home = frames[Len(frames)].home /\ g.id = frames[Len(frames)].id
        /\ g.outer = frames[Len(frames)].outer /\ ~ g.shelved /\ g.doing # "builtin"
    BY <1>1 DEF Top, Depth
  <2>3. QED
    BY <1>2, <1>4, <1>5, <2>1, <2>2, StackTop
<1>7. QED
  BY <1>1, <1>3, <1>4, <1>6 DEF Envs, Depth

LEMMA TurnStep ==
  ASSUME StackInv, Counters, Turn
  PROVE  StackInv' /\ Moves({})
<1> DEFINE F == Below([Top EXCEPT !.doing = "await"])
<1>1. Top.doing \in {"body", "await"} /\ env_shelf' = env_shelf /\ EnterFrame(F, "turn")
  BY DEF Turn
<1>2. /\ StackOK(F, env_shelf, env_pool, next_env_id)
      /\ Flow(Envs, next_env_id, EnvsOf(F, env_shelf, env_pool), next_env_id, {})
      /\ Len(F) = Depth /\ F[Depth].id = Top.id
  BY <1>1, Awaits
<1> HIDE DEF F
<1>3. F[Len(F)].id = current_frame
  BY <1>2 DEF StackInv
<1>4. /\ StackOK(frames', env_shelf', env_pool', next_env_id')
      /\ Flow(EnvsOf(F, env_shelf, env_pool), next_env_id,
              EnvsOf(frames', env_shelf', env_pool'), next_env_id', {})
      /\ Top.id' = current_frame'
  BY <1>1, <1>2, <1>3, Enters DEF Counters
<1>5. Flow(Envs, next_env_id, EnvsOf(frames', env_shelf', env_pool'), next_env_id', {})
  <2>1. /\ \A e \in Envs : EnvOK(e)
        /\ \A e \in EnvsOf(F, env_shelf, env_pool) : EnvOK(e)
        /\ \A e \in EnvsOf(frames', env_shelf', env_pool') : EnvOK(e)
    BY <1>2, <1>4, EnvsAreOK DEF StackInv, Envs
  <2>2. next_env_id \in Nat /\ next_env_id' \in Nat
    BY <1>2, <1>4 DEF StackOK
  <2>3. QED
    BY <1>2, <1>4, <2>1, <2>2, FlowTrans
<1>6. QED
  BY <1>1, <1>4, <1>5 DEF StackInv, Moves, Envs

(* What a suspended frame goes on with.                                     *)
LEMMA KeptIs ==
  ASSUME StackInv
  PROVE  Own(frames, env_shelf, Depth) = KeptEnv(Top) /\ EnvOK(KeptEnv(Top))
<1>1. Paired(frames, env_shelf) /\ Top.shelved \in BOOLEAN /\ Depth \in 1..Depth
  BY TopIs DEF StackInv, StackOK, FrameType
<1>2. Own(frames, env_shelf, Depth) = KeptEnv(Top)
  BY <1>1, PairedIs DEF KeptEnv, Top, Depth
<1>3. QED
  BY <1>2, TopIs

(* What the caller of the running frame goes on with.                       *)
LEMMA KeptOfCaller ==
  ASSUME StackInv, Depth > 1, Top.doing = "body"
  PROVE  /\ FrameOK(Caller, KeptEnv(Caller), next_env_id) /\ Caller \in FrameType
         /\ Own(frames, env_shelf, Depth - 1) = KeptEnv(Caller)
<1>1. /\ Paired(frames, env_shelf) /\ Depth \in Nat /\ Top.shelved = FALSE
      /\ Count(frames, Depth - 1) = Len(env_shelf)
  BY TopIs DEF StackInv, StackOK
<1>2. Depth - 1 \in 1..Depth
  BY <1>1
<1>3. /\ FrameOK(Caller, Own(frames, env_shelf, Depth - 1), next_env_id) /\ Caller \in FrameType
  BY <1>1, <1>2, PairedIs DEF StackInv, StackOK, Caller, Depth
<1>4. Caller.shelved \in BOOLEAN
  BY <1>3 DEF FrameType
<1>5. Own(frames, env_shelf, Depth - 1) = KeptEnv(Caller)
  BY <1>1, <1>4 DEF Own, KeptEnv, Caller
<1>6. QED
  BY <1>3, <1>5

LEMMA WakeStep ==
  ASSUME StackInv, NEW e, Becomes(KeptEnv(Top), e, {}), Unshelve(Top),
         frames' = Below(Woken(Top, e)), UNCHANGED <<env_pool, next_env_id, current_frame>>
  PROVE  /\ StackInv' /\ Moves({})
         /\ Depth' = Depth /\ Same(frames, env_shelf, frames', env_shelf', Depth - 1)
         /\ Own(frames', env_shelf', Depth) = e
         /\ frames'[Depth].id = Top.id /\ frames'[Depth].home = Top.home
         /\ frames'[Depth].doing = "body"
<1> DEFINE g == Woken(Top, e)
<1>1. frames' = Replaced(frames, g)
  BY DEF Below, Replaced, Depth
<1>2. Wakes(frames, e) /\ g = Woken(frames[Len(frames)], e)
  BY DEF Wakes, Top, Depth
<1> HIDE DEF g
<1>3. /\ StackOK(Replaced(frames, g), env_shelf', env_pool, next_env_id)
      /\ Flow(EnvsOf(frames, env_shelf, env_pool), next_env_id,
              EnvsOf(Replaced(frames, g), env_shelf', env_pool), next_env_id, {})
      /\ Len(Replaced(frames, g)) = Len(frames) /\ Replaced(frames, g)[Len(frames)] = g
      /\ g.id = frames[Len(frames)].id
      /\ Same(frames, env_shelf, Replaced(frames, g), env_shelf', Len(frames) - 1)
      /\ Own(Replaced(frames, g), env_shelf', Len(frames)) = e
      /\ g.home = frames[Len(frames)].home /\ g.doing = "body"
  <2>1. StackOK(frames, env_shelf, env_pool, next_env_id)
    BY DEF StackInv
  <2>2. QED
    BY <1>2, <2>1, Resumes
<1>4. QED
  BY <1>1, <1>3 DEF StackInv, Moves, Envs, Top, Depth

LEMMA EndBuiltinStep ==
  ASSUME StackInv, EndBuiltin
  PROVE  StackInv' /\ Moves({})
<1>1. /\ Top.doing = "builtin" /\ Unshelve(Top)
      /\ frames' = Below([Resumed(Top) EXCEPT !.env = WriteBack(@, Top.moved)])
      /\ UNCHANGED <<env_pool, next_env_id, current_frame>>
  BY DEF EndBuiltin, rawVars
<1>2. EnvOK(KeptEnv(Top)) /\ Bound(KeptEnv(Top), Top.moved)
  BY <1>1, KeptIs, TopIs DEF FrameOK
<1> DEFINE e == Put(KeptEnv(Top), Top.moved, FALSE)
<1>3. Becomes(KeptEnv(Top), e, {})
  BY <1>2, PutBecomes
<1>4. frames' = Below(Woken(Top, e))
  <2>1. Resumed(Top).env = KeptEnv(Top)
    <3>1. Top \in FrameType
      BY TopIs
    <3>2. QED
      BY <3>1 DEF Resumed, FrameType
  <2>2. QED
    BY <1>1, <2>1 DEF Woken, WriteBack
<1> HIDE DEF e
<1>5. QED
  BY <1>1, <1>3, <1>4, WakeStep

LEMMA EndAwaitStep ==
  ASSUME StackInv, EndAwait
  PROVE  StackInv' /\ Moves({})
<1>1. /\ Top.doing = "await" /\ frames' = Below(Resumed(Top)) /\ env_shelf' = env_shelf
      /\ UNCHANGED <<env_pool, next_env_id, current_frame>>
  BY DEF EndAwait, envVars, rawVars
<1>2. Top \in FrameType /\ Top.shelved = FALSE
  BY <1>1, TopIs
<1>3. Unshelve(Top) /\ Becomes(KeptEnv(Top), KeptEnv(Top), {})
  BY <1>1, <1>2, KeptIs, BecomesItself DEF Unshelve
<1>4. Woken(Top, KeptEnv(Top)) = Resumed(Top)
  <2>1. Resumed(Top) \in FrameType /\ Resumed(Top).env = KeptEnv(Top)
    BY <1>2 DEF Resumed, KeptEnv, FrameType, Names
  <2>2. QED
    BY <2>1 DEF Woken, FrameType
<1>5. QED
  BY <1>1, <1>3, <1>4, WakeStep

LEMMA StoreStep ==
  ASSUME StackInv, NEW addr, Store(addr)
  PROVE  StackInv' /\ Moves({})
<1> DEFINE of == Deref(addr).of
<1>1. /\ Top.doing = "body"
      /\ SetEnv(Filled(Env, of))
      /\ env_shelf' = [i \in DOMAIN env_shelf |-> Filled(env_shelf[i], of)]
      /\ env_pool' = env_pool /\ next_env_id' = next_env_id /\ current_frame' = current_frame
  BY DEF Store, Runs, rawVars
<1> HIDE DEF of
<1>2. Fills(frames, env_shelf, of, frames', env_shelf')
  BY <1>1 DEF Fills, SetEnv, Env, Top, Depth
<1>3. /\ StackOK(frames, env_shelf, env_pool, next_env_id) /\ ~ frames[Len(frames)].shelved
      /\ frames[Len(frames)].id = current_frame
  BY <1>1, TopIs DEF StackInv, Top, Depth
<1>4. /\ StackOK(frames', env_shelf', env_pool, next_env_id)
      /\ Flow(EnvsOf(frames, env_shelf, env_pool), next_env_id,
              EnvsOf(frames', env_shelf', env_pool), next_env_id, {})
      /\ Len(frames') = Len(frames) /\ frames'[Len(frames)].id = frames[Len(frames)].id
  BY <1>2, <1>3, StackFill
<1>5. QED
  BY <1>1, <1>3, <1>4 DEF StackInv, Moves, Envs, Top, Depth

LEMMA StackStep ==
  ASSUME StackInv, Counters, Next
  PROVE  StackInv' /\ Moves(Handles)
<1>1. ASSUME NEW e, NEW new, Top.doing = "body", SetEnv(e), Becomes(Env, e, new),
             new \subseteq Handles, UNCHANGED <<envVars, current_frame>>
      PROVE  StackInv' /\ Moves(Handles)
  BY <1>1, SetEnvStep, FlowMore DEF Moves
<1>2. ASSUME StackInv' /\ Moves({})
      PROVE  StackInv' /\ Moves(Handles)
  BY <1>2, FlowMore DEF Moves
<1>3. ASSUME NEW x \in Var, Let(x)
      PROVE  StackInv' /\ Moves(Handles)
  <2>1. /\ Top.doing = "body" /\ Defines(x, NoArena) /\ UNCHANGED <<envVars, current_frame>>
    BY <1>3 DEF Let, Runs, rawVars
  <2>2. PICK e : SetEnv(e) /\ Becomes(Env, e, {})
    BY <2>1, Statements DEF Stays
  <2>3. QED
    BY <1>1, <2>1, <2>2
<1>4. ASSUME NEW x \in Var, Assign(x)
      PROVE  StackInv' /\ Moves(Handles)
  <2>1. Top.doing = "body" /\ UNCHANGED <<envVars, current_frame>>
    BY <1>4 DEF Assign, Runs, rawVars
  <2>2. PICK e : SetEnv(e) /\ Becomes(Env, e, {})
    BY <1>4, <2>1, Statements DEF Stays
  <2>3. QED
    BY <1>1, <2>1, <2>2
<1>5. ASSUME NEW x \in Var, AddrOf(x)
      PROVE  StackInv' /\ Moves(Handles)
  <2>1. UNCHANGED <<frames, envVars, current_frame>>
    BY <1>5 DEF AddrOf, PushRegion
  <2>2. QED
    BY <1>2, <2>1, StackStands
<1>6. ASSUME NEW x \in Var, DeclareArena(x)
      PROVE  StackInv' /\ Moves(Handles)
  <2>1. Top.doing = "body" /\ UNCHANGED <<envVars, current_frame>>
    BY <1>6 DEF DeclareArena, Runs, rawVars
  <2>2. PICK e, new : SetEnv(e) /\ Becomes(Env, e, new) /\ new \subseteq Handles
    BY <1>6, <2>1, Statements DEF Stays
  <2>3. QED
    BY <1>1, <2>1, <2>2
<1>7. ASSUME NEW x \in Var, StartBuiltin(x)
      PROVE  StackInv' /\ Moves(Handles)
  BY <1>2, <1>7, BuiltinStep
<1>8. ASSUME NEW t \in taken, Store(t.addr)
      PROVE  StackInv' /\ Moves(Handles)
  BY <1>2, <1>8, StoreStep
<1>9. CASE OpenScope
  <2>1. Top.doing = "body" /\ UNCHANGED <<envVars, current_frame>>
    BY <1>9 DEF OpenScope, Runs, rawVars
  <2>2. PICK e : SetEnv(e) /\ Becomes(Env, e, {})
    BY <1>9, <2>1, Statements DEF Stays
  <2>3. QED
    BY <1>1, <2>1, <2>2
<1>10. CASE CloseScope
  <2>1. Top.doing = "body" /\ UNCHANGED <<envVars, current_frame>>
    BY <1>10 DEF CloseScope, Runs, rawVars
  <2>2. PICK e : SetEnv(e) /\ Becomes(Env, e, {})
    BY <1>10, <2>1, Statements DEF Stays
  <2>3. QED
    BY <1>1, <2>1, <2>2
<1>11. CASE ArenaAlloc
  <2>1. Top.doing = "body" /\ UNCHANGED <<envVars, current_frame>>
    BY <1>11 DEF ArenaAlloc, Runs, PushRegion
  <2>2. QED
    BY <1>1, <1>11, <2>1, Statements DEF Stays
<1>12. ASSUME NEW kind \in {"function", "closure"}, Call(kind)
       PROVE  StackInv' /\ Moves(Handles)
  BY <1>2, <1>12, CallStep
<1>13. ASSUME NEW kind \in {"function", "closure"}, Callback(kind)
       PROVE  StackInv' /\ Moves(Handles)
  BY <1>2, <1>13, CallbackStep
<1>14. CASE EndBuiltin
  BY <1>2, <1>14, EndBuiltinStep
<1>15. CASE Turn
  BY <1>2, <1>15, TurnStep
<1>16. CASE EndAwait
  BY <1>2, <1>16, EndAwaitStep
<1>17. CASE Return
  <2>1. /\ Top.doing = "body" /\ Depth > 1 /\ Leave(Caller.doing = "call")
        /\ env_pool' = env_pool \/ env_pool' = Append(env_pool, Env)
        /\ next_env_id' = next_env_id
    BY <1>17 DEF Return, Runs
  <2>2. (Caller.doing = "call") \in BOOLEAN
    OBVIOUS
  <2>3. QED
    BY <1>2, <2>1, <2>2, LeaveStep
<1>18. ASSUME NEW depth \in 1..Len(Env.scopes) - 1, Catch(depth)
       PROVE  StackInv' /\ Moves(Handles)
  <2>1. Top.doing = "body" /\ UNCHANGED <<envVars, current_frame>>
    BY <1>18 DEF Catch, Raises, rawVars
  <2>2. PICK e : SetEnv(e) /\ Becomes(Env, e, {})
    BY <1>18, <2>1, Statements DEF Stays
  <2>3. QED
    BY <1>1, <2>1, <2>2
<1>19. ASSUME NEW error \in {"throw", "early"}, Unwind(error)
       PROVE  StackInv' /\ Moves(Handles)
  <2>1. PICK ends \in BOOLEAN : Leave(~ ends \/ Caller.doing = "call")
    BY <1>19 DEF Unwind
  <2>2. /\ Top.doing = "body" /\ Depth > 1 /\ env_pool' = env_pool /\ next_env_id' = next_env_id
    BY <1>19 DEF Unwind, Raises
  <2>3. (~ ends \/ Caller.doing = "call") \in BOOLEAN
    OBVIOUS
  <2>4. QED
    BY <1>2, <2>1, <2>2, <2>3, LeaveStep
<1>20. QED
  BY <1>3, <1>4, <1>5, <1>6, <1>7, <1>8, <1>9, <1>10, <1>11, <1>12, <1>13, <1>14, <1>15,
     <1>16, <1>17, <1>18, <1>19 DEF Next

-----------------------------------------------------------------------------
(* Counters and the stack are invariant.                                    *)
LEMMA CountersStep ==
  ASSUME StackInv, Counters, Next
  PROVE  Counters'
<1> DEFINE Simple == /\ current_frame' = current_frame /\ next_frame' = next_frame
                     /\ lost' = lost
           Marks == /\ raised' \in {"none", "throw", "early"}
                    /\ births' \in Nat /\ blocks' \in Nat
<1>1. ASSUME Simple, Marks
      PROVE  Counters'
  BY <1>1 DEF Counters
<1>2. ASSUME NEW below, NEW kind, EnterFrame(below, kind)
      PROVE  Counters'
  BY <1>2 DEF EnterFrame, Counters, history
<1>3. ASSUME NEW x \in Var, Let(x) \/ Assign(x) \/ AddrOf(x) \/ DeclareArena(x) \/ StartBuiltin(x)
      PROVE  Counters'
  <2>1. Simple
    BY <1>3 DEF Let, Assign, AddrOf, DeclareArena, StartBuiltin, PushRegion, rawVars, history
  <2>2. CASE Let(x) \/ DeclareArena(x)
    <3>1. /\ births' = births \/ births' = births + 1
          /\ raised' = raised /\ blocks' = blocks
      BY <2>2 DEF Let, DeclareArena, Defines
    <3>2. Marks
      BY <3>1 DEF Counters
    <3>3. QED
      BY <1>1, <2>1, <3>2
  <2>4. CASE Assign(x) \/ AddrOf(x) \/ StartBuiltin(x)
    <3>1. raised' = raised /\ blocks' = blocks /\ births' = births
      BY <2>4 DEF Assign, AddrOf, StartBuiltin, history
    <3>2. Marks
      BY <3>1 DEF Counters
    <3>3. QED
      BY <1>1, <2>1, <3>2
  <2>5. QED
    BY <1>3, <2>2, <2>4
<1>4. ASSUME NEW addr, Store(addr)
      PROVE  Counters'
  BY <1>4 DEF Store, Counters, rawVars, history
<1>5. CASE OpenScope \/ CloseScope \/ ArenaAlloc
  <2>1. Simple
    BY <1>5 DEF OpenScope, CloseScope, ArenaAlloc, PushRegion, rawVars, history
  <2>2. /\ blocks' = blocks \/ blocks' = blocks + 1
        /\ raised' = raised /\ births' = births
    BY <1>5 DEF OpenScope, CloseScope, ArenaAlloc, history
  <2>3. Marks
    BY <2>2 DEF Counters
  <2>4. QED
    BY <1>1, <2>1, <2>3
<1>6. ASSUME NEW kind \in {"function", "closure"}, Call(kind) \/ Callback(kind)
      PROVE  Counters'
  BY <1>2, <1>6 DEF Call, Callback
<1>7. CASE EndBuiltin \/ EndAwait
  BY <1>7 DEF EndBuiltin, EndAwait, Counters, rawVars, history
<1>8. CASE Turn
  BY <1>2, <1>8 DEF Turn
<1>9. Depth > 1 /\ Top.doing = "body" => Top.outer \in Nat
  BY TopIs DEF FrameType
<1>10. CASE Return
  BY <1>9, <1>10 DEF Return, Runs, Leave, ExitFrame, Counters, history
<1>11. ASSUME NEW depth \in 1..Len(Env.scopes) - 1, Catch(depth)
       PROVE  Counters'
  BY <1>11 DEF Catch, Counters, rawVars
<1>12. ASSUME NEW error \in {"throw", "early"}, Unwind(error)
       PROVE  Counters'
  <2>1. PICK ends \in BOOLEAN :
          /\ raised' = IF ends THEN "none" ELSE error
          /\ Leave(~ ends \/ Caller.doing = "call")
          /\ lost' = IF ends \/ Caller.doing # "builtin" THEN lost
                     ELSE LET e == KeptEnv(Caller)
                          IN lost \cup {BornAt(e, Nearest(e, Caller.moved))}
    BY <1>12 DEF Unwind
  <2>2. /\ Top.doing = "body" /\ Depth > 1 /\ births' = births /\ blocks' = blocks
    BY <1>12 DEF Unwind, Raises
  <2>3. current_frame' \in Nat /\ next_frame' \in Nat
    BY <1>9, <2>1, <2>2 DEF Leave, ExitFrame, Counters
  <2>4. ASSUME Caller.doing = "builtin"
        PROVE  BornAt(KeptEnv(Caller), Nearest(KeptEnv(Caller), Caller.moved)) \in Nat
    <3>1. KeptEnv(Caller) \in EnvType /\ Bound(KeptEnv(Caller), Caller.moved)
      BY <2>2, <2>4, KeptOfCaller DEF FrameOK, EnvOK
    <3>2. Nearest(KeptEnv(Caller), Caller.moved) \in Positions(KeptEnv(Caller))
      BY <3>1, NearestIsBound
    <3>3. QED
      BY <3>1, <3>2, SlotIs
  <2>5. QED
    BY <2>1, <2>2, <2>3, <2>4 DEF Counters
<1>13. QED
  BY <1>3, <1>4, <1>5, <1>6, <1>7, <1>8, <1>10, <1>11, <1>12 DEF Next

LEMMA StackInit ==
  ASSUME Init
  PROVE  StackInv /\ Counters
<1> DEFINE f == [id |-> 1, outer |-> 0, kind |-> "function", env |-> NewEnv(1), home |-> 1,
                 doing |-> "body", moved |-> arena_key, shelved |-> FALSE]
<1>1. /\ frames = <<f>> /\ env_shelf = << >> /\ env_pool = << >> /\ next_env_id = 2
      /\ current_frame = 1
  BY DEF Init
<1>2. EnvOK(NewEnv(1)) /\ NewEnv(1).id = 1
  BY NewEnvIs
<1>3. f \in FrameType /\ ~ f.shelved /\ f.home = 1 /\ f.id = 1 /\ f.env = NewEnv(1)
      /\ f.doing = "body"
  BY <1>2 DEF FrameType, Names, EnvOK
<1> HIDE DEF f
<1>4. /\ Len(frames) = 1 /\ frames[1] = f /\ frames \in Seq(FrameType) /\ frames # << >>
      /\ env_shelf \in Seq(EnvType) /\ Len(env_shelf) = 0 /\ env_pool \in Seq(EnvType)
      /\ Len(env_pool) = 0 /\ 1..Len(frames) = {1}
  BY <1>1, <1>3
<1>5. Count(frames, 1) = 0
  <2>1. Count(frames, 0) = 0 /\ Count(frames, 1) = Count(frames, 0)
    BY <1>3, <1>4, CountIs
  <2>2. QED
    BY <2>1
<1>6. Paired(frames, env_shelf)
  BY <1>4, <1>5 DEF Paired
<1>7. FrameOK(f, Own(frames, env_shelf, 1), 2)
  BY <1>2, <1>3, <1>4 DEF FrameOK, Own
<1>8. PoolOK(frames, env_pool, 2)
  BY <1>4 DEF PoolOK
<1>9. \A i \in 2..Len(frames) : frames[i].outer = frames[i - 1].id
  BY <1>4
<1>10. StackOK(frames, env_shelf, env_pool, 2)
  BY <1>4, <1>6, <1>7, <1>8, <1>9 DEF StackOK
<1>11. Top.id = current_frame
  BY <1>1, <1>3, <1>4 DEF Top, Depth
<1>12. QED
  BY <1>1, <1>10, <1>11 DEF StackInv, Counters, Init

(* What is true of stack and shelf whatever the regions are.                 *)
LEMMA StackAlways == Spec => [](StackInv /\ Counters)
<1>1. Init => StackInv /\ Counters
  BY StackInit
<1>2. StackInv /\ Counters /\ [Next]_vars => StackInv' /\ Counters'
  <2> SUFFICES ASSUME StackInv, Counters, [Next]_vars
               PROVE  StackInv' /\ Counters'
    OBVIOUS
  <2>1. CASE Next
    BY <2>1, StackStep, CountersStep
  <2>2. CASE UNCHANGED vars
    <3>1. UNCHANGED <<frames, envVars, current_frame>> /\ Counters'
      BY <2>2 DEF vars, envVars, rawVars, history, Counters
    <3>2. QED
      BY <3>1, StackStands
  <2>3. QED
    BY <2>1, <2>2
<1>3. QED
  BY <1>1, <1>2, PTL DEF Spec

LEMMA StackIsPaired ==
  ASSUME StackInv
  PROVE  ShelfIsPaired
<1>1. /\ Paired(frames, env_shelf) /\ DOMAIN frames = 1..Depth /\ DOMAIN env_pool = 1..Len(env_pool)
  <2>1. Paired(frames, env_shelf)
    BY DEF StackInv, StackOK
  <2>2. DOMAIN frames = 1..Depth /\ env_pool \in Seq(EnvType)
    BY TopIs
  <2>3. DOMAIN env_pool = 1..Len(env_pool)
    BY <2>2
  <2>4. QED
    BY <2>1, <2>2, <2>3
<1>2. Len(env_shelf) = ShelvedUpTo(Depth)
  BY <1>1 DEF Paired, ShelvedUpTo, Count, Depth
<1>3. ASSUME NEW i \in DOMAIN frames
      PROVE  /\ OwnEnv(i).id = frames[i].home /\ frames[i].home # 0
             /\ \A j \in DOMAIN frames : frames[i].home = frames[j].home => i = j
             /\ \A k \in DOMAIN env_pool : env_pool[k].id # frames[i].home
  <2>1. OwnEnv(i) = Own(frames, env_shelf, i)
    BY DEF OwnEnv, Own, ShelvedUpTo, Count
  <2>2. FrameOK(frames[i], Own(frames, env_shelf, i), next_env_id)
    BY <1>1 DEF StackInv, StackOK, Depth
  <2>3. EnvOK(Own(frames, env_shelf, i)) /\ Own(frames, env_shelf, i).id = frames[i].home
    BY <2>2 DEF FrameOK
  <2>4. frames[i].home # 0
    BY <2>3 DEF EnvOK
  <2>5. \A j \in DOMAIN frames : frames[i].home = frames[j].home => i = j
    BY <1>1 DEF StackInv, StackOK, Depth
  <2>6. \A k \in DOMAIN env_pool : env_pool[k].id # frames[i].home
    BY <1>1 DEF StackInv, StackOK, PoolOK, Depth
  <2>7. QED
    BY <2>1, <2>3, <2>4, <2>5, <2>6
<1>4. QED
  BY <1>2, <1>3 DEF ShelfIsPaired, StackInv

(***************************************************************************)
(* Shelf and stack are always paired (ShelfIsPaired): whatever calls,         *)
(* callbacks, turns, returns and errors come, a frame that goes on finds its   *)
(* own environment, and no environment serves two frames.                    *)
(***************************************************************************)
THEOREM ShelfPaired == Spec => []ShelfIsPaired
<1>1. StackInv /\ Counters => ShelfIsPaired
  BY StackIsPaired
<1>2. QED
  BY <1>1, StackAlways, PTL

-----------------------------------------------------------------------------
(* What pointers name.  Settled: among the environments A there is no other   *)
(* place `slot` than one bound as `of`, and there never will be.             *)
Settled(A, N, slot, of) ==
    /\ slot \in SlotType /\ slot.env > 0 /\ slot.env < N /\ of \in Nat
    /\ \A e \in A : e.id = slot.env =>
         /\ slot.scope < e.next_scope_id
         /\ \A i \in DOMAIN e.scopes : e.scopes[i].id = slot.scope =>
               /\ slot.entry \in DOMAIN e.scopes[i].entries
               /\ e.scopes[i].entries[slot.entry].born = of

ClaimsSettled(A, N) ==
    \A e \in A : \A c \in Claims(e) : c = NoClaim \/ Settled(A, N, c[1], c[2])

LEMMA SettledFlows ==
  ASSUME NEW A, NEW N \in Nat, NEW B, NEW M \in Nat, NEW new, Flow(A, N, B, M, new),
         \A e \in A : EnvOK(e), \A f \in B : EnvOK(f),
         NEW slot, NEW of, Settled(A, N, slot, of)
  PROVE  Settled(B, M, slot, of)
<1>1. N <= M /\ slot.env < M
  BY DEF Flow, Settled, SlotType
<1>2. ASSUME NEW f \in B, f.id = slot.env
      PROVE  /\ slot.scope < f.next_scope_id
             /\ \A i \in DOMAIN f.scopes : f.scopes[i].id = slot.scope =>
                   /\ slot.entry \in DOMAIN f.scopes[i].entries
                   /\ f.scopes[i].entries[slot.entry].born = of
  <2>1. Follows(A, N, f, new) /\ f.id \in Nat /\ slot.scope \in Nat
    BY DEF Flow, EnvOK, EnvType, Settled, SlotType
  <2>2. PICK e \in A : Grows(e, f)
    BY <1>2, <2>1 DEF Follows, Settled
  <2>3. /\ e.id = slot.env /\ f.next_scope_id >= e.next_scope_id
        /\ e.next_scope_id \in Nat /\ f.next_scope_id \in Nat
    BY <1>2, <2>2 DEF Grows, EnvOK, EnvType
  <2>4. /\ slot.scope < e.next_scope_id
        /\ \A i \in DOMAIN e.scopes : e.scopes[i].id = slot.scope =>
              /\ slot.entry \in DOMAIN e.scopes[i].entries
              /\ e.scopes[i].entries[slot.entry].born = of
    BY <2>3 DEF Settled
  <2>5. ASSUME NEW i \in DOMAIN f.scopes, f.scopes[i].id = slot.scope
        PROVE  /\ slot.entry \in DOMAIN f.scopes[i].entries
               /\ f.scopes[i].entries[slot.entry].born = of
    <3>1. ~ (f.scopes[i].id >= e.next_scope_id)
      BY <2>1, <2>3, <2>4, <2>5
    <3>2. PICK j \in DOMAIN e.scopes :
            /\ e.scopes[j].id = f.scopes[i].id
            /\ \A k \in DOMAIN e.scopes[j].entries :
                  /\ k \in DOMAIN f.scopes[i].entries
                  /\ f.scopes[i].entries[k].born = e.scopes[j].entries[k].born
      BY <2>2, <3>1 DEF Grows
    <3>3. QED
      BY <2>4, <2>5, <3>2
  <2>6. QED
    BY <2>1, <2>3, <2>4, <2>5
<1>3. QED
  BY <1>1, <1>2 DEF Settled

(* An environment is known by its id.                                       *)
LEMMA OneOfId ==
  ASSUME NEW F, NEW s, NEW P, NEW N, StackOK(F, s, P, N),
         NEW e \in EnvsOf(F, s, P), NEW f \in EnvsOf(F, s, P), e.id = f.id
  PROVE  e = f
<1>1. \A i \in 1..Len(F) : Own(F, s, i).id = F[i].home
  BY DEF StackOK, FrameOK
<1>2. PoolOK(F, P, N)
  BY DEF StackOK
<1>3. ASSUME NEW i \in 1..Len(F), NEW j \in 1..Len(F), e = Own(F, s, i), f = Own(F, s, j)
      PROVE  e = f
  BY <1>1, <1>3 DEF StackOK
<1>4. ASSUME NEW i \in 1..Len(F), NEW k \in 1..Len(P),
             \/ e = Own(F, s, i) /\ f = P[k]
             \/ f = Own(F, s, i) /\ e = P[k]
      PROVE  FALSE
  BY <1>1, <1>2, <1>4 DEF PoolOK
<1>5. ASSUME NEW k \in 1..Len(P), NEW l \in 1..Len(P), e = P[k], f = P[l]
      PROVE  e = f
  BY <1>2, <1>5 DEF PoolOK
<1>6. QED
  BY <1>3, <1>4, <1>5 DEF EnvsOf

(* What a step can hand out is settled.                                     *)
LEMMA HandlesSettled ==
  ASSUME StackInv, NEW h \in Handles
  PROVE  Settled(Envs, next_env_id, h[1], h[2])
<1>1. Top.doing = "body"
  BY DEF Handles
<1>2. PICK p \in Positions(Env) : h = <<Slot(Env, p), BornAt(Env, p)>>
  BY DEF Handles
<1>3. /\ EnvOK(Env) /\ Own(frames, env_shelf, Depth) = Env /\ Env \in EnvType
      /\ Env \in Envs /\ Env.id < next_env_id
  <2>1. EnvOK(Env) /\ Own(frames, env_shelf, Depth) = Env /\ Depth \in 1..Depth
    BY <1>1, TopIs
  <2>2. Env \in Envs
    BY <2>1 DEF Envs, EnvsOf, Depth
  <2>3. QED
    BY <2>1, <2>2, EnvsAreOK DEF EnvOK, StackInv, Envs
<1>4. /\ Slot(Env, p) \in SlotType /\ BornAt(Env, p) \in Nat /\ Slot(Env, p).env = Env.id
      /\ Slot(Env, p).scope = Env.scopes[p[1]].id /\ Slot(Env, p).entry = p[2]
  BY <1>3, SlotIs DEF Slot
<1>5. /\ p[1] \in DOMAIN Env.scopes /\ p[2] \in DOMAIN Env.scopes[p[1]].entries
      /\ BornAt(Env, p) = Env.scopes[p[1]].entries[p[2]].born
  BY <1>3, PositionsAre DEF BornAt, EntryAt
<1>6. ASSUME NEW e \in Envs, e.id = Env.id
      PROVE  e = Env
  BY <1>3, <1>6, OneOfId DEF StackInv, Envs
<1>7. Env.id > 0 /\ Env.scopes[p[1]].id < Env.next_scope_id
  BY <1>3, <1>5 DEF EnvOK
<1>8. \A i \in DOMAIN Env.scopes : Env.scopes[i].id = Env.scopes[p[1]].id => i = p[1]
  BY <1>3, <1>5 DEF EnvOK
<1> DEFINE slot == Slot(Env, p)
           of == BornAt(Env, p)
<1> HIDE DEF slot, of
<1>9. /\ slot \in SlotType /\ of \in Nat /\ slot.env = Env.id
      /\ slot.scope = Env.scopes[p[1]].id /\ slot.entry = p[2]
      /\ of = Env.scopes[p[1]].entries[p[2]].born
  BY <1>4, <1>5 DEF slot, of
<1>10. \A e \in Envs : e.id = slot.env =>
         /\ slot.scope < e.next_scope_id
         /\ \A i \in DOMAIN e.scopes : e.scopes[i].id = slot.scope =>
               /\ slot.entry \in DOMAIN e.scopes[i].entries
               /\ e.scopes[i].entries[slot.entry].born = of
  BY <1>5, <1>6, <1>7, <1>8, <1>9
<1>11. Settled(Envs, next_env_id, slot, of)
  BY <1>3, <1>7, <1>9, <1>10 DEF Settled
<1>12. QED
  BY <1>2, <1>11 DEF slot, of

LEMMA MovesSettled ==
  ASSUME StackInv, StackInv', Moves(Handles)
  PROVE  /\ ClaimsSettled(Envs, next_env_id) => ClaimsSettled(Envs', next_env_id')
         /\ \A slot, of : Settled(Envs, next_env_id, slot, of) =>
                          Settled(Envs', next_env_id', slot, of)
<1>1. /\ \A e \in Envs : EnvOK(e)
      /\ \A e \in Envs' : EnvOK(e)
      /\ next_env_id \in Nat /\ next_env_id' \in Nat
  BY EnvsAreOK DEF StackInv, Envs, StackOK
<1>2. ASSUME NEW slot, NEW of, Settled(Envs, next_env_id, slot, of)
      PROVE  Settled(Envs', next_env_id', slot, of)
  BY <1>1, <1>2, SettledFlows DEF Moves
<1>3. ASSUME ClaimsSettled(Envs, next_env_id), NEW f \in Envs', NEW c \in Claims(f)
      PROVE  c = NoClaim \/ Settled(Envs', next_env_id', c[1], c[2])
  <2>1. Follows(Envs, next_env_id, f, Handles)
    BY DEF Moves, Flow
  <2>2. c = NoClaim \/ c \in Handles \/ \E e \in Envs : c \in Claims(e)
    BY <1>3, <2>1 DEF Follows
  <2>3. c = NoClaim \/ Settled(Envs, next_env_id, c[1], c[2])
    BY <1>3, <2>2, HandlesSettled DEF ClaimsSettled
  <2>4. QED
    BY <1>2, <2>3
<1>4. QED
  BY <1>2, <1>3 DEF ClaimsSettled

-----------------------------------------------------------------------------
(* The address ranges: regions do not meet, and every address is of one cell. *)
RegionsOK(R, base) ==
    /\ R \subseteq RegionType /\ IsFiniteSet(R) /\ base \in Nat
    /\ \A r \in R : r.stride > 0 /\ r.len > 0 /\ End(r) <= base
    /\ \A r, q \in R : r = q \/ End(r) <= q.base \/ End(q) <= r.base

Denotes(A, N, r, t) == Settled(A, N, r.root, t.of) /\ Cell(r, t.addr) = t.cell

Known(A, N, R, base, t) ==
    /\ t \in [addr : Nat, of : Nat, cell : Nat] /\ t.addr < base
    /\ \A r \in R : Covers(r, t.addr) => Denotes(A, N, r, t)

LEMMA CellsFit ==
  ASSUME NEW s \in Nat, s > 0, NEW n \in Nat, NEW c \in Nat, c < n
  PROVE  /\ c * s \in Nat /\ n * s \in Nat /\ s * n = n * s
         /\ c * s < n * s /\ c * s + s <= n * s /\ (c * s) \div s = c
<1>1. c * s \in Nat /\ n * s \in Nat /\ s * n = n * s
  OBVIOUS
<1>2. c * s + s <= n * s
  <2>1. (n - c) * s = n * s - c * s /\ n - c >= 1
    OBVIOUS
  <2>2. \A d \in Int : d >= 1 => d * s >= s
    OBVIOUS
  <2>3. QED
    BY <1>1, <2>1, <2>2
<1>3. (c * s) \div s = c
  OBVIOUS
<1>4. QED
  BY <1>1, <1>2, <1>3

(* The pointers to `cells` of what is bound as `of`, the first one at b.      *)
Pointers(b, stride, of, cells) == {[addr |-> b + c * stride, of |-> of, cell |-> c] : c \in cells}

LEMMA PointersCovered ==
  ASSUME NEW r \in RegionType, r.stride > 0, NEW of, NEW cells \in SUBSET (0 .. r.len - 1),
         NEW t \in Pointers(r.base, r.stride, of, cells)
  PROVE  t.of = of /\ Covers(r, t.addr)
<1>1. /\ r.base \in Nat /\ r.stride \in Nat /\ r.len \in Nat
  BY DEF RegionType
<1>2. PICK c \in cells : t = [addr |-> r.base + c * r.stride, of |-> of, cell |-> c]
  BY DEF Pointers
<1>3. c \in Nat /\ c < r.len
  BY <1>1
<1>4. c * r.stride \in Nat /\ r.stride * r.len = r.len * r.stride /\ r.len * r.stride \in Nat
      /\ c * r.stride < r.len * r.stride
  BY <1>1, <1>3, CellsFit
<1>5. QED
  BY <1>1, <1>2, <1>4 DEF Covers, End

(* A region added at the end of the address space.                          *)
LEMMA RegionAdded ==
  ASSUME NEW A, NEW N, NEW R, NEW b, RegionsOK(R, b), NEW T, \A t \in T : Known(A, N, R, b, t),
         NEW r \in RegionType, r.base = b, r.stride > 0, r.len > 0,
         NEW of, Settled(A, N, r.root, of), NEW cells \in SUBSET (0 .. r.len - 1)
  PROVE  /\ RegionsOK(R \cup {r}, NextBase(r))
         /\ \A t \in T \cup Pointers(b, r.stride, of, cells) : Known(A, N, R \cup {r}, NextBase(r), t)
<1>1. /\ b \in Nat /\ r.stride \in Nat /\ r.len \in Nat /\ r.base \in Nat
      /\ \A q \in R : q \in RegionType /\ q.base \in Nat /\ q.stride \in Nat /\ q.len \in Nat
      /\ of \in Nat
  BY DEF RegionsOK, RegionType, Settled
<1>2. /\ r.stride * r.len \in Nat /\ End(r) = b + r.stride * r.len
      /\ \A q \in R : End(q) \in Nat /\ End(q) <= b
  BY <1>1 DEF End, RegionsOK
<1>3. /\ NextBase(r) \in Nat /\ End(r) <= NextBase(r) /\ b <= NextBase(r) /\ End(r) \in Nat
  BY <1>1, <1>2 DEF NextBase, Span, Max2
<1>4. RegionsOK(R \cup {r}, NextBase(r))
  <2>1. IsFiniteSet(R \cup {r})
    BY FS_AddElement DEF RegionsOK
  <2>2. \A q \in R \cup {r} : q.stride > 0 /\ q.len > 0 /\ End(q) <= NextBase(r)
    BY <1>1, <1>2, <1>3 DEF RegionsOK
  <2>3. \A p, q \in R \cup {r} : p = q \/ End(p) <= q.base \/ End(q) <= p.base
    BY <1>2 DEF RegionsOK
  <2>4. QED
    BY <1>3, <2>1, <2>2, <2>3 DEF RegionsOK
<1>5. ASSUME NEW t \in T
      PROVE  Known(A, N, R \cup {r}, NextBase(r), t)
  <2>1. Known(A, N, R, b, t) /\ t.addr \in Nat /\ t.addr < b
    BY DEF Known
  <2>2. ~ Covers(r, t.addr) /\ t.addr < NextBase(r)
    BY <1>1, <1>3, <2>1 DEF Covers
  <2>3. QED
    BY <2>1, <2>2 DEF Known
<1>6. ASSUME NEW t \in Pointers(b, r.stride, of, cells)
      PROVE  Known(A, N, R \cup {r}, NextBase(r), t)
  <2>1. PICK c \in cells : t = [addr |-> b + c * r.stride, of |-> of, cell |-> c]
    BY Zenon DEF Pointers
  <2>2. c \in Nat /\ c < r.len
    BY <1>1
  <2>3. /\ c * r.stride \in Nat /\ c * r.stride < r.stride * r.len /\ (c * r.stride) \div r.stride = c
    BY <1>1, <2>2, CellsFit
  <2>4. /\ t \in [addr : Nat, of : Nat, cell : Nat] /\ t.addr = b + c * r.stride
        /\ t.of = of /\ t.cell = c
    BY <1>1, <2>1, <2>2, <2>3
  <2>5. t.addr < NextBase(r) /\ t.addr >= b /\ t.addr - r.base = c * r.stride
    BY <1>1, <1>2, <1>3, <2>3, <2>4
  <2>6. \A q \in R : ~ Covers(q, t.addr)
    BY <1>1, <1>2, <2>4, <2>5 DEF Covers
  <2>7. Denotes(A, N, r, t)
    BY <2>3, <2>4, <2>5 DEF Denotes, Cell
  <2>8. QED
    BY <2>4, <2>5, <2>6, <2>7 DEF Known
<1>7. QED
  BY <1>4, <1>5, <1>6

(* Further pointers into a region there is.                                 *)
LEMMA RegionReused ==
  ASSUME NEW A, NEW N, NEW R, NEW b, RegionsOK(R, b), NEW T, \A t \in T : Known(A, N, R, b, t),
         NEW r \in R, NEW of, Settled(A, N, r.root, of), NEW cells \in SUBSET (0 .. r.len - 1)
  PROVE  \A t \in T \cup Pointers(r.base, r.stride, of, cells) : Known(A, N, R, b, t)
<1>1. /\ b \in Nat /\ r.stride \in Nat /\ r.len \in Nat /\ r.base \in Nat /\ r.stride > 0
      /\ \A q \in R : q \in RegionType /\ q.base \in Nat /\ q.stride \in Nat /\ q.len \in Nat
      /\ of \in Nat
  BY DEF RegionsOK, RegionType, Settled
<1>2. ASSUME NEW t \in Pointers(r.base, r.stride, of, cells)
      PROVE  Known(A, N, R, b, t)
  <2>1. PICK c \in cells : t = [addr |-> r.base + c * r.stride, of |-> of, cell |-> c]
    BY Zenon DEF Pointers
  <2>2. c \in Nat /\ c < r.len
    BY <1>1
  <2>3. /\ c * r.stride \in Nat /\ c * r.stride < r.stride * r.len /\ (c * r.stride) \div r.stride = c
        /\ r.stride * r.len \in Nat
    BY <1>1, <2>2, CellsFit
  <2>4. /\ t \in [addr : Nat, of : Nat, cell : Nat] /\ t.addr = r.base + c * r.stride
        /\ t.of = of /\ t.cell = c
    BY <1>1, <2>1, <2>2, <2>3
  <2>5. /\ End(r) \in Nat /\ End(r) <= b /\ End(r) = r.base + r.stride * r.len
        /\ t.addr < End(r) /\ t.addr >= r.base /\ t.addr - r.base = c * r.stride
    BY <1>1, <2>3, <2>4 DEF End, RegionsOK
  <2>6. ASSUME NEW q \in R, Covers(q, t.addr)
        PROVE  q = r
    <3>1. End(q) \in Nat
      BY <1>1 DEF End
    <3>2. q = r \/ End(q) <= r.base \/ End(r) <= q.base
      BY DEF RegionsOK
    <3>3. QED
      BY <1>1, <2>4, <2>5, <2>6, <3>1, <3>2 DEF Covers
  <2>7. Denotes(A, N, r, t)
    BY <2>3, <2>4, <2>5 DEF Denotes, Cell
  <2>8. QED
    BY <1>1, <2>4, <2>5, <2>6, <2>7 DEF Known
<1>3. QED
  BY <1>2

(* Known pointers stay known when regions die and environments move on.      *)
LEMMA KnownStays ==
  ASSUME NEW A, NEW N, NEW R, NEW b, NEW t, Known(A, N, R, b, t), NEW B, NEW M,
         \A slot, of : Settled(A, N, slot, of) => Settled(B, M, slot, of),
         NEW Q \in SUBSET R
  PROVE  Known(B, M, Q, b, t)
BY DEF Known, Denotes

LEMMA RegionsStay ==
  ASSUME NEW R, NEW b, RegionsOK(R, b), NEW Q \in SUBSET R
  PROVE  RegionsOK(Q, b)
<1>1. IsFiniteSet(Q)
  BY FS_Subset DEF RegionsOK
<1>2. QED
  BY <1>1 DEF RegionsOK

(***************************************************************************)
(* What is always true of regions, tombstones and the pointers handed out.   *)
(***************************************************************************)
PointersInv ==
    /\ ClaimsSettled(Envs, next_env_id)
    /\ RegionsOK(regions, next_base)
    /\ \A t \in taken : Known(Envs, next_env_id, regions, next_base, t)

(* Addresses of the place `root`, bound as `of`, are handed out.              *)
Adds(root, of) ==
    /\ regions \subseteq regions' /\ tombstones' = tombstones
    /\ \A r \in regions' : r \in regions \/ (r.frame = current_frame /\ r.root = root)
    /\ \A t \in taken' :
          \/ t \in taken
          \/ t.of = of /\ (\E r \in regions' : Covers(r, t.addr) /\ r.root = root)

LEMMA AddsIs ==
  ASSUME NEW root, NEW of, NEW r, r.root = root, r \in regions \/ r.frame = current_frame,
         regions' = regions \cup {r}, tombstones' = tombstones,
         NEW new, taken' = taken \cup new, \A t \in new : t.of = of /\ Covers(r, t.addr)
  PROVE  Adds(root, of)
<1>1. r \in regions'
  OBVIOUS
<1>2. ASSUME NEW t \in taken', t \notin taken
      PROVE  t.of = of /\ \E q \in regions' : Covers(q, t.addr) /\ q.root = root
  BY <1>1, <1>2
<1>3. ASSUME NEW q \in regions', q \notin regions
      PROVE  q.frame = current_frame /\ q.root = root
  BY <1>3
<1>4. QED
  BY <1>2, <1>3 DEF Adds

(* An address is taken.                                                    *)
LEMMA PushStep ==
  ASSUME PointersInv, Counters, NEW root, NEW x \in Var, NEW of,
         Settled(Envs, next_env_id, root, of),
         NEW cells \in SUBSET (0 .. Cells[x] - 1), Cells[x] > 0, PushRegion(root, x, of, cells)
  PROVE  /\ RegionsOK(regions', next_base')
         /\ \A t \in taken' : Known(Envs, next_env_id, regions', next_base', t)
         /\ Adds(root, of)
<1> DEFINE fresh == [base |-> next_base, stride |-> Stride[x], len |-> Cells[x],
                     frame |-> current_frame, root |-> root]
           known == {r \in regions : SamePlace(r, fresh)}
           base == IF known = {} THEN next_base ELSE (CHOOSE r \in known : TRUE).base
           new == Pointers(base, Stride[x], of, cells)
<1>1. /\ IF known = {} THEN regions' = regions \cup {fresh} /\ next_base' = NextBase(fresh)
                       ELSE regions' = regions /\ next_base' = next_base
      /\ taken' = taken \cup new /\ tombstones' = tombstones
  BY DEF PushRegion, Pointers
<1>2. /\ Stride[x] \in Nat /\ Stride[x] > 0 /\ Cells[x] \in Nat /\ Cells[x] > 0
      /\ RegionsOK(regions, next_base) /\ next_base \in Nat
      /\ \A t \in taken : Known(Envs, next_env_id, regions, next_base, t)
      /\ root \in SlotType
  BY DEF PointersInv, RegionsOK, Settled
<1>3. /\ fresh \in RegionType /\ fresh.base = next_base /\ fresh.stride = Stride[x]
      /\ fresh.len = Cells[x] /\ fresh.root = root /\ fresh.frame = current_frame
  BY <1>2 DEF RegionType, Counters
<1> HIDE DEF fresh
<1>4. CASE known = {}
  <2>1. new = Pointers(next_base, fresh.stride, of, cells)
    BY <1>3, <1>4
  <2>2. regions' = regions \cup {fresh} /\ next_base' = NextBase(fresh)
    BY <1>1, <1>4
  <2> HIDE DEF known, new
  <2>3. fresh.stride > 0 /\ fresh.len > 0 /\ cells \in SUBSET (0 .. fresh.len - 1)
    BY <1>2, <1>3
  <2>4. Settled(Envs, next_env_id, fresh.root, of)
    BY <1>3
  <2>5. /\ RegionsOK(regions \cup {fresh}, NextBase(fresh))
        /\ \A t \in taken \cup new : Known(Envs, next_env_id, regions \cup {fresh}, NextBase(fresh), t)
    BY <1>2, <1>3, <2>1, <2>3, <2>4, RegionAdded
  <2>7. \A t \in new : t.of = of /\ Covers(fresh, t.addr)
    <3>1. new = Pointers(fresh.base, fresh.stride, of, cells)
      BY <1>3, <2>1
    <3>2. QED
      BY <1>3, <2>3, <3>1, PointersCovered
  <2>8. Adds(root, of)
    <3>1. taken' = taken \cup new /\ tombstones' = tombstones
      BY <1>1
    <3>2. fresh.root = root /\ fresh.frame = current_frame
      BY <1>3
    <3>3. QED
      BY <2>2, <2>7, <3>1, <3>2, AddsIs
  <2>6. QED
    BY <1>1, <2>2, <2>5, <2>8
<1>5. CASE known # {}
  <2> DEFINE r == CHOOSE r \in known : TRUE
  <2>1. r \in known /\ base = r.base
    BY <1>5
  <2> HIDE DEF r
  <2>2. r \in regions /\ r.root = root /\ r.stride = Stride[x] /\ r.len = Cells[x]
    BY <1>3, <2>1 DEF SamePlace
  <2>3. new = Pointers(r.base, r.stride, of, cells)
    BY <2>1, <2>2
  <2>4. regions' = regions /\ next_base' = next_base
    BY <1>1, <1>5
  <2> HIDE DEF known, new, base
  <2>5. cells \in SUBSET (0 .. r.len - 1) /\ Settled(Envs, next_env_id, r.root, of)
    BY <2>2
  <2>6. RegionsOK(regions, next_base) /\ \A t \in taken : Known(Envs, next_env_id, regions, next_base, t)
    BY <1>2
  <2>8. r \in regions
    BY <2>2
  <2>9. \A t \in taken \cup new : Known(Envs, next_env_id, regions, next_base, t)
    BY <2>3, <2>5, <2>6, <2>8, RegionReused
  <2>10. r \in RegionType /\ r.stride > 0
    BY <2>6, <2>8 DEF RegionsOK
  <2>11. \A t \in new : t.of = of /\ Covers(r, t.addr)
    BY <2>3, <2>5, <2>10, PointersCovered
  <2>12. Adds(root, of)
    <3>1. regions' = regions \cup {r} /\ taken' = taken \cup new /\ tombstones' = tombstones
      BY <1>1, <2>4, <2>8
    <3>2. QED
      BY <2>2, <2>8, <2>11, <3>1, AddsIs
  <2>7. QED
    BY <1>1, <1>2, <2>4, <2>9, <2>12
<1>6. QED
  BY <1>4, <1>5

LEMMA AddrOfStep ==
  ASSUME StackInv, Counters, PointersInv, NEW x \in Var, AddrOf(x)
  PROVE  /\ RegionsOK(regions', next_base')
         /\ \A t \in taken' : Known(Envs, next_env_id, regions', next_base', t)
         /\ \E h \in Handles : Adds(h[1], h[2])
<1> DEFINE p == Nearest(Env, x)
<1>1. /\ Top.doing = "body" /\ Bound(Env, x) /\ Cells[x] > 0
      /\ PushRegion(Slot(Env, p), x, BornAt(Env, p), 0 .. Cells[x] - 1)
  BY DEF AddrOf, Runs
<1>2. Env \in EnvType
  BY <1>1, TopIs DEF EnvOK
<1>3. p \in Positions(Env)
  BY <1>1, <1>2, NearestIsBound
<1> HIDE DEF p
<1>4. <<Slot(Env, p), BornAt(Env, p)>> \in Handles
  BY <1>1, <1>3 DEF Handles
<1>5. Settled(Envs, next_env_id, Slot(Env, p), BornAt(Env, p))
  BY <1>4, HandlesSettled
<1> DEFINE h == <<Slot(Env, p), BornAt(Env, p)>>
<1>7. h[1] = Slot(Env, p) /\ h[2] = BornAt(Env, p) /\ h \in Handles
  BY <1>4
<1> HIDE DEF h
<1>6. QED
  BY <1>1, <1>5, <1>7, PushStep

LEMMA ArenaAllocStep ==
  ASSUME StackInv, Counters, PointersInv, ArenaAlloc
  PROVE  /\ RegionsOK(regions', next_base')
         /\ \A t \in taken' : Known(Envs, next_env_id, regions', next_base', t)
         /\ \E h \in Handles : Adds(h[1], h[2])
<1> DEFINE p == Nearest(Env, arena_key)
           state == EntryAt(Env, p).arena
<1>1. /\ Top.doing = "body" /\ Bound(Env, arena_key) /\ At(Env, state.buffer) # {}
      /\ state.cursor + 1 <= Cells[state.name]
      /\ PushRegion(state.buffer, state.name, state.born, {state.cursor})
  BY DEF ArenaAlloc, Runs
<1>2. /\ Env \in EnvType /\ Env.id > 0 /\ Env \in Envs
      /\ \A q \in Positions(Env) : ArenaNamed(EntryAt(Env, q))
  <2>1. EnvOK(Env) /\ Own(frames, env_shelf, Depth) = Env /\ Depth \in 1..Depth
    BY <1>1, TopIs
  <2>2. Env \in Envs
    BY <2>1 DEF Envs, EnvsOf, Depth
  <2>3. QED
    BY <2>1, <2>2 DEF EnvOK
<1>3. p \in Positions(Env)
  BY <1>1, <1>2, NearestIsBound
<1>4. EntryAt(Env, p) \in EntryType /\ state \in ArenaType
  BY <1>2, <1>3, PositionsAre DEF EntryType
<1>5. state.buffer.env = Env.id /\ state.cursor \in Nat /\ state.born \in Nat
  <2>1. PICK q \in Positions(Env) : Slot(Env, q) = state.buffer
    BY <1>1 DEF At
  <2>2. QED
    BY <1>4, <2>1 DEF Slot, ArenaType
<1>6. state.name \in Var
  BY <1>2, <1>3, <1>5 DEF ArenaNamed
<1>7. Settled(Envs, next_env_id, state.buffer, state.born)
  <2> DEFINE c == <<state.buffer, state.born>>
  <2>1. c \in Claims(Env)
    BY <1>3 DEF Claims, Claim
  <2>2. c # NoClaim
    BY <1>2, <1>5 DEF NoClaim, NoSlot
  <2>3. c[1] = state.buffer /\ c[2] = state.born
    OBVIOUS
  <2> HIDE DEF c
  <2>4. Settled(Envs, next_env_id, c[1], c[2])
    BY <1>2, <2>1, <2>2 DEF PointersInv, ClaimsSettled
  <2>5. QED
    BY <2>3, <2>4
<1> HIDE DEF state
<1>11. \E h \in Handles : h[1] = state.buffer /\ h[2] = state.born
  <2>1. PICK q \in Positions(Env) : Slot(Env, q) = state.buffer
    BY <1>1 DEF At
  <2>2. q[1] \in DOMAIN Env.scopes /\ Env.scopes[q[1]].id = state.buffer.scope
        /\ q[2] = state.buffer.entry
    BY <1>2, <2>1, PositionsAre DEF Slot
  <2>3. BornAt(Env, q) = state.born
    BY <1>2, <1>5, <1>7, <2>2 DEF Settled, BornAt, EntryAt
  <2>4. <<Slot(Env, q), BornAt(Env, q)>> \in Handles
    BY <1>1 DEF Handles
  <2>5. QED
    BY <2>1, <2>3, <2>4
<1>8. Cells[state.name] \in Nat /\ Cells[state.name] > 0
  BY <1>1, <1>5, <1>6
<1>9. {state.cursor} \in SUBSET (0 .. Cells[state.name] - 1)
  BY <1>1, <1>5, <1>8
<1>10. QED
  BY <1>1, <1>6, <1>7, <1>8, <1>9, <1>11, PushStep

LEMMA PointersStep ==
  ASSUME StackInv, Counters, PointersInv, Next
  PROVE  PointersInv'
<1>1. /\ ClaimsSettled(Envs', next_env_id')
      /\ \A slot, of : Settled(Envs, next_env_id, slot, of) => Settled(Envs', next_env_id', slot, of)
  BY StackStep, MovesSettled DEF PointersInv
<1>2. ASSUME RegionsOK(regions', next_base'),
             \A t \in taken' : Known(Envs, next_env_id, regions', next_base', t)
      PROVE  PointersInv'
  <2>1. \A t \in taken' : Known(Envs', next_env_id', regions', next_base', t)
    BY <1>1, <1>2, KnownStays
  <2>2. QED
    BY <1>1, <1>2, <2>1 DEF PointersInv
<1>3. ASSUME regions' \in SUBSET regions, next_base' = next_base, taken' = taken
      PROVE  PointersInv'
  <2>1. RegionsOK(regions', next_base')
    BY <1>3, RegionsStay DEF PointersInv
  <2>2. \A t \in taken' : Known(Envs, next_env_id, regions', next_base', t)
    BY <1>3, KnownStays DEF PointersInv
  <2>3. QED
    BY <1>2, <2>1, <2>2
<1>4. ASSUME UNCHANGED <<regions, next_base, taken>>
      PROVE  PointersInv'
  BY <1>3, <1>4
<1>5. ASSUME NEW x \in Var, Let(x) \/ Assign(x) \/ DeclareArena(x) \/ StartBuiltin(x)
      PROVE  PointersInv'
  BY <1>4, <1>5 DEF Let, Assign, DeclareArena, StartBuiltin, rawVars, history
<1>6. ASSUME NEW x \in Var, AddrOf(x)
      PROVE  PointersInv'
  BY <1>2, <1>6, AddrOfStep
<1>7. ASSUME NEW addr, Store(addr)
      PROVE  PointersInv'
  BY <1>4, <1>7 DEF Store, rawVars, history
<1>8. CASE OpenScope \/ CloseScope \/ EndBuiltin \/ EndAwait
  BY <1>4, <1>8 DEF OpenScope, CloseScope, EndBuiltin, EndAwait, rawVars, history
<1>9. CASE ArenaAlloc
  BY <1>2, <1>9, ArenaAllocStep
<1>10. ASSUME NEW below, NEW kind, EnterFrame(below, kind)
       PROVE  PointersInv'
  BY <1>4, <1>10 DEF EnterFrame, history
<1>11. ASSUME NEW kind \in {"function", "closure"}, Call(kind) \/ Callback(kind)
       PROVE  PointersInv'
  BY <1>10, <1>11 DEF Call, Callback
<1>12. CASE Turn
  BY <1>10, <1>12 DEF Turn
<1>13. ASSUME NEW wakes, Leave(wakes), taken' = taken
       PROVE  PointersInv'
  BY <1>3, <1>13 DEF Leave, ExitFrame
<1>14. CASE Return
  BY <1>13, <1>14 DEF Return, history
<1>15. ASSUME NEW depth \in 1..Len(Env.scopes) - 1, Catch(depth)
       PROVE  PointersInv'
  BY <1>4, <1>15 DEF Catch, rawVars
<1>16. ASSUME NEW error \in {"throw", "early"}, Unwind(error)
       PROVE  PointersInv'
  BY <1>13, <1>16 DEF Unwind
<1>17. QED
  BY <1>5, <1>6, <1>7, <1>8, <1>9, <1>11, <1>12, <1>14, <1>15, <1>16 DEF Next

LEMMA PointersInit ==
  ASSUME Init
  PROVE  PointersInv
<1>1. /\ frames = <<[id |-> 1, outer |-> 0, kind |-> "function", env |-> NewEnv(1), home |-> 1,
                     doing |-> "body", moved |-> arena_key, shelved |-> FALSE]>>
      /\ env_pool = << >> /\ regions = {} /\ next_base = 0 /\ taken = {}
  BY DEF Init
<1>2. Claims(NewEnv(1)) = {}
  BY NewEnvIs
<1>3. \A e \in Envs : e = NewEnv(1)
  <2>1. 1..Len(frames) = {1} /\ 1..Len(env_pool) = {} /\ Own(frames, env_shelf, 1) = NewEnv(1)
    BY <1>1 DEF Own
  <2>2. QED
    BY <2>1 DEF Envs, EnvsOf
<1>4. ClaimsSettled(Envs, next_env_id)
  BY <1>2, <1>3 DEF ClaimsSettled
<1>5. RegionsOK(regions, next_base)
  BY <1>1, FS_EmptySet DEF RegionsOK
<1>6. QED
  BY <1>1, <1>4, <1>5 DEF PointersInv

LEMMA PointersAlways == Spec => []PointersInv
<1>1. Init => PointersInv
  BY PointersInit
<1>2. StackInv /\ Counters /\ StackInv' /\ PointersInv /\ [Next]_vars => PointersInv'
  <2> SUFFICES ASSUME StackInv, Counters, StackInv', PointersInv, [Next]_vars
               PROVE  PointersInv'
    OBVIOUS
  <2>1. CASE Next
    BY <2>1, PointersStep
  <2>2. CASE UNCHANGED vars
    BY <2>2 DEF vars, envVars, rawVars, history, PointersInv, Envs
  <2>3. QED
    BY <2>1, <2>2
<1>3. QED
  BY <1>1, <1>2, StackAlways, PTL DEF Spec

(* Every environment on the shelf is a frame's.                             *)
LEMMA ShelfIsOwned ==
  ASSUME NEW F, NEW s, Paired(F, s), NEW k \in 1..Len(s)
  PROVE  \E i \in 1..Len(F) : F[i].shelved /\ s[k] = Own(F, s, i)
<1> DEFINE n == Len(F)
           T == {i \in 1..n : Count(F, i - 1) < k}
<1>1. n \in Nat /\ n > 0 /\ Len(s) = Count(F, n) /\ k \in Nat /\ 1 <= k /\ k <= Len(s)
  BY PairedIs DEF Paired
<1>2. T \in SUBSET (1..n) /\ T # {}
  <2>1. Count(F, 0) = 0 /\ 1 - 1 = 0 /\ 1 \in 1..n
    BY <1>1, CountIs
  <2>2. Count(F, 1 - 1) < k
    BY <1>1, <2>1
  <2>3. QED
    BY <2>1, <2>2
<1>3. PICK i \in T : \A j \in T : j <= i
  BY <1>1, <1>2, Largest
<1>4. /\ i \in Nat /\ i > 0 /\ i \in 1..n /\ i - 1 \in Nat /\ Count(F, i - 1) < k
      /\ Count(F, i) \in Nat /\ Count(F, i - 1) \in Nat
      /\ Count(F, i) = Count(F, i - 1) + IF F[i].shelved THEN 1 ELSE 0
  <2>1. i \in Nat /\ i > 0 /\ i \in 1..n /\ i - 1 \in Nat /\ Count(F, i - 1) < k
    BY <1>1
  <2>2. QED
    BY <2>1, CountIs
<1>5. Count(F, i) >= k
  <2>1. CASE i = n
    BY <1>1, <2>1
  <2>2. CASE i # n
    <3>1. i + 1 \in 1..n /\ (i + 1) - 1 = i /\ ~ (i + 1 <= i)
      BY <1>1, <1>4, <2>2
    <3>2. i + 1 \notin T
      <4> HIDE DEF T
      <4>1. QED
        BY <1>3, <3>1
    <3>3. ~ (Count(F, (i + 1) - 1) < k)
      BY <3>1, <3>2
    <3>4. QED
      BY <1>1, <1>4, <3>1, <3>3
  <2>3. QED
    BY <2>1, <2>2
<1>6. F[i].shelved /\ Count(F, i) = k
  BY <1>1, <1>4, <1>5
<1>7. QED
  BY <1>4, <1>6 DEF Own

LEMMA PointersAreHonest ==
  ASSUME StackInv, PointersInv
  PROVE  DerefIsHonest
<1> SUFFICES ASSUME Runs, NEW t \in taken, Deref(t.addr).outcome = "place"
             PROVE  Deref(t.addr).of = t.of /\ Deref(t.addr).cell = t.cell
  BY DEF DerefIsHonest
<1> DEFINE r == RegionAt(t.addr)
           places == UNION {{e} \X At(e, r.root) : e \in OwningEnvs(r.root)}
           place == CHOOSE place \in places : TRUE
<1>1. /\ Covering(t.addr) # {} /\ places # {}
      /\ Deref(t.addr).of = BornAt(place[1], place[2]) /\ Deref(t.addr).cell = Cell(r, t.addr)
  BY DEF Deref, Refusal
<1>2. r \in regions /\ Covers(r, t.addr)
  BY <1>1 DEF RegionAt, Covering
<1>3. place \in places
  BY <1>1
<1> HIDE DEF r, place
<1>4. Settled(Envs, next_env_id, r.root, t.of) /\ Cell(r, t.addr) = t.cell
  BY <1>2 DEF PointersInv, Known, Denotes
<1>5. PICK e \in OwningEnvs(r.root) : place[1] = e /\ place[2] \in At(e, r.root)
  BY <1>3
<1>6. e \in Envs /\ e.id = r.root.env
  <2>1. Own(frames, env_shelf, Depth) = Env /\ Depth \in 1..Depth
    BY TopIs DEF Runs
  <2>2. Env \in Envs
    BY <2>1 DEF Envs, EnvsOf, Depth
  <2>3. ASSUME NEW i \in DOMAIN env_shelf
        PROVE  env_shelf[i] \in Envs
    <3>1. Paired(frames, env_shelf) /\ i \in 1..Len(env_shelf)
      BY PairedIs DEF StackInv, StackOK
    <3>2. QED
      BY <3>1, ShelfIsOwned DEF Envs, EnvsOf
  <2>4. QED
    BY <2>2, <2>3 DEF OwningEnvs, Reachable
<1>7. /\ place[2] \in Positions(e) /\ e \in EnvType
      /\ e.scopes[place[2][1]].id = r.root.scope /\ place[2][2] = r.root.entry
  BY <1>5, <1>6, EnvsAreOK DEF At, Slot, StackInv, Envs, EnvOK
<1>8. /\ place[2][1] \in DOMAIN e.scopes
      /\ BornAt(e, place[2]) = e.scopes[place[2][1]].entries[place[2][2]].born
  BY <1>7, PositionsAre DEF BornAt, EntryAt
<1>9. e.scopes[place[2][1]].entries[r.root.entry].born = t.of
  BY <1>4, <1>6, <1>7, <1>8 DEF Settled
<1>10. QED
  BY <1>1, <1>4, <1>5, <1>7, <1>8, <1>9

(***************************************************************************)
(* An access through an address that the program was given reaches the very   *)
(* cell the address was taken of, or is refused (DerefIsHonest), for every    *)
(* program, every layout of its variables and every depth of the stack.      *)
(***************************************************************************)
THEOREM DerefHonest == Spec => []DerefIsHonest
<1>1. StackInv /\ PointersInv => DerefIsHonest
  BY PointersAreHonest
<1>2. QED
  BY <1>1, StackAlways, PointersAlways, PTL

-----------------------------------------------------------------------------
(* Types.  The regions of a frame that returns have different ages, 1 to their *)
(* number, so that ByAge is the sequence of them.                           *)
LEMMA ByAgeIs ==
  ASSUME NEW R, NEW b, RegionsOK(R, b)
  PROVE  /\ ByAge(R) \in Seq(RegionType)
         /\ \A r \in R : \E k \in 1..Len(ByAge(R)) : ByAge(R)[k] = r
<1> DEFINE upTo(r) == {q \in R : q.base <= r.base}
           n == Cardinality(R)
           f == [r \in R |-> Age(r, R)]
<1>1. /\ IsFiniteSet(R) /\ n \in Nat
      /\ \A r \in R : r.base \in Nat /\ r \in RegionType
  BY FS_CardinalityType DEF RegionsOK, RegionType
<1>2. ASSUME NEW r \in R
      PROVE  /\ upTo(r) \in SUBSET R /\ IsFiniteSet(upTo(r)) /\ Age(r, R) = Cardinality(upTo(r))
             /\ Age(r, R) \in 1..n
  <2>1. upTo(r) \in SUBSET R /\ r \in upTo(r) /\ upTo(r) # {} /\ Age(r, R) = Cardinality(upTo(r))
    BY <1>1 DEF Age
  <2> HIDE DEF upTo
  <2>2. IsFiniteSet(upTo(r)) /\ Cardinality(upTo(r)) <= n
    BY <1>1, <2>1, FS_Subset
  <2>3. Cardinality(upTo(r)) \in Nat /\ Cardinality(upTo(r)) # 0
    BY <2>1, <2>2, FS_CardinalityType, FS_EmptySet
  <2> HIDE DEF n
  <2>4. QED
    BY <1>1, <2>1, <2>2, <2>3
<1>3. ASSUME NEW r \in R, NEW q \in R, r.base < q.base
      PROVE  Age(r, R) # Age(q, R)
  <2>1. upTo(r) \in SUBSET upTo(q) /\ q \in upTo(q) /\ q \notin upTo(r)
    BY <1>1, <1>3
  <2> HIDE DEF upTo
  <2>2. Cardinality(upTo(q)) # Cardinality(upTo(r))
    BY <1>2, <2>1, FS_Subset
  <2>3. QED
    BY <1>2, <2>2
<1>4. ASSUME NEW r \in R, NEW q \in R, r # q
      PROVE  r.base < q.base \/ q.base < r.base
  <2>1. /\ r.stride \in Nat /\ r.len \in Nat /\ q.stride \in Nat /\ q.len \in Nat
        /\ r.stride > 0 /\ r.len > 0 /\ q.stride > 0 /\ q.len > 0
    BY DEF RegionsOK, RegionType
  <2>2. /\ 0 < r.stride * r.len /\ r.stride * r.len \in Nat
        /\ 0 < q.stride * q.len /\ q.stride * q.len \in Nat
    BY <2>1
  <2>3. End(r) <= q.base \/ End(q) <= r.base
    BY <1>4 DEF RegionsOK
  <2>4. QED
    BY <1>1, <2>2, <2>3 DEF End
<1> HIDE DEF upTo
<1>5. f \in Injection(R, 1..n)
  BY <1>2, <1>3, <1>4 DEF Injection, IsInjective
<1>6. f \in Surjection(R, 1..n)
  <2>1. IsFiniteSet(1..n) /\ Cardinality(1..n) = n
    BY <1>1, FS_Interval
  <2> HIDE DEF f
  <2>2. QED
    BY <1>5, <2>1, FS_Injection
<1>7. \A k \in 1..n : \E r \in R : Age(r, R) = k
  BY <1>6 DEF Surjection
<1>8. \A k \in 1..n : (CHOOSE r \in R : Age(r, R) = k) \in RegionType
  BY <1>1, <1>7
<1> HIDE DEF n
<1>9. ByAge(R) = [k \in 1..n |-> CHOOSE r \in R : Age(r, R) = k]
  BY DEF ByAge, n
<1>10. ByAge(R) \in Seq(RegionType) /\ Len(ByAge(R)) = n
  BY <1>1, <1>8, <1>9
<1>11. ASSUME NEW r \in R
       PROVE  Age(r, R) \in 1..n /\ ByAge(R)[Age(r, R)] = r
  <2>1. Age(r, R) \in 1..n
    BY <1>2
  <2>2. \A q \in R : Age(q, R) = Age(r, R) => q = r
    BY <1>3, <1>4
  <2>3. (CHOOSE q \in R : Age(q, R) = Age(r, R)) = r
    BY <2>2
  <2>4. QED
    BY <1>9, <2>1, <2>3
<1>12. QED
  BY <1>10, <1>11

LEMMA LastIs ==
  ASSUME NEW S, NEW s \in Seq(S), NEW n \in Nat
  PROVE  /\ Last(s, n) \in Seq(S) /\ Len(Last(s, n)) <= n
         /\ Last(s, n) = s \/ Len(Last(s, n)) = n
<1>1. CASE Len(s) > n
  BY <1>1 DEF Last
<1>2. CASE ~ (Len(s) > n)
  <2>1. Last(s, n) = SubSeq(s, 1, Len(s))
    BY <1>2 DEF Last
  <2>2. Last(s, n) = s
    BY <2>1
  <2>3. QED
    BY <1>2, <2>2
<1>3. QED
  BY <1>1, <1>2

TombstonesOK == tombstones \in Seq(RegionType) /\ Len(tombstones) <= TombstoneCapacity

LEMMA TombstonesStep ==
  ASSUME PointersInv, TombstonesOK, Next
  PROVE  TombstonesOK'
<1>1. ASSUME ExitFrame
      PROVE  TombstonesOK'
  <2> DEFINE dead == {r \in regions : Dead(r)}
  <2>1. RegionsOK(dead, next_base)
    BY RegionsStay DEF PointersInv
  <2> HIDE DEF dead
  <2>2. tombstones \o ByAge(dead) \in Seq(RegionType)
    <3>1. ByAge(dead) \in Seq(RegionType)
      BY <2>1, ByAgeIs
    <3>2. QED
      BY <3>1 DEF TombstonesOK
  <2>3. tombstones' = Last(tombstones \o ByAge(dead), TombstoneCapacity)
    BY <1>1 DEF ExitFrame, dead
  <2>4. QED
    BY <2>2, <2>3, LastIs DEF TombstonesOK
<1>2. ASSUME tombstones' = tombstones
      PROVE  TombstonesOK'
  BY <1>2 DEF TombstonesOK
<1>3. ASSUME NEW x \in Var, Let(x) \/ Assign(x) \/ AddrOf(x) \/ DeclareArena(x) \/ StartBuiltin(x)
      PROVE  TombstonesOK'
  BY <1>2, <1>3 DEF Let, Assign, AddrOf, DeclareArena, StartBuiltin, PushRegion, rawVars
<1>4. ASSUME NEW addr, Store(addr)
      PROVE  TombstonesOK'
  BY <1>2, <1>4 DEF Store, rawVars
<1>5. CASE OpenScope \/ CloseScope \/ ArenaAlloc \/ EndBuiltin \/ EndAwait
  BY <1>2, <1>5 DEF OpenScope, CloseScope, ArenaAlloc, EndBuiltin, EndAwait, PushRegion, rawVars
<1>6. ASSUME NEW kind \in {"function", "closure"}, Call(kind) \/ Callback(kind)
      PROVE  TombstonesOK'
  BY <1>2, <1>6 DEF Call, Callback, EnterFrame
<1>7. CASE Turn
  BY <1>2, <1>7 DEF Turn, EnterFrame
<1>8. CASE Return
  BY <1>1, <1>8 DEF Return, Leave
<1>9. ASSUME NEW depth \in 1..Len(Env.scopes) - 1, Catch(depth)
      PROVE  TombstonesOK'
  BY <1>2, <1>9 DEF Catch, rawVars
<1>10. ASSUME NEW error \in {"throw", "early"}, Unwind(error)
       PROVE  TombstonesOK'
  BY <1>1, <1>10 DEF Unwind, Leave
<1>11. QED
  BY <1>3, <1>4, <1>5, <1>6, <1>7, <1>8, <1>9, <1>10 DEF Next

LEMMA TypesFollow ==
  ASSUME StackInv, Counters, PointersInv, TombstonesOK
  PROVE  TypeOK
<1>1. /\ frames \in Seq(FrameType) /\ env_shelf \in Seq(EnvType) /\ env_pool \in Seq(EnvType)
      /\ next_env_id \in Nat
  BY TopIs
<1>2. frames # << >>
  BY DEF StackInv, StackOK, Paired
<1>3. regions \subseteq RegionType /\ next_base \in Nat
  BY DEF PointersInv, RegionsOK
<1>4. taken \subseteq [addr : Nat, of : Nat, cell : Nat]
  BY DEF PointersInv, Known
<1>5. QED
  BY <1>1, <1>2, <1>3, <1>4 DEF TypeOK, Counters, TombstonesOK

(***************************************************************************)
(* Every variable keeps its type (TypeOK), and the quarantine of returned     *)
(* regions never outgrows its capacity (TOMBSTONE_CAPACITY in raw_pointer.rs).    *)
(***************************************************************************)
THEOREM TypeCorrect == Spec => []TypeOK
<1>1. Init => TombstonesOK
  BY DEF Init, TombstonesOK
<1>2. PointersInv /\ TombstonesOK /\ [Next]_vars => TombstonesOK'
  <2> SUFFICES ASSUME PointersInv, TombstonesOK, [Next]_vars
               PROVE  TombstonesOK'
    OBVIOUS
  <2>1. CASE Next
    BY <2>1, TombstonesStep
  <2>2. CASE UNCHANGED vars
    BY <2>2 DEF vars, rawVars, TombstonesOK
  <2>3. QED
    BY <2>1, <2>2
<1>3. StackInv /\ Counters /\ PointersInv /\ TombstonesOK => TypeOK
  BY TypesFollow
<1>4. QED
  BY <1>1, <1>2, <1>3, StackAlways, PointersAlways, PTL DEF Spec


-----------------------------------------------------------------------------
(* A step, frame by frame.  A placeholder in the environment e of frame f is   *)
(* owed a value by the builtin that f is suspended in, or is one of those      *)
(* that are lost.                                                          *)
Owes(f, e, L) ==
    \A p \in Positions(e) : EntryAt(e, p).hole =>
        \/ BornAt(e, p) \in L
        \/ f.doing = "builtin" /\ p = Nearest(e, f.moved)

(* f waits for what it called, its environment not being on the shelf.        *)
Bare(f) == f.doing \in {"call", "builtin"} /\ ~ f.shelved

(* Frame f, with environment e, goes on as g, with h.                        *)
GoesOn(f, e, g, h, new) ==
    /\ g.id = f.id /\ g.home = f.home
    /\ PlacesOf(h) \subseteq PlacesOf(e) \cup new
    /\ Bare(g) => regions = {} \/ Bare(f)
    /\ Owes(f, e, lost) => Owes(g, h, lost')

(* No frame but the last one runs.                                          *)
Sleeping == \A i \in 1..Depth : i < Depth => frames[i].doing # "body"

(* The first n frames go on, and at most one is entered on top of them.       *)
Advances(n, new) ==
    /\ n \in 1..Depth /\ Fresh(new) /\ births' \in {births, births + 1}
    /\ \A i \in 1..n : GoesOn(frames[i], Own(frames, env_shelf, i),
                              frames'[i], Own(frames', env_shelf', i), new)
    /\ \/ Depth' = n /\ next_frame' = next_frame
       \/ /\ Depth' = n + 1 /\ next_frame' = next_frame + 1
          /\ frames'[Depth'].id = next_frame /\ ~ Bare(frames'[Depth'])
          /\ Positions(Own(frames', env_shelf', Depth')) = {}

LEMMA GoesItself ==
  ASSUME lost \subseteq lost', NEW f, NEW e, NEW new
  PROVE  GoesOn(f, e, f, e, new)
BY DEF GoesOn, Owes

(* A running frame has no placeholder but the lost ones, and makes none.      *)
LEMMA RunsOn ==
  ASSUME lost' = lost, NEW f, f.doing = "body", NEW e, NEW g, g.doing = "body",
         g.id = f.id, g.home = f.home, NEW h, NEW new, Inherits(e, h, new)
  PROVE  GoesOn(f, e, g, h, new)
<1>1. ASSUME Owes(f, e, lost)
      PROVE  Owes(g, h, lost')
  <2>1. Gaps(e) \subseteq lost
    BY <1>1 DEF Gaps, Owes
  <2>2. Gaps(h) \subseteq lost
    BY <2>1 DEF Inherits
  <2>3. QED
    BY <2>2 DEF Gaps, Owes
<1>2. QED
  BY <1>1 DEF GoesOn, Bare, Inherits

(* All but the last frame are the same, which goes on.                       *)
LEMMA LastGoesOn ==
  ASSUME StackInv, lost' = lost, births' \in {births, births + 1}, NEW new, Fresh(new),
         Depth' = Depth, next_frame' = next_frame,
         Same(frames, env_shelf, frames', env_shelf', Depth - 1),
         GoesOn(Top, Own(frames, env_shelf, Depth),
                frames'[Depth], Own(frames', env_shelf', Depth), new)
  PROVE  Advances(Depth, new) /\ (Sleeping => Sleeping')
<1>1. Depth \in Nat /\ Depth \in 1..Depth
  BY TopIs
<1>2. \A i \in 1..Depth : i = Depth \/ i \in 1..(Depth - 1)
  BY <1>1
<1>3. ASSUME NEW i \in 1..Depth
      PROVE  GoesOn(frames[i], Own(frames, env_shelf, i),
                    frames'[i], Own(frames', env_shelf', i), new)
  <2>1. CASE i = Depth
    BY <2>1 DEF Top
  <2>2. CASE i \in 1..(Depth - 1)
    <3>1. frames'[i] = frames[i] /\ Own(frames', env_shelf', i) = Own(frames, env_shelf, i)
      BY <2>2 DEF Same
    <3>2. QED
      BY <3>1, GoesItself
  <2>3. QED
    BY <1>2, <2>1, <2>2
<1>4. ASSUME Sleeping
      PROVE  Sleeping'
  <2>1. ASSUME NEW i \in 1..Depth, i < Depth
        PROVE  frames'[i].doing # "body"
    <3>1. i \in 1..(Depth - 1)
      BY <1>1, <2>1
    <3>2. QED
      BY <1>4, <2>1, <3>1 DEF Same, Sleeping
  <2>2. QED
    BY <2>1 DEF Sleeping
<1>5. QED
  BY <1>1, <1>3, <1>4 DEF Advances

LEMMA SetEnvAdvances ==
  ASSUME StackInv, Top.doing = "body", NEW e, NEW new, Becomes(Env, e, new), SetEnv(e),
         UNCHANGED <<envVars, current_frame, next_frame, lost>>,
         births' \in {births, births + 1}, NEW more, Inherits(Env, e, more), Fresh(more)
  PROVE  Advances(Depth, more) /\ (Sleeping => Sleeping')
<1>1. /\ Depth' = Depth /\ Same(frames, env_shelf, frames', env_shelf', Depth - 1)
      /\ frames'[Depth] = [Top EXCEPT !.env = e] /\ Own(frames', env_shelf', Depth) = e
  BY SetEnvStep
<1>2. Own(frames, env_shelf, Depth) = Env /\ Top \in FrameType
  BY TopIs
<1>3. frames'[Depth].doing = "body" /\ frames'[Depth].id = Top.id /\ frames'[Depth].home = Top.home
  BY <1>1, <1>2 DEF FrameType
<1>4. GoesOn(Top, Env, frames'[Depth], e, more)
  BY <1>3, RunsOn
<1>5. QED
  BY <1>1, <1>2, <1>4, LastGoesOn

(* The stack as it is entered on top of: the last frame goes on as one that    *)
(* does not run.                                                           *)
LEMMA EnterAdvances ==
  ASSUME StackInv, UNCHANGED <<births, lost>>, NEW F, NEW s, Len(F) = Depth,
         Same(frames, env_shelf, F, s, Depth - 1), F[Depth].doing # "body",
         GoesOn(Top, Own(frames, env_shelf, Depth), F[Depth], Own(F, s, Depth), {}),
         Depth' = Len(F) + 1, env_shelf' = s, Same(F, s, frames', s, Len(F)),
         next_frame' = next_frame + 1,
         frames'[Depth'].id = next_frame, frames'[Depth'].doing = "body",
         Positions(Own(frames', s, Depth')) = {}
  PROVE  Advances(Depth, {}) /\ (Sleeping => Sleeping')
<1>1. Depth \in Nat /\ Depth \in 1..Depth /\ Depth' = Depth + 1
  BY TopIs
<1>2. \A i \in 1..Depth : i = Depth \/ i \in 1..(Depth - 1)
  BY <1>1
<1>3. ASSUME NEW i \in 1..Depth
      PROVE  GoesOn(frames[i], Own(frames, env_shelf, i),
                    frames'[i], Own(frames', env_shelf', i), {})
  <2>1. frames'[i] = F[i] /\ Own(frames', env_shelf', i) = Own(F, s, i)
    BY DEF Same
  <2>2. CASE i = Depth
    BY <2>1, <2>2 DEF Top
  <2>3. CASE i \in 1..(Depth - 1)
    <3>1. frames'[i] = frames[i] /\ Own(frames', env_shelf', i) = Own(frames, env_shelf, i)
      BY <2>1, <2>3 DEF Same
    <3>2. QED
      BY <3>1, GoesItself
  <2>4. QED
    BY <1>2, <2>2, <2>3
<1>4. ASSUME Sleeping
      PROVE  Sleeping'
  <2>1. ASSUME NEW i \in 1..Depth', i < Depth'
        PROVE  frames'[i].doing # "body"
    <3>1. i \in 1..Depth
      BY <1>1, <2>1
    <3>2. frames'[i] = F[i]
      BY <3>1 DEF Same
    <3>3. i \in 1..(Depth - 1) => F[i] = frames[i] /\ i < Depth
      BY <1>1 DEF Same
    <3>4. QED
      BY <1>2, <1>4, <3>1, <3>2, <3>3 DEF Sleeping
  <2>2. QED
    BY <2>1 DEF Sleeping
<1>5. Fresh({}) /\ ~ Bare(frames'[Depth'])
  BY DEF Fresh, Bare
<1>6. QED
  BY <1>1, <1>3, <1>4, <1>5 DEF Advances

(* The steps that suspend the running frame.                                *)
LEMMA CallAdvances ==
  ASSUME StackInv, Counters, NEW kind \in {"function", "closure"}, Call(kind)
  PROVE  Advances(Depth, {}) /\ (Sleeping => Sleeping')
<1> DEFINE F == Below(Suspended(Env, "call", arena_key))
           s == Shelved(Env)
<1>1. /\ Top.doing = "body" /\ env_shelf' = s /\ EnterFrame(F, kind)
      /\ UNCHANGED <<births, lost>> /\ next_frame' = next_frame + 1
  BY DEF Call, Runs, Shelve, Shelved, EnterFrame, history
<1>2. Becomes(Env, Env, {}) /\ arena_key \in Names /\ Own(frames, env_shelf, Depth) = Env
  BY <1>1, TopIs, BecomesItself DEF Names
<1>3. /\ StackOK(F, s, env_pool, next_env_id) /\ Len(F) = Depth /\ F[Depth].id = Top.id
      /\ Same(frames, env_shelf, F, s, Depth - 1) /\ Own(F, s, Depth) = Env
      /\ F[Depth].home = Top.home /\ F[Depth].doing = "call" /\ F[Depth].shelved = shelf_needed
  BY <1>1, <1>2, Suspends
<1> HIDE DEF F, s
<1>4. /\ Depth' = Len(F) + 1 /\ Same(F, s, frames', s, Len(F))
      /\ frames'[Depth'].id = next_frame /\ frames'[Depth'].doing = "body"
      /\ Positions(Own(frames', s, Depth')) = {}
  <2>1. F[Len(F)].id = current_frame
    BY <1>3 DEF StackInv
  <2>2. QED
    BY <1>1, <1>3, <2>1, Enters DEF Counters
<1>5. GoesOn(Top, Env, F[Depth], Env, {})
  BY <1>1, <1>3 DEF GoesOn, Bare, Owes, shelf_needed
<1>6. QED
  BY <1>1, <1>2, <1>3, <1>4, <1>5, EnterAdvances

LEMMA BuiltinAdvances ==
  ASSUME StackInv, Counters, NEW x \in Var, StartBuiltin(x)
  PROVE  Advances(Depth, {}) /\ (Sleeping => Sleeping')
<1> DEFINE e == Put(Env, x, TRUE)
           p == Nearest(Env, x)
<1>1. /\ Top.doing = "body" /\ Bound(Env, x) /\ env_shelf' = Shelved(e)
      /\ frames' = Below(Suspended(e, "builtin", x))
      /\ next_frame' = next_frame /\ births' = births /\ lost' = lost
  BY DEF StartBuiltin, Runs, Shelve, Shelved, rawVars, history
<1>2. EnvOK(Env) /\ Own(frames, env_shelf, Depth) = Env /\ x \in Names
  BY <1>1, TopIs DEF Names
<1>3. /\ Becomes(Env, e, {}) /\ Bound(e, x)
      /\ Positions(e) = Positions(Env) /\ PlacesOf(e) = PlacesOf(Env) /\ Nearest(e, x) = p
      /\ \A q \in Positions(Env) :
            /\ BornAt(e, q) = BornAt(Env, q)
            /\ q # p => EntryAt(e, q) = EntryAt(Env, q)
  BY <1>1, <1>2, PutBecomes
<1> HIDE DEF e
<1>4. /\ Depth' = Depth /\ frames'[Depth].id = Top.id
      /\ Same(frames, env_shelf, frames', env_shelf', Depth - 1)
      /\ Own(frames', env_shelf', Depth) = e
      /\ frames'[Depth].home = Top.home /\ frames'[Depth].doing = "builtin"
      /\ frames'[Depth].moved = x /\ frames'[Depth].shelved = shelf_needed
  BY <1>1, <1>2, <1>3, Suspends DEF Depth
<1>5. ASSUME Owes(Top, Env, lost)
      PROVE  Owes(frames'[Depth], e, lost')
  <2>1. ASSUME NEW q \in Positions(e), EntryAt(e, q).hole, q # p
        PROVE  BornAt(e, q) \in lost
    BY <1>1, <1>3, <1>5, <2>1 DEF Owes
  <2>2. QED
    BY <1>1, <1>3, <1>4, <2>1 DEF Owes
<1>6. GoesOn(Top, Env, frames'[Depth], e, {})
  BY <1>3, <1>4, <1>5 DEF GoesOn, Bare, shelf_needed
<1>7. Fresh({})
  BY DEF Fresh
<1>8. QED
  BY <1>1, <1>2, <1>4, <1>6, <1>7, LastGoesOn

LEMMA CallbackAdvances ==
  ASSUME StackInv, Counters, NEW kind \in {"function", "closure"}, Callback(kind)
  PROVE  Advances(Depth, {}) /\ (Sleeping => Sleeping')
<1>1. /\ EnterFrame(frames, kind) /\ env_shelf' = env_shelf /\ Top.doing = "builtin"
      /\ StackOK(frames, env_shelf, env_pool, next_env_id)
      /\ frames[Len(frames)].id = current_frame
      /\ UNCHANGED <<births, lost>> /\ next_frame' = next_frame + 1
  BY DEF Callback, StackInv, Top, Depth, EnterFrame, history
<1>2. /\ Depth' = Len(frames) + 1 /\ Same(frames, env_shelf, frames', env_shelf, Len(frames))
      /\ frames'[Depth'].id = next_frame /\ frames'[Depth'].doing = "body"
      /\ Positions(Own(frames', env_shelf, Depth')) = {}
  BY <1>1, Enters DEF Counters
<1>3. /\ Same(frames, env_shelf, frames, env_shelf, Depth - 1) /\ frames[Depth].doing # "body"
      /\ GoesOn(Top, Own(frames, env_shelf, Depth), frames[Depth], Own(frames, env_shelf, Depth), {})
  BY <1>1, GoesItself DEF Same, Top
<1>4. Len(frames) = Depth
  BY DEF Depth
<1>5. QED
  BY <1>1, <1>2, <1>3, <1>4, EnterAdvances

LEMMA TurnAdvances ==
  ASSUME StackInv, Counters, Turn
  PROVE  Advances(Depth, {}) /\ (Sleeping => Sleeping')
<1> DEFINE F == Below([Top EXCEPT !.doing = "await"])
<1>1. /\ Top.doing \in {"body", "await"} /\ env_shelf' = env_shelf /\ EnterFrame(F, "turn")
      /\ UNCHANGED <<births, lost>> /\ next_frame' = next_frame + 1
  BY DEF Turn, EnterFrame, history
<1>2. /\ StackOK(F, env_shelf, env_pool, next_env_id) /\ Len(F) = Depth /\ F[Depth].id = Top.id
      /\ Same(frames, env_shelf, F, env_shelf, Depth - 1)
      /\ Own(F, env_shelf, Depth) = Own(frames, env_shelf, Depth)
      /\ F[Depth].home = Top.home /\ F[Depth].doing = "await"
  BY <1>1, Awaits
<1> HIDE DEF F
<1>3. /\ Depth' = Len(F) + 1 /\ Same(F, env_shelf, frames', env_shelf, Len(F))
      /\ frames'[Depth'].id = next_frame /\ frames'[Depth'].doing = "body"
      /\ Positions(Own(frames', env_shelf, Depth')) = {}
  <2>1. F[Len(F)].id = current_frame
    BY <1>2 DEF StackInv
  <2>2. QED
    BY <1>1, <1>2, <2>1, Enters DEF Counters
<1>4. GoesOn(Top, Own(frames, env_shelf, Depth), F[Depth], Own(F, env_shelf, Depth), {})
  BY <1>1, <1>2 DEF GoesOn, Bare, Owes
<1>5. QED
  BY <1>1, <1>2, <1>3, <1>4, EnterAdvances

LEMMA EndBuiltinAdvances ==
  ASSUME StackInv, EndBuiltin
  PROVE  Advances(Depth, {}) /\ (Sleeping => Sleeping')
<1>1. /\ Top.doing = "builtin" /\ Unshelve(Top)
      /\ frames' = Below([Resumed(Top) EXCEPT !.env = WriteBack(@, Top.moved)])
      /\ UNCHANGED <<env_pool, next_env_id, current_frame>>
      /\ next_frame' = next_frame /\ births' = births /\ lost' = lost
  BY DEF EndBuiltin, rawVars, history
<1> DEFINE k == KeptEnv(Top)
           e == Put(k, Top.moved, FALSE)
<1>2. EnvOK(k) /\ Bound(k, Top.moved) /\ Own(frames, env_shelf, Depth) = k
  BY <1>1, KeptIs, TopIs DEF FrameOK
<1>3. frames' = Below(Woken(Top, e))
  <2>1. Resumed(Top).env = KeptEnv(Top)
    <3>1. Top \in FrameType
      BY TopIs
    <3>2. QED
      BY <3>1 DEF Resumed, FrameType
  <2>2. QED
    BY <1>1, <2>1 DEF Woken, WriteBack
<1> HIDE DEF k
<1>4. /\ Becomes(k, e, {}) /\ Positions(e) = Positions(k) /\ PlacesOf(e) = PlacesOf(k)
      /\ ~ EntryAt(e, Nearest(k, Top.moved)).hole
      /\ \A q \in Positions(k) :
            /\ BornAt(e, q) = BornAt(k, q)
            /\ q # Nearest(k, Top.moved) => EntryAt(e, q) = EntryAt(k, q)
  BY <1>2, PutBecomes
<1> HIDE DEF e
<1>5. /\ Depth' = Depth /\ Same(frames, env_shelf, frames', env_shelf', Depth - 1)
      /\ Own(frames', env_shelf', Depth) = e
      /\ frames'[Depth].id = Top.id /\ frames'[Depth].home = Top.home
      /\ frames'[Depth].doing = "body"
  BY <1>1, <1>3, <1>4, WakeStep DEF k
<1>6. ASSUME Owes(Top, k, lost)
      PROVE  Owes(frames'[Depth], e, lost')
  <2>1. ASSUME NEW q \in Positions(e), EntryAt(e, q).hole
        PROVE  BornAt(e, q) \in lost
    BY <1>4, <1>6, <2>1 DEF Owes
  <2>2. QED
    BY <1>1, <2>1 DEF Owes
<1>7. GoesOn(Top, k, frames'[Depth], e, {})
  BY <1>4, <1>5, <1>6 DEF GoesOn, Bare
<1>8. Fresh({})
  BY DEF Fresh
<1>9. QED
  BY <1>1, <1>2, <1>5, <1>7, <1>8, LastGoesOn

LEMMA EndAwaitAdvances ==
  ASSUME StackInv, EndAwait
  PROVE  Advances(Depth, {}) /\ (Sleeping => Sleeping')
<1>1. /\ Top.doing = "await" /\ frames' = Below(Resumed(Top)) /\ env_shelf' = env_shelf
      /\ UNCHANGED <<env_pool, next_env_id, current_frame>>
      /\ next_frame' = next_frame /\ births' = births /\ lost' = lost
  BY DEF EndAwait, envVars, rawVars, history
<1>2. Top \in FrameType /\ Top.shelved = FALSE
  BY <1>1, TopIs
<1> DEFINE k == KeptEnv(Top)
<1>3. Unshelve(Top) /\ Becomes(k, k, {}) /\ Own(frames, env_shelf, Depth) = k
  BY <1>1, <1>2, KeptIs, BecomesItself DEF Unshelve
<1>4. frames' = Below(Woken(Top, k))
  <2>1. Resumed(Top) \in FrameType /\ Resumed(Top).env = k
    BY <1>2 DEF Resumed, KeptEnv, FrameType, Names
  <2>2. QED
    BY <1>1, <2>1 DEF Woken, FrameType
<1>5. /\ Depth' = Depth /\ Same(frames, env_shelf, frames', env_shelf', Depth - 1)
      /\ Own(frames', env_shelf', Depth) = k
      /\ frames'[Depth].id = Top.id /\ frames'[Depth].home = Top.home
      /\ frames'[Depth].doing = "body"
  BY <1>1, <1>3, <1>4, WakeStep
<1> HIDE DEF k
<1>6. GoesOn(Top, k, frames'[Depth], k, {})
  BY <1>1, <1>5 DEF GoesOn, Bare, Owes
<1>7. Fresh({})
  BY DEF Fresh
<1>8. QED
  BY <1>1, <1>3, <1>5, <1>6, <1>7, LastGoesOn

LEMMA StoreAdvances ==
  ASSUME StackInv, NEW addr, Store(addr)
  PROVE  Advances(Depth, {}) /\ (Sleeping => Sleeping')
<1> DEFINE of == Deref(addr).of
<1>1. /\ Top.doing = "body"
      /\ SetEnv(Filled(Env, of))
      /\ env_shelf' = [i \in DOMAIN env_shelf |-> Filled(env_shelf[i], of)]
      /\ next_frame' = next_frame /\ births' = births /\ lost' = lost
  BY DEF Store, Runs, rawVars, history
<1> HIDE DEF of
<1>2. Fills(frames, env_shelf, of, frames', env_shelf')
  BY <1>1 DEF Fills, SetEnv, Env, Top, Depth
<1>3. StackOK(frames, env_shelf, env_pool, next_env_id) /\ ~ frames[Len(frames)].shelved
  BY <1>1, TopIs DEF StackInv, Top, Depth
<1>4. /\ Len(frames') = Len(frames)
      /\ \A i \in 1..Len(frames) :
            /\ Own(frames', env_shelf', i) \in {Own(frames, env_shelf, i),
                                                Filled(Own(frames, env_shelf, i), of)}
            /\ frames'[i].id = frames[i].id /\ frames'[i].home = frames[i].home
            /\ frames'[i].shelved = frames[i].shelved
            /\ frames'[i].doing = frames[i].doing /\ frames'[i].moved = frames[i].moved
  BY <1>2, <1>3, StackFill
<1>5. ASSUME NEW i \in 1..Depth
      PROVE  GoesOn(frames[i], Own(frames, env_shelf, i),
                    frames'[i], Own(frames', env_shelf', i), {})
  <2> DEFINE e == Own(frames, env_shelf, i)
             h == Own(frames', env_shelf', i)
  <2>1. EnvOK(e)
    BY <1>3, <1>5 DEF StackOK, FrameOK, Depth
  <2>2. /\ PlacesOf(h) = PlacesOf(e) /\ Positions(h) = Positions(e)
        /\ Nearest(h, frames[i].moved) = Nearest(e, frames[i].moved)
        /\ \A q \in Positions(e) :
              /\ BornAt(h, q) = BornAt(e, q) /\ (EntryAt(h, q).hole => EntryAt(e, q).hole)
    <3> HIDE DEF e
    <3>1. CASE h = e
      BY <3>1
    <3>2. CASE h = Filled(e, of)
      <4> HIDE DEF h
      <4>1. QED
        BY <2>1, <3>2, FilledBecomes
    <3>3. QED
      BY <1>4, <1>5, <3>1, <3>2 DEF e, Depth
  <2> HIDE DEF e, h
  <2>3. /\ frames'[i].id = frames[i].id /\ frames'[i].home = frames[i].home
        /\ frames'[i].shelved = frames[i].shelved
        /\ frames'[i].doing = frames[i].doing /\ frames'[i].moved = frames[i].moved
    BY <1>4, <1>5 DEF Depth
  <2>4. Owes(frames[i], e, lost) => Owes(frames'[i], h, lost')
    BY <1>1, <2>2, <2>3 DEF Owes
  <2>5. Bare(frames'[i]) => Bare(frames[i])
    BY <2>3 DEF Bare
  <2>6. QED
    BY <2>2, <2>3, <2>4, <2>5 DEF GoesOn, e, h
<1>6. Depth' = Depth /\ (Sleeping => Sleeping')
  BY <1>4 DEF Sleeping, Depth
<1>7. Depth \in 1..Depth /\ Fresh({})
  BY TopIs DEF Fresh
<1>8. QED
  BY <1>1, <1>5, <1>6, <1>7 DEF Advances

LEMMA LeaveAdvances ==
  ASSUME StackInv, Depth > 1, Top.doing = "body", NEW wakes \in BOOLEAN, Leave(wakes),
         env_pool' = env_pool \/ env_pool' = Append(env_pool, Env),
         next_env_id' = next_env_id, births' = births, lost \subseteq lost',
         wakes /\ Caller.doing = "builtin" =>
             BornAt(KeptEnv(Caller), Nearest(KeptEnv(Caller), Caller.moved)) \in lost'
  PROVE  Advances(Depth - 1, {}) /\ (Sleeping => Sleeping')
<1> DEFINE n == Depth - 1
           k == KeptEnv(Caller)
<1>1. n \in Nat /\ n \in 1..n /\ Depth \in Nat /\ \A i \in 1..n : i = n \/ i \in 1..(Depth - 2)
  BY TopIs
<1>2. Own(frames, env_shelf, n) = k /\ next_frame' = next_frame
  BY KeptOfCaller DEF Leave, ExitFrame
<1>3. /\ Depth' = n /\ Same(frames, env_shelf, frames', env_shelf', Depth - 2)
      /\ Own(frames', env_shelf', n) = k
      /\ frames'[n].id = Caller.id /\ frames'[n].home = Caller.home
      /\ IF wakes THEN frames'[n].doing = "body" ELSE frames'[n] = Caller
  BY <1>2, LeaveStep
<1> HIDE DEF k
<1>4. GoesOn(Caller, k, frames'[n], k, {})
  <2>1. CASE wakes
    <3>1. ASSUME Owes(Caller, k, lost)
          PROVE  Owes(frames'[n], k, lost')
      BY <2>1, <3>1 DEF Owes, k
    <3>2. QED
      BY <1>3, <2>1, <3>1 DEF GoesOn, Bare
  <2>2. CASE ~ wakes
    BY <1>3, <2>2, GoesItself
  <2>3. QED
    BY <2>1, <2>2
<1>5. ASSUME NEW i \in 1..n
      PROVE  GoesOn(frames[i], Own(frames, env_shelf, i),
                    frames'[i], Own(frames', env_shelf', i), {})
  <2>1. CASE i = n
    BY <1>2, <1>3, <1>4, <2>1 DEF Caller
  <2>2. CASE i \in 1..(Depth - 2)
    <3>1. frames'[i] = frames[i] /\ Own(frames', env_shelf', i) = Own(frames, env_shelf, i)
      BY <1>3, <2>2 DEF Same
    <3>2. QED
      BY <3>1, GoesItself
  <2>3. QED
    BY <1>1, <2>1, <2>2
<1>6. ASSUME Sleeping
      PROVE  Sleeping'
  <2>1. ASSUME NEW i \in 1..n, i < n
        PROVE  frames'[i].doing # "body"
    <3>1. i \in 1..(Depth - 2) /\ i \in 1..Depth /\ i < Depth
      BY <1>1, <2>1
    <3>2. QED
      BY <1>3, <1>6, <3>1 DEF Same, Sleeping
  <2>2. QED
    BY <1>3, <2>1 DEF Sleeping
<1>7. Fresh({})
  BY DEF Fresh
<1>8. QED
  BY <1>1, <1>2, <1>3, <1>5, <1>6, <1>7 DEF Advances

(* What a step does to the frames, the regions and the addresses given.       *)
Advance ==
    \/ UNCHANGED <<regions, tombstones, taken>> /\ \E new : Advances(Depth, new)
    \/ (\E x \in Var : AddrOf(x)) /\ Advances(Depth, {})
    \/ ArenaAlloc /\ Advances(Depth, {})
    \/ ExitFrame /\ taken' = taken /\ Depth > 1 /\ Advances(Depth - 1, {})

LEMMA AdvanceStep ==
  ASSUME StackInv, Counters, Next
  PROVE  Advance /\ (Sleeping => Sleeping')
<1> DEFINE Still   == UNCHANGED <<regions, tombstones, taken>>
           Quiet   == UNCHANGED <<envVars, current_frame, next_frame, lost>>
           Goal    == Advance /\ (Sleeping => Sleeping')
<1>1. ASSUME Still, NEW new, Advances(Depth, new), Sleeping => Sleeping'
      PROVE  Goal
  BY <1>1 DEF Advance
<1>2. ASSUME Still, Top.doing = "body", Quiet, births' = births,
             NEW e, SetEnv(e), Stays(Env, e)
      PROVE  Goal
  <2>1. Fresh({}) /\ Becomes(Env, e, {}) /\ Inherits(Env, e, {})
    BY <1>2 DEF Fresh, Stays
  <2>2. QED
    BY <1>1, <1>2, <2>1, SetEnvAdvances
<1>3. ASSUME NEW x \in Var, Let(x)
      PROVE  Goal
  <2>1. Top.doing = "body" /\ Defines(x, NoArena) /\ Quiet /\ Still
    BY <1>3 DEF Let, Runs, rawVars
  <2>2. PICK e, more : SetEnv(e) /\ Becomes(Env, e, {}) /\ Inherits(Env, e, more) /\ Fresh(more)
    BY <2>1, Statements
  <2>3. births' \in {births, births + 1}
    BY <2>1 DEF Defines
  <2>4. QED
    BY <1>1, <2>1, <2>2, <2>3, SetEnvAdvances
<1>4. ASSUME NEW x \in Var, Assign(x)
      PROVE  Goal
  <2>1. Top.doing = "body" /\ Quiet /\ Still /\ births' = births
    BY <1>4 DEF Assign, Runs, rawVars, history
  <2>2. PICK e : SetEnv(e) /\ Stays(Env, e)
    BY <1>4, <2>1, Statements
  <2>3. QED
    BY <1>2, <2>1, <2>2
<1>5. ASSUME NEW x \in Var, AddrOf(x)
      PROVE  Goal
  <2>1. UNCHANGED <<frames, envVars, next_frame, lost, births>>
    BY <1>5 DEF AddrOf, PushRegion
  <2>2. Advances(Depth, {}) /\ (Sleeping => Sleeping')
    <3>1. Fresh({}) /\ births' \in {births, births + 1} /\ lost' = lost
      BY <2>1 DEF Fresh
    <3>2. Depth' = Depth /\ next_frame' = next_frame /\ frames' = frames /\ env_shelf' = env_shelf
      BY <2>1 DEF Depth, envVars
    <3>3. Same(frames, env_shelf, frames', env_shelf', Depth - 1)
      BY <3>2 DEF Same
    <3>4. GoesOn(Top, Own(frames, env_shelf, Depth), frames'[Depth], Own(frames', env_shelf', Depth), {})
      BY <3>1, <3>2, GoesItself DEF Top
    <3>5. QED
      BY <3>1, <3>2, <3>3, <3>4, LastGoesOn
  <2>3. QED
    BY <1>5, <2>2 DEF Advance
<1>6. ASSUME NEW x \in Var, DeclareArena(x)
      PROVE  Goal
  <2>1. Top.doing = "body" /\ Quiet /\ Still
    BY <1>6 DEF DeclareArena, Runs, rawVars
  <2>2. PICK e, new, more : /\ SetEnv(e) /\ Becomes(Env, e, new)
                            /\ Inherits(Env, e, more) /\ Fresh(more)
    BY <1>6, <2>1, Statements
  <2>3. births' \in {births, births + 1}
    BY <1>6 DEF DeclareArena, Defines
  <2>4. QED
    BY <1>1, <2>1, <2>2, <2>3, SetEnvAdvances
<1>7. ASSUME NEW x \in Var, StartBuiltin(x)
      PROVE  Goal
  <2>1. Still
    BY <1>7 DEF StartBuiltin, rawVars, history
  <2>2. QED
    BY <1>1, <1>7, <2>1, BuiltinAdvances
<1>8. ASSUME NEW t \in taken, Store(t.addr)
      PROVE  Goal
  <2>1. Still
    BY <1>8 DEF Store, rawVars, history
  <2>2. QED
    BY <1>1, <1>8, <2>1, StoreAdvances
<1>9. CASE OpenScope
  <2>1. Top.doing = "body" /\ Quiet /\ Still /\ births' = births
    BY <1>9 DEF OpenScope, Runs, rawVars
  <2>2. PICK e : SetEnv(e) /\ Stays(Env, e)
    BY <1>9, <2>1, Statements
  <2>3. QED
    BY <1>2, <2>1, <2>2
<1>10. CASE CloseScope
  <2>1. Top.doing = "body" /\ Quiet /\ Still /\ births' = births
    BY <1>10 DEF CloseScope, Runs, rawVars, history
  <2>2. PICK e : SetEnv(e) /\ Stays(Env, e)
    BY <1>10, <2>1, Statements
  <2>3. QED
    BY <1>2, <2>1, <2>2
<1>11. CASE ArenaAlloc
  <2>1. Top.doing = "body" /\ Quiet /\ births' \in {births, births + 1}
    BY <1>11 DEF ArenaAlloc, Runs, PushRegion
  <2>2. PICK e : SetEnv(e) /\ Stays(Env, e)
    BY <1>11, <2>1, Statements
  <2>3. Fresh({}) /\ Becomes(Env, e, {}) /\ Inherits(Env, e, {})
    BY <2>2 DEF Fresh, Stays
  <2>4. QED
    BY <1>11, <2>1, <2>2, <2>3, SetEnvAdvances DEF Advance
<1>12. ASSUME NEW kind \in {"function", "closure"}, Call(kind)
       PROVE  Goal
  <2>1. Still
    BY <1>12 DEF Call, EnterFrame, history
  <2>2. QED
    BY <1>1, <1>12, <2>1, CallAdvances
<1>13. ASSUME NEW kind \in {"function", "closure"}, Callback(kind)
       PROVE  Goal
  <2>1. Still
    BY <1>13 DEF Callback, EnterFrame, history
  <2>2. QED
    BY <1>1, <1>13, <2>1, CallbackAdvances
<1>14. CASE EndBuiltin
  <2>1. Still
    BY <1>14 DEF EndBuiltin, rawVars, history
  <2>2. QED
    BY <1>1, <1>14, <2>1, EndBuiltinAdvances
<1>15. CASE Turn
  <2>1. Still
    BY <1>15 DEF Turn, EnterFrame, history
  <2>2. QED
    BY <1>1, <1>15, <2>1, TurnAdvances
<1>16. CASE EndAwait
  <2>1. Still
    BY <1>16 DEF EndAwait, rawVars, history
  <2>2. QED
    BY <1>1, <1>16, <2>1, EndAwaitAdvances
<1>17. CASE Return
  <2>1. /\ Top.doing = "body" /\ Depth > 1 /\ Leave(Caller.doing = "call")
        /\ env_pool' = env_pool \/ env_pool' = Append(env_pool, Env)
        /\ next_env_id' = next_env_id /\ births' = births /\ lost' = lost /\ taken' = taken
    BY <1>17 DEF Return, Runs, history
  <2>2. (Caller.doing = "call") \in BOOLEAN /\ ExitFrame
    BY <2>1 DEF Leave
  <2>3. ~ (Caller.doing = "call" /\ Caller.doing = "builtin") /\ lost \subseteq lost'
    BY <2>1
  <2>4. Advances(Depth - 1, {}) /\ (Sleeping => Sleeping')
    BY <2>1, <2>2, <2>3, LeaveAdvances
  <2>5. QED
    BY <2>1, <2>2, <2>4 DEF Advance
<1>18. ASSUME NEW depth \in 1..Len(Env.scopes) - 1, Catch(depth)
       PROVE  Goal
  <2>1. Top.doing = "body" /\ Quiet /\ Still /\ births' = births
    BY <1>18 DEF Catch, Raises, rawVars
  <2>2. PICK e : SetEnv(e) /\ Stays(Env, e)
    BY <1>18, <2>1, Statements
  <2>3. QED
    BY <1>2, <2>1, <2>2
<1>19. ASSUME NEW error \in {"throw", "early"}, Unwind(error)
       PROVE  Goal
  <2>1. PICK ends \in BOOLEAN :
            /\ Leave(~ ends \/ Caller.doing = "call")
            /\ lost' = IF ends \/ Caller.doing # "builtin" THEN lost
                       ELSE LET e == KeptEnv(Caller)
                            IN lost \cup {BornAt(e, Nearest(e, Caller.moved))}
    BY <1>19 DEF Unwind
  <2>2. /\ Top.doing = "body" /\ Depth > 1 /\ env_pool' = env_pool /\ next_env_id' = next_env_id
        /\ births' = births /\ taken' = taken
    BY <1>19 DEF Unwind, Raises
  <2>3. (~ ends \/ Caller.doing = "call") \in BOOLEAN /\ ExitFrame
    BY <2>1 DEF Leave
  <2>4. /\ lost \subseteq lost'
        /\ (~ ends \/ Caller.doing = "call") /\ Caller.doing = "builtin" =>
              BornAt(KeptEnv(Caller), Nearest(KeptEnv(Caller), Caller.moved)) \in lost'
    BY <2>1
  <2>5. Advances(Depth - 1, {}) /\ (Sleeping => Sleeping')
    BY <2>1, <2>2, <2>3, <2>4, LeaveAdvances
  <2>6. QED
    BY <2>2, <2>3, <2>5 DEF Advance
<1>20. QED
  BY <1>3, <1>4, <1>5, <1>6, <1>7, <1>8, <1>9, <1>10, <1>11, <1>12, <1>13, <1>14, <1>15,
     <1>16, <1>17, <1>18, <1>19 DEF Next

-----------------------------------------------------------------------------
(* Placeholders: each is owed by the frame that it is in.                    *)
HolesInv == \A i \in 1..Depth : Owes(frames[i], Own(frames, env_shelf, i), lost)

LEMMA HolesStep ==
  ASSUME StackInv, Counters, HolesInv, Next
  PROVE  HolesInv'
<1>1. ASSUME NEW n, n <= Depth, NEW new, Advances(n, new)
      PROVE  HolesInv'
  <2>1. ASSUME NEW i \in 1..Depth'
        PROVE  Owes(frames'[i], Own(frames', env_shelf', i), lost')
    <3>1. n \in 1..Depth /\ n \in Nat /\ Depth \in Nat
      BY <1>1, TopIs DEF Advances
    <3>2. CASE i \in 1..n
      BY <1>1, <3>1, <3>2 DEF Advances, GoesOn, HolesInv
    <3>3. CASE i \notin 1..n
      <4>1. i = Depth' /\ Positions(Own(frames', env_shelf', Depth')) = {}
        BY <1>1, <2>1, <3>1, <3>3 DEF Advances
      <4>2. QED
        BY <4>1 DEF Owes
    <3>4. QED
      BY <3>2, <3>3
  <2>2. QED
    BY <2>1 DEF HolesInv
<1>2. Depth \in Nat /\ Depth <= Depth /\ Depth - 1 <= Depth
  BY TopIs
<1>3. QED
  BY <1>1, <1>2, AdvanceStep DEF Advance

LEMMA HolesFollow ==
  ASSUME StackInv, HolesInv
  PROVE  HolesAreOwed
<1>1. DOMAIN frames = 1..Depth
  BY TopIs
<1>2. \A i \in 1..Depth : OwnEnv(i) = Own(frames, env_shelf, i)
  BY DEF OwnEnv, Own, ShelvedUpTo, Count
<1>3. ASSUME NEW i \in 1..Depth, NEW p \in Positions(OwnEnv(i)), EntryAt(OwnEnv(i), p).hole
      PROVE  BornAt(OwnEnv(i), p) \in Owed \cup lost
  <2>1. \/ BornAt(OwnEnv(i), p) \in lost
        \/ frames[i].doing = "builtin" /\ p = Nearest(OwnEnv(i), frames[i].moved)
    BY <1>2, <1>3 DEF HolesInv, Owes
  <2>2. QED
    BY <1>1, <2>1 DEF Owed
<1>4. QED
  BY <1>1, <1>3 DEF HolesAreOwed, Holes

LEMMA HolesInit ==
  ASSUME Init
  PROVE  HolesInv
<1>1. Depth = 1 /\ Own(frames, env_shelf, 1) = NewEnv(1)
  BY DEF Init, Depth, Own
<1>2. Positions(NewEnv(1)) = {}
  BY NewEnvIs
<1>3. QED
  BY <1>1, <1>2 DEF HolesInv, Owes

(***************************************************************************)
(* A placeholder that a move left behind is owed a value by the builtin its    *)
(* frame is suspended in, or was left by one that failed: however the builtin   *)
(* calls back, errors unwind and scopes close (move_out_nearest in               *)
(* runtime_env.rs, try_move_functional_update in interpreter.rs).                 *)
(***************************************************************************)
THEOREM HolesOwed == Spec => []HolesAreOwed
<1>1. Init => HolesInv
  BY HolesInit
<1>2. StackInv /\ Counters /\ HolesInv /\ [Next]_vars => HolesInv'
  <2> SUFFICES ASSUME StackInv, Counters, HolesInv, [Next]_vars
               PROVE  HolesInv'
    OBVIOUS
  <2>1. CASE Next
    BY <2>1, HolesStep
  <2>2. CASE UNCHANGED vars
    BY <2>2 DEF vars, envVars, history, HolesInv, Depth, Own, Owes
  <2>3. QED
    BY <2>1, <2>2
<1>3. StackInv /\ HolesInv => HolesAreOwed
  BY HolesFollow
<1>4. QED
  BY <1>1, <1>2, <1>3, StackAlways, PTL DEF Spec

-----------------------------------------------------------------------------
(* Addresses and the places they are of: no two places are born alike, every   *)
(* region is of a frame that is still there and reached, and whoever holds an   *)
(* address of a place that lives has its region.                            *)
PlacesUpTo(n) == UNION {PlacesOf(Own(frames, env_shelf, i)) : i \in 1..n}
Placed(r, f)  == f.home = r.root.env /\ f.id = r.frame /\ ~ Bare(f)

IdsInv ==
    /\ \A i \in 1..Depth : frames[i].id < next_frame
    /\ \A i, j \in 1..Depth : frames[i].id = frames[j].id => i = j

BirthsInv ==
    /\ \A a \in PlacesUpTo(Depth) : a[2] <= births
    /\ \A a, b \in PlacesUpTo(Depth) : a[2] = b[2] => a[1] = b[1]
    /\ \A t \in taken : t.of <= births

RegionsPlaced == \A r \in regions : \E i \in 1..Depth : Placed(r, frames[i])

PlacesMapped ==
    \A t \in taken, a \in PlacesUpTo(Depth) :
        a[2] = t.of => \E r \in regions : Covers(r, t.addr) /\ r.root = a[1]

PlacesInv == Sleeping /\ IdsInv /\ BirthsInv /\ RegionsPlaced /\ PlacesMapped

LEMMA PlacesAre ==
  ASSUME StackInv
  PROVE  /\ \A i \in 1..Depth : /\ EnvOK(Own(frames, env_shelf, i))
                                /\ Own(frames, env_shelf, i).id = frames[i].home
                                /\ frames[i] \in FrameType
         /\ \A i, j \in 1..Depth : frames[i].home = frames[j].home => i = j
         /\ \A i \in 1..Depth : \A a \in PlacesOf(Own(frames, env_shelf, i)) :
               a[1] \in SlotType /\ a[2] \in Nat /\ a[1].env = frames[i].home
         /\ \A n \in 1..Depth : PlacesUpTo(n) \subseteq PlacesUpTo(Depth)
<1>1. ASSUME NEW i \in 1..Depth
      PROVE  /\ EnvOK(Own(frames, env_shelf, i)) /\ frames[i] \in FrameType
             /\ Own(frames, env_shelf, i).id = frames[i].home
  <2>1. FrameOK(frames[i], Own(frames, env_shelf, i), next_env_id)
    BY DEF StackInv, StackOK, Depth
  <2>2. Paired(frames, env_shelf) /\ frames[i] \in FrameType
    BY PairedIs DEF StackInv, StackOK, Depth
  <2>3. QED
    BY <2>1, <2>2 DEF FrameOK
<1>2. \A i, j \in 1..Depth : frames[i].home = frames[j].home => i = j
  BY DEF StackInv, StackOK, Depth
<1>3. ASSUME NEW i \in 1..Depth, NEW a \in PlacesOf(Own(frames, env_shelf, i))
      PROVE  a[1] \in SlotType /\ a[2] \in Nat /\ a[1].env = frames[i].home
  <2> DEFINE e == Own(frames, env_shelf, i)
  <2>1. PICK p \in Positions(e) : a = <<Slot(e, p), BornAt(e, p)>>
    BY <1>3 DEF PlacesOf
  <2>2. e \in EnvType /\ e.id = frames[i].home
    BY <1>1 DEF EnvOK
  <2> HIDE DEF e
  <2>3. QED
    BY <2>1, <2>2, SlotIs
<1>4. ASSUME NEW n \in 1..Depth
      PROVE  PlacesUpTo(n) \subseteq PlacesUpTo(Depth)
  <2>1. 1..n \subseteq 1..Depth
    BY <1>4, TopIs
  <2>2. QED
    BY <2>1 DEF PlacesUpTo
<1>5. QED
  BY <1>1, <1>2, <1>3, <1>4

LEMMA PlacesGrow ==
  ASSUME StackInv, NEW n, NEW new, Advances(n, new)
  PROVE  PlacesUpTo(Depth)' \subseteq PlacesUpTo(n) \cup new
<1>1. ASSUME NEW i \in 1..Depth', NEW a \in PlacesOf(Own(frames', env_shelf', i))
      PROVE  a \in PlacesUpTo(n) \cup new
  <2>1. n \in Nat
    BY DEF Advances
  <2>2. CASE i \in 1..n
    <3>1. a \in PlacesOf(Own(frames, env_shelf, i)) \cup new
      BY <1>1, <2>2 DEF Advances, GoesOn
    <3>2. QED
      BY <2>2, <3>1 DEF PlacesUpTo
  <2>3. CASE i \notin 1..n
    <3>1. i = Depth' /\ Positions(Own(frames', env_shelf', Depth')) = {}
      BY <1>1, <2>1, <2>3 DEF Advances
    <3>2. QED
      BY <1>1, <3>1 DEF PlacesOf
  <2>4. QED
    BY <2>2, <2>3
<1>2. QED
  BY <1>1 DEF PlacesUpTo

LEMMA IdsStep ==
  ASSUME StackInv, Counters, IdsInv, NEW n \in 1..Depth, NEW new, Advances(n, new)
  PROVE  IdsInv'
<1>1. n \in Nat /\ Depth \in Nat /\ next_frame \in Nat /\ \A i \in 1..n : i \in 1..Depth
  BY TopIs DEF Counters
<1>2. \A i \in 1..n : frames'[i].id = frames[i].id
  BY DEF Advances, GoesOn
<1>3. \A i \in 1..n : frames[i].id \in Nat /\ frames[i].id < next_frame
  BY <1>1, PlacesAre DEF FrameType, IdsInv
<1>4. CASE Depth' = n /\ next_frame' = next_frame
  BY <1>1, <1>2, <1>3, <1>4 DEF IdsInv
<1>5. CASE /\ Depth' = n + 1 /\ next_frame' = next_frame + 1
           /\ frames'[Depth'].id = next_frame
  <2>1. \A i \in 1..Depth' : i \in 1..n \/ i = Depth'
    BY <1>1, <1>5
  <2>2. \A i, j \in 1..n : frames'[i].id = frames'[j].id => i = j
    BY <1>1, <1>2 DEF IdsInv
  <2>3. \A i \in 1..n : frames'[i].id < next_frame' /\ frames'[i].id # frames'[Depth'].id
    BY <1>1, <1>2, <1>3, <1>5
  <2>4. frames'[Depth'].id < next_frame'
    BY <1>1, <1>5
  <2>5. QED
    BY <2>1, <2>2, <2>3, <2>4 DEF IdsInv
<1>6. QED
  BY <1>4, <1>5 DEF Advances

LEMMA BirthsStep ==
  ASSUME StackInv, Counters, BirthsInv, NEW n \in 1..Depth, NEW new, Advances(n, new),
         \A t \in taken' : t \in taken \/ \E h \in PlacesUpTo(Depth) : t.of = h[2],
         \A t \in taken : t.of \in Nat
  PROVE  BirthsInv'
<1>1. PlacesUpTo(Depth)' \subseteq PlacesUpTo(Depth) \cup new
  BY PlacesGrow, PlacesAre
<1>2. \A a \in PlacesUpTo(Depth) : a[2] \in Nat /\ a[2] <= births
  BY PlacesAre DEF PlacesUpTo, BirthsInv
<1>3. births \in Nat /\ births' \in Nat /\ births' >= births
  BY DEF Counters, Advances
<1>4. \A a \in new : a[2] = births + 1 /\ a[2] = births' /\ \A b \in new : a = b
  BY DEF Fresh, Advances
<1>5. \A a \in PlacesUpTo(Depth) \cup new : a[2] <= births'
  BY <1>2, <1>3, <1>4
<1>6. \A a, b \in PlacesUpTo(Depth) \cup new : a[2] = b[2] => a[1] = b[1]
  BY <1>2, <1>3, <1>4 DEF BirthsInv
<1>7. \A t \in taken' : t.of <= births'
  BY <1>2, <1>3 DEF BirthsInv
<1>8. QED
  BY <1>1, <1>5, <1>6, <1>7 DEF BirthsInv

LEMMA PlacedStays ==
  ASSUME StackInv, NEW n, NEW new, Advances(n, new), NEW r \in regions,
         NEW i \in 1..n, Placed(r, frames[i])
  PROVE  i \in 1..Depth' /\ Placed(r, frames'[i])
<1>1. i \in 1..Depth'
  BY DEF Advances
<1>2. /\ frames'[i].home = frames[i].home /\ frames'[i].id = frames[i].id
      /\ ~ Bare(frames'[i])
  BY DEF Advances, GoesOn, Placed
<1>3. QED
  BY <1>1, <1>2 DEF Placed

(* An address that was given, of a place that is still there.                *)
LEMMA MappedStays ==
  ASSUME StackInv, Counters, PlacesInv, NEW n \in 1..Depth, NEW new, Advances(n, new),
         NEW t \in taken, t.of \in Nat, NEW a \in PlacesUpTo(Depth)', a[2] = t.of
  PROVE  /\ a \in PlacesUpTo(n)
         /\ \E r \in regions : Covers(r, t.addr) /\ r.root = a[1]
<1>1. a \in PlacesUpTo(n) \cup new
  BY PlacesGrow
<1>2. a \notin new
  <2>1. \A b \in new : b[2] = births + 1
    BY DEF Fresh, Advances
  <2>2. t.of <= births /\ births \in Nat
    BY DEF PlacesInv, BirthsInv, Counters
  <2>3. QED
    BY <2>1, <2>2
<1>3. a \in PlacesUpTo(Depth)
  BY <1>1, <1>2, PlacesAre
<1>4. QED
  BY <1>1, <1>2, <1>3 DEF PlacesInv, PlacesMapped

(* Steps that leave the regions alone.                                      *)
LEMMA QuietPlaces ==
  ASSUME StackInv, Counters, PointersInv, PlacesInv, Sleeping',
         UNCHANGED <<regions, tombstones, taken>>, NEW new, Advances(Depth, new)
  PROVE  PlacesInv'
<1>1. Depth \in 1..Depth /\ \A t \in taken : t.of \in Nat
  BY TopIs DEF PointersInv, Known
<1>2. IdsInv' /\ BirthsInv'
  BY <1>1, IdsStep, BirthsStep DEF PlacesInv
<1>3. RegionsPlaced'
  <2>1. ASSUME NEW r \in regions
        PROVE  \E i \in 1..Depth' : Placed(r, frames'[i])
    <3>1. PICK i \in 1..Depth : Placed(r, frames[i])
      BY DEF PlacesInv, RegionsPlaced
    <3>2. QED
      BY <3>1, PlacedStays
  <2>2. QED
    BY <2>1 DEF RegionsPlaced, Placed, Bare
<1>4. PlacesMapped'
  <2>1. ASSUME NEW t \in taken, NEW a \in PlacesUpTo(Depth)', a[2] = t.of
        PROVE  \E r \in regions : Covers(r, t.addr) /\ r.root = a[1]
    BY <1>1, <2>1, MappedStays
  <2>2. QED
    BY <2>1 DEF PlacesMapped
<1>5. QED
  BY <1>2, <1>3, <1>4 DEF PlacesInv

(* Steps that hand out addresses.                                           *)
LEMMA AddedPlaces ==
  ASSUME StackInv, Counters, PointersInv, PlacesInv, Sleeping',
         NEW h \in Handles, Adds(h[1], h[2]), Advances(Depth, {}),
         Top.doing = "body", frames'[Depth].doing = "body"
  PROVE  PlacesInv'
<1>1. Depth \in 1..Depth /\ \A t \in taken : t.of \in Nat
  BY TopIs DEF PointersInv, Known
<1>2. h \in PlacesUpTo(Depth) /\ h[1].env = Top.home
  <2>1. Own(frames, env_shelf, Depth) = Env /\ h \in PlacesOf(Env)
    BY TopIs DEF Handles, PlacesOf
  <2>2. QED
    BY <1>1, <2>1, PlacesAre DEF PlacesUpTo, Top
<1>3. \A t \in taken' : t \in taken \/ \E g \in PlacesUpTo(Depth) : t.of = g[2]
  BY <1>2 DEF Adds
<1>4. IdsInv' /\ BirthsInv'
  BY <1>1, <1>3, IdsStep, BirthsStep DEF PlacesInv
<1>5. RegionsPlaced'
  <2>1. ASSUME NEW r \in regions'
        PROVE  \E i \in 1..Depth' : Placed(r, frames'[i])
    <3>1. CASE r \in regions
      <4>1. PICK i \in 1..Depth : Placed(r, frames[i])
        BY <3>1 DEF PlacesInv, RegionsPlaced
      <4>2. QED
        BY <3>1, <4>1, PlacedStays
    <3>2. CASE r.frame = current_frame /\ r.root = h[1]
      <4>1. /\ frames'[Depth].home = Top.home /\ frames'[Depth].id = Top.id
            /\ Depth \in 1..Depth'
        BY <1>1, TopIs DEF Advances, GoesOn, Top
      <4>2. Placed(r, frames'[Depth])
        BY <1>2, <3>2, <4>1 DEF Placed, Bare, StackInv
      <4>3. QED
        BY <4>1, <4>2
    <3>3. QED
      BY <3>1, <3>2 DEF Adds
  <2>2. QED
    BY <2>1 DEF RegionsPlaced, Placed, Bare
<1>6. PlacesMapped'
  <2>1. ASSUME NEW t \in taken', NEW a \in PlacesUpTo(Depth)', a[2] = t.of
        PROVE  \E r \in regions' : Covers(r, t.addr) /\ r.root = a[1]
    <3>1. CASE t \in taken
      BY <1>1, <2>1, <3>1, MappedStays DEF Adds
    <3>2. CASE t \notin taken
      <4>1. t.of = h[2] /\ \E r \in regions' : Covers(r, t.addr) /\ r.root = h[1]
        BY <3>2 DEF Adds
      <4>2. a \in PlacesUpTo(Depth)
        BY PlacesGrow
      <4>3. a[1] = h[1]
        BY <1>2, <2>1, <4>1, <4>2 DEF PlacesInv, BirthsInv
      <4>4. QED
        BY <4>1, <4>3
    <3>3. QED
      BY <3>1, <3>2
  <2>2. QED
    BY <2>1 DEF PlacesMapped
<1>7. QED
  BY <1>4, <1>5, <1>6 DEF PlacesInv

(* The frame that is left takes its regions with it, and no other.            *)
LEMMA LeftPlaces ==
  ASSUME StackInv, Counters, PointersInv, PlacesInv, Sleeping',
         ExitFrame, taken' = taken, Depth > 1, Advances(Depth - 1, {})
  PROVE  PlacesInv'
<1> DEFINE n == Depth - 1
<1>1. /\ n \in 1..Depth /\ Depth \in Nat /\ \A i \in 1..n : i \in 1..Depth /\ i # Depth
      /\ \A i \in 1..Depth : i \in 1..n \/ i = Depth
      /\ \A t \in taken : t.of \in Nat
  BY TopIs DEF PointersInv, Known
<1>2. \A r : r \in regions' <=> r \in regions /\ r.frame # current_frame
  BY DEF ExitFrame, Dead
<1>3. Advances(n, {}) /\ Top.id = current_frame
  BY DEF StackInv
<1> HIDE DEF n
<1>4. IdsInv' /\ BirthsInv'
  BY <1>1, <1>3, IdsStep, BirthsStep DEF PlacesInv
<1>5. RegionsPlaced'
  <2>1. ASSUME NEW r \in regions'
        PROVE  \E i \in 1..Depth' : Placed(r, frames'[i])
    <3>1. r \in regions /\ r.frame # current_frame
      BY <1>2
    <3>2. PICK i \in 1..Depth : Placed(r, frames[i])
      BY <3>1 DEF PlacesInv, RegionsPlaced
    <3>3. i \in 1..n
      BY <1>1, <1>3, <3>1, <3>2 DEF Placed, Top
    <3>4. QED
      BY <1>3, <3>1, <3>2, <3>3, PlacedStays
  <2>2. QED
    BY <2>1 DEF RegionsPlaced, Placed, Bare
<1>6. PlacesMapped'
  <2>1. ASSUME NEW t \in taken, NEW a \in PlacesUpTo(Depth)', a[2] = t.of
        PROVE  \E r \in regions' : Covers(r, t.addr) /\ r.root = a[1]
    <3>1. /\ a \in PlacesUpTo(n)
          /\ \E r \in regions : Covers(r, t.addr) /\ r.root = a[1]
      BY <1>1, <1>3, <2>1, MappedStays
    <3>2. PICK r \in regions : Covers(r, t.addr) /\ r.root = a[1]
      BY <3>1
    <3>3. PICK i \in 1..n : a \in PlacesOf(Own(frames, env_shelf, i))
      BY <3>1 DEF PlacesUpTo
    <3>4. i \in 1..Depth /\ i # Depth
      BY <1>1, <3>3
    <3>5. a[1].env = frames[i].home
      BY <3>3, <3>4, PlacesAre
    <3>6. PICK j \in 1..Depth : Placed(r, frames[j])
      BY DEF PlacesInv, RegionsPlaced
    <3>7. j = i
      BY <3>2, <3>4, <3>5, <3>6, PlacesAre DEF Placed
    <3>8. r.frame # current_frame
      <4>1. Depth \in 1..Depth
        BY TopIs
      <4>2. frames[i].id # Top.id
        BY <3>4, <4>1 DEF PlacesInv, IdsInv, Top
      <4>3. QED
        BY <1>3, <3>6, <3>7, <4>2 DEF Placed
    <3>9. QED
      BY <1>2, <3>2, <3>8
  <2>2. QED
    BY <2>1 DEF PlacesMapped
<1>7. QED
  BY <1>4, <1>5, <1>6 DEF PlacesInv

LEMMA PlacesStep ==
  ASSUME StackInv, Counters, PointersInv, PlacesInv, Next
  PROVE  PlacesInv'
<1>1. Advance /\ Sleeping'
  BY AdvanceStep DEF PlacesInv
<1>2. CASE UNCHANGED <<regions, tombstones, taken>> /\ \E new : Advances(Depth, new)
  BY <1>1, <1>2, QuietPlaces
<1>3. CASE (\E x \in Var : AddrOf(x)) /\ Advances(Depth, {})
  <2>1. PICK x \in Var : AddrOf(x)
    BY <1>3
  <2>2. Top.doing = "body" /\ frames' = frames
    BY <2>1 DEF AddrOf, Runs
  <2>3. frames'[Depth].doing = "body"
    BY <2>2 DEF Top
  <2>4. QED
    BY <1>1, <1>3, <2>1, <2>2, <2>3, AddrOfStep, AddedPlaces
<1>4. CASE ArenaAlloc /\ Advances(Depth, {})
  <2>1. Top.doing = "body"
    BY <1>4 DEF ArenaAlloc, Runs
  <2>2. frames'[Depth].doing = "body"
    <3>1. PICK e : SetEnv(e)
      BY <1>4 DEF ArenaAlloc
    <3>2. DOMAIN frames = 1..Depth /\ Depth \in 1..Depth /\ Top \in FrameType
      BY TopIs
    <3>3. frames'[Depth] = [Top EXCEPT !.env = e]
      BY <3>1, <3>2 DEF SetEnv, Top
    <3>4. QED
      BY <2>1, <3>2, <3>3 DEF FrameType
  <2>3. QED
    BY <1>1, <1>4, <2>1, <2>2, ArenaAllocStep, AddedPlaces
<1>5. CASE ExitFrame /\ taken' = taken /\ Depth > 1 /\ Advances(Depth - 1, {})
  BY <1>1, <1>5, LeftPlaces
<1>6. QED
  BY <1>1, <1>2, <1>3, <1>4, <1>5 DEF Advance

LEMMA PlacesInit ==
  ASSUME Init
  PROVE  PlacesInv
<1>1. Depth = 1 /\ Own(frames, env_shelf, 1) = NewEnv(1)
  BY DEF Init, Depth, Own
<1>2. PlacesUpTo(Depth) = {}
  BY <1>1, NewEnvIs DEF PlacesUpTo, PlacesOf
<1>3. /\ \A i \in 1..Depth : i = 1 /\ ~ (i < Depth)
      /\ frames[1].id = 1 /\ next_frame = 2 /\ taken = {} /\ regions = {}
  BY <1>1 DEF Init
<1>4. Sleeping /\ IdsInv
  BY <1>3 DEF Sleeping, IdsInv
<1>5. BirthsInv /\ RegionsPlaced /\ PlacesMapped
  BY <1>2, <1>3 DEF BirthsInv, RegionsPlaced, PlacesMapped
<1>6. QED
  BY <1>4, <1>5 DEF PlacesInv

LEMMA PlacesAlways == Spec => []PlacesInv
<1>1. Init => PlacesInv
  BY PlacesInit
<1>2. StackInv /\ Counters /\ PointersInv /\ PlacesInv /\ [Next]_vars => PlacesInv'
  <2> SUFFICES ASSUME StackInv, Counters, PointersInv, PlacesInv, [Next]_vars
               PROVE  PlacesInv'
    OBVIOUS
  <2>1. CASE Next
    BY <2>1, PlacesStep
  <2>2. CASE UNCHANGED vars
    <3>1. UNCHANGED <<frames, env_shelf, regions, next_frame, births, taken>>
      BY <2>2 DEF vars, envVars, rawVars, history
    <3>2. Sleeping' /\ IdsInv'
      BY <3>1 DEF PlacesInv, Sleeping, IdsInv, Depth
    <3>3. BirthsInv' /\ RegionsPlaced' /\ PlacesMapped'
      BY <3>1 DEF PlacesInv, BirthsInv, RegionsPlaced, PlacesMapped, PlacesUpTo, Placed, Bare, Own, Depth
    <3>4. QED
      BY <3>2, <3>3 DEF PlacesInv
  <2>3. QED
    BY <2>1, <2>2
<1>3. QED
  BY <1>1, <1>2, StackAlways, PointersAlways, PTL DEF Spec

(* An address that was given has a region, or one that is remembered, unless   *)
(* as many have returned as are remembered.                                 *)
Remembered ==
    \A t \in taken :
        \/ \E r \in regions : Covers(r, t.addr)
        \/ \E k \in 1..Len(tombstones) : Covers(tombstones[k], t.addr)
        \/ Len(tombstones) = TombstoneCapacity

LEMMA RememberedStep ==
  ASSUME StackInv, Counters, PointersInv, TombstonesOK, Remembered, Next
  PROVE  Remembered'
<1>1. CASE UNCHANGED <<regions, tombstones, taken>>
  BY <1>1 DEF Remembered
<1>2. ASSUME NEW h \in Handles, Adds(h[1], h[2])
      PROVE  Remembered'
  BY <1>2 DEF Remembered, Adds
<1>3. ASSUME ExitFrame, taken' = taken
      PROVE  Remembered'
  <2> DEFINE dead == {r \in regions : Dead(r)}
             all  == tombstones \o ByAge(dead)
  <2>1. /\ ByAge(dead) \in Seq(RegionType)
        /\ \A r \in dead : \E k \in 1..Len(ByAge(dead)) : ByAge(dead)[k] = r
    <3>1. RegionsOK(dead, next_base)
      BY RegionsStay DEF PointersInv
    <3>2. QED
      BY <3>1, ByAgeIs
  <2>2. /\ tombstones' = Last(all, TombstoneCapacity) /\ regions' = regions \ dead
    BY <1>3 DEF ExitFrame
  <2> HIDE DEF dead
  <2>3. /\ all \in Seq(RegionType) /\ Len(all) = Len(tombstones) + Len(ByAge(dead))
        /\ Len(tombstones) \in Nat /\ Len(ByAge(dead)) \in Nat
        /\ \A k \in 1..Len(tombstones) : all[k] = tombstones[k]
        /\ \A k \in 1..Len(ByAge(dead)) : all[Len(tombstones) + k] = ByAge(dead)[k]
    BY <2>1 DEF TombstonesOK
  <2> HIDE DEF all
  <2>4. tombstones' = all \/ Len(tombstones') = TombstoneCapacity
    BY <2>2, <2>3, LastIs, FramesAssumption
  <2>5. CASE tombstones' = all
    <3>1. \A r \in dead : \E k \in 1..Len(all) : all[k] = r
      <4>1. ASSUME NEW r \in dead
            PROVE  \E k \in 1..Len(all) : all[k] = r
        <5>1. PICK k \in 1..Len(ByAge(dead)) : ByAge(dead)[k] = r
          BY <2>1
        <5>2. Len(tombstones) + k \in 1..Len(all) /\ all[Len(tombstones) + k] = r
          BY <2>3, <5>1
        <5>3. QED
          BY <5>2
      <4>2. QED
        BY <4>1
    <3>2. \A k \in 1..Len(tombstones) : k \in 1..Len(all) /\ all[k] = tombstones[k]
      BY <2>3
    <3>3. \/ Len(tombstones') = TombstoneCapacity
          \/ Len(tombstones) # TombstoneCapacity
      <4>1. Len(tombstones') <= TombstoneCapacity
        BY <2>2, <2>3, LastIs, FramesAssumption
      <4>2. QED
        BY <2>3, <2>5, <4>1, FramesAssumption
    <3>4. QED
      BY <1>3, <2>2, <2>5, <3>1, <3>2, <3>3 DEF Remembered
  <2>6. CASE Len(tombstones') = TombstoneCapacity
    BY <2>6 DEF Remembered
  <2>7. QED
    BY <2>4, <2>5, <2>6
<1>4. QED
  BY <1>1, <1>2, <1>3, AdvanceStep, AddrOfStep, ArenaAllocStep DEF Advance

(* What the running frame reaches.                                         *)
LEMMA ReachedIs ==
  ASSUME StackInv, Top.doing = "body"
  PROVE  /\ \A e \in Reachable : \E i \in 1..Depth : /\ e = Own(frames, env_shelf, i)
                                                     /\ i = Depth \/ frames[i].shelved
         /\ \A i \in 1..Depth : i = Depth \/ frames[i].shelved =>
                                Own(frames, env_shelf, i) \in Reachable
<1>1. /\ Paired(frames, env_shelf) /\ Own(frames, env_shelf, Depth) = Env /\ Depth \in 1..Depth
      /\ DOMAIN env_shelf = 1..Len(env_shelf)
  BY TopIs, PairedIs DEF StackInv, StackOK
<1>2. ASSUME NEW k \in DOMAIN env_shelf
      PROVE  \E i \in 1..Depth : frames[i].shelved /\ env_shelf[k] = Own(frames, env_shelf, i)
  BY <1>1, ShelfIsOwned DEF Depth
<1>3. ASSUME NEW i \in 1..Depth, frames[i].shelved
      PROVE  Own(frames, env_shelf, i) \in Reachable
  <2>1. Count(frames, i) \in DOMAIN env_shelf
    BY <1>1, <1>3, PairedIs DEF Depth
  <2>2. QED
    BY <1>3, <2>1 DEF Own, Reachable
<1>4. Own(frames, env_shelf, Depth) \in Reachable
  BY <1>1 DEF Reachable
<1>5. ASSUME NEW e \in Reachable
      PROVE  \E i \in 1..Depth : /\ e = Own(frames, env_shelf, i)
                                 /\ i = Depth \/ frames[i].shelved
  BY <1>1, <1>2 DEF Reachable
<1>6. QED
  BY <1>3, <1>4, <1>5

(* The outcomes of an access.                                              *)
LEMMA DerefIs ==
  ASSUME NEW addr, NEW root, Covering(addr) # {} => root = RegionAt(addr).root
  PROVE  /\ Covering(addr) = {} =>
              Deref(addr).outcome = IF \E k \in DOMAIN tombstones : Covers(tombstones[k], addr)
                                    THEN "dangling" ELSE "unmapped"
         /\ Covering(addr) # {} /\ OwningEnvs(root) = {} => Deref(addr).outcome = "unreachable"
         /\ Covering(addr) # {} /\ OwningEnvs(root) # {} =>
              IF \E e \in OwningEnvs(root) : At(e, root) # {}
              THEN /\ Deref(addr).outcome = "place"
                   /\ \E e \in OwningEnvs(root) : \E p \in At(e, root) :
                         Deref(addr).of = BornAt(e, p)
              ELSE Deref(addr).outcome = "dangling"
<1> DEFINE places == UNION {{e} \X At(e, root) : e \in OwningEnvs(root)}
           place  == CHOOSE place \in places : TRUE
<1>1. CASE Covering(addr) = {}
  BY <1>1 DEF Deref, Refusal
<1>2. CASE Covering(addr) # {} /\ OwningEnvs(root) = {}
  BY <1>2 DEF Deref, Refusal
<1>3. CASE Covering(addr) # {} /\ OwningEnvs(root) # {} /\ places = {}
  <2>1. Deref(addr).outcome = "dangling"
    BY <1>3 DEF Deref, Refusal
  <2>2. ASSUME NEW e \in OwningEnvs(root), NEW p \in At(e, root)
        PROVE  FALSE
    <3>1. <<e, p>> \in {e} \X At(e, root)
      BY <2>2
    <3>2. QED
      BY <1>3, <3>1
  <2>3. QED
    BY <1>3, <2>1, <2>2
<1>4. CASE Covering(addr) # {} /\ OwningEnvs(root) # {} /\ places # {}
  <2>1. Deref(addr).outcome = "place" /\ Deref(addr).of = BornAt(place[1], place[2])
    BY <1>4 DEF Deref
  <2>2. place \in places
    BY <1>4
  <2> HIDE DEF place
  <2>3. PICK e \in OwningEnvs(root) : place[1] = e /\ place[2] \in At(e, root)
    BY <2>2
  <2>4. QED
    BY <1>4, <2>1, <2>3
<1>5. QED
  BY <1>1, <1>2, <1>3, <1>4

(* The variables that live are those of the places.                          *)
LEMMA LiveAre ==
  ASSUME StackInv
  PROVE  /\ \A of : of \in LiveBindings <=>
               \E i \in 1..Depth : \E p \in Positions(Own(frames, env_shelf, i)) :
                   of = BornAt(Own(frames, env_shelf, i), p)
         /\ \A of : of \in Unreached <=>
               \E i \in Awaiting : \E p \in Positions(Own(frames, env_shelf, i)) :
                   of = BornAt(Own(frames, env_shelf, i), p)
<1>1. DOMAIN frames = 1..Depth
  BY TopIs
<1>2. \A i : OwnEnv(i) = Own(frames, env_shelf, i)
  BY DEF OwnEnv, Own, ShelvedUpTo, Count
<1>3. QED
  BY <1>1, <1>2 DEF LiveBindings, Unreached

(* The region of an address whose place lives, and who reaches it.            *)
LEMMA LiveIsMapped ==
  ASSUME StackInv, PointersInv, PlacesInv, Top.doing = "body", NEW t \in taken,
         NEW i \in 1..Depth, NEW p \in Positions(Own(frames, env_shelf, i)),
         t.of = BornAt(Own(frames, env_shelf, i), p),
         NEW root, root = RegionAt(t.addr).root
  PROVE  /\ Covering(t.addr) # {} /\ root.env = frames[i].home
         /\ p \in At(Own(frames, env_shelf, i), root)
         /\ frames[i].doing # "await" => Own(frames, env_shelf, i) \in OwningEnvs(root)
         /\ i # Depth /\ frames[i].doing = "await" => OwningEnvs(root) = {}
<1> DEFINE e == Own(frames, env_shelf, i)
           a == <<Slot(e, p), BornAt(e, p)>>
<1>1. a \in PlacesOf(e) /\ a[1] = Slot(e, p) /\ a[2] = t.of
  BY DEF PlacesOf
<1>2. a \in PlacesUpTo(Depth) /\ a[1].env = frames[i].home
  BY <1>1, PlacesAre DEF PlacesUpTo
<1> HIDE DEF a
<1>3. PICK r \in regions : Covers(r, t.addr) /\ r.root = a[1]
  BY <1>1, <1>2 DEF PlacesInv, PlacesMapped
<1>4. Covering(t.addr) # {} /\ RegionAt(t.addr) = r
  <2>1. ASSUME NEW q \in regions, Covers(q, t.addr)
        PROVE  q = r
    <3>1. /\ q \in RegionType /\ r \in RegionType /\ t.addr \in Nat
          /\ q = r \/ End(q) <= r.base \/ End(r) <= q.base
      BY DEF PointersInv, RegionsOK, Known
    <3>2. End(q) \in Int /\ End(r) \in Int /\ q.base \in Int /\ r.base \in Int
      BY <3>1 DEF RegionType, End
    <3>3. /\ q.base <= t.addr /\ t.addr < End(q)
          /\ r.base <= t.addr /\ t.addr < End(r)
      BY <1>3, <2>1 DEF Covers
    <3>4. QED
      BY <3>1, <3>2, <3>3
  <2>2. Covering(t.addr) = {r}
    BY <1>3, <2>1 DEF Covering
  <2>3. QED
    BY <2>2 DEF RegionAt
<1>5. root = Slot(e, p) /\ root.env = frames[i].home
  BY <1>1, <1>2, <1>3, <1>4
<1>6. p \in At(e, root)
  BY <1>5 DEF At
<1>7. e.id = root.env
  BY <1>5, PlacesAre
<1>8. ASSUME frames[i].doing # "await"
      PROVE  e \in OwningEnvs(root)
  <2>1. i = Depth \/ frames[i].shelved
    <3>1. PICK j \in 1..Depth : Placed(r, frames[j])
      BY DEF PlacesInv, RegionsPlaced
    <3>2. j = i
      BY <1>3, <1>2, <3>1, PlacesAre DEF Placed
    <3>3. i # Depth => frames[i].doing # "body"
      <4>1. i # Depth => i < Depth
        BY TopIs
      <4>2. QED
        BY <4>1 DEF PlacesInv, Sleeping
    <3>4. frames[i].doing \in {"body", "call", "builtin", "await"}
      BY PlacesAre DEF FrameType
    <3>5. QED
      BY <1>8, <3>1, <3>2, <3>3, <3>4 DEF Placed, Bare
  <2>2. e \in Reachable
    BY <2>1, ReachedIs
  <2>3. QED
    BY <1>7, <2>2 DEF OwningEnvs
<1>9. ASSUME i # Depth, frames[i].doing = "await"
      PROVE  OwningEnvs(root) = {}
  <2>1. ASSUME NEW f \in OwningEnvs(root)
        PROVE  FALSE
    <3>1. f \in Reachable /\ f.id = frames[i].home
      BY <1>5, <2>1 DEF OwningEnvs
    <3>2. PICK j \in 1..Depth : f = Own(frames, env_shelf, j) /\ (j = Depth \/ frames[j].shelved)
      BY <3>1, ReachedIs
    <3>3. j = i
      BY <3>1, <3>2, PlacesAre
    <3>4. FrameOK(frames[i], e, next_env_id)
      BY DEF StackInv, StackOK, Depth
    <3>5. QED
      BY <1>9, <3>2, <3>3, <3>4 DEF FrameOK
  <2>2. QED
    BY <2>1
<1>10. QED
  BY <1>4, <1>5, <1>6, <1>8, <1>9

LEMMA PointersFollow ==
  ASSUME StackInv, PointersInv, PlacesInv, TombstonesOK, Remembered
  PROVE  PointersFollowLifetimes
<1> SUFFICES ASSUME Runs, NEW t \in taken
             PROVE  LET outcome == Deref(t.addr).outcome
                    IN IF t.of \in Unreached THEN outcome = "unreachable"
                       ELSE IF t.of \in LiveBindings THEN outcome = "place"
                       ELSE \/ outcome = "dangling"
                            \/ outcome = "unmapped" /\ Len(tombstones) = TombstoneCapacity
                            \/ outcome = "unreachable" /\ Awaiting # {}
  BY DEF PointersFollowLifetimes
<1> DEFINE root == RegionAt(t.addr).root
<1>1. Top.doing = "body" /\ Depth \in 1..Depth /\ Depth \in Nat
  BY TopIs DEF Runs
<1>2. \A i : i \in Awaiting <=> i \in 1..Depth /\ i # Depth /\ frames[i].doing = "await"
  BY <1>1 DEF Awaiting
<1> HIDE DEF root
<1>3. CASE t.of \in Unreached
  <2>1. PICK i \in Awaiting : \E p \in Positions(Own(frames, env_shelf, i)) :
                t.of = BornAt(Own(frames, env_shelf, i), p)
    BY <1>3, LiveAre
  <2>2. PICK p \in Positions(Own(frames, env_shelf, i)) : t.of = BornAt(Own(frames, env_shelf, i), p)
    BY <2>1
  <2>3. i \in 1..Depth /\ i # Depth /\ frames[i].doing = "await"
    BY <1>2
  <2>4. Covering(t.addr) # {} /\ OwningEnvs(root) = {}
    BY <1>1, <2>2, <2>3, LiveIsMapped DEF root
  <2>5. Deref(t.addr).outcome = "unreachable"
    BY <2>4, DerefIs DEF root
  <2>6. QED
    BY <1>3, <2>5
<1>4. CASE t.of \notin Unreached /\ t.of \in LiveBindings
  <2>1. PICK i \in 1..Depth : \E p \in Positions(Own(frames, env_shelf, i)) :
                t.of = BornAt(Own(frames, env_shelf, i), p)
    BY <1>4, LiveAre
  <2>2. PICK p \in Positions(Own(frames, env_shelf, i)) : t.of = BornAt(Own(frames, env_shelf, i), p)
    BY <2>1
  <2>3. i \notin Awaiting
    BY <1>4, <2>2, LiveAre
  <2>4. frames[i].doing # "await"
    BY <1>1, <1>2, <2>1, <2>3 DEF Top
  <2>5. /\ Covering(t.addr) # {} /\ Own(frames, env_shelf, i) \in OwningEnvs(root)
        /\ At(Own(frames, env_shelf, i), root) # {}
    BY <1>1, <2>2, <2>4, LiveIsMapped DEF root
  <2>6. Deref(t.addr).outcome = "place"
    BY <2>5, DerefIs DEF root
  <2>7. QED
    BY <1>4, <2>6
<1>5. CASE t.of \notin Unreached /\ t.of \notin LiveBindings
  <2>1. CASE Covering(t.addr) = {}
    <3>1. \/ \E k \in DOMAIN tombstones : Covers(tombstones[k], t.addr)
          \/ Len(tombstones) = TombstoneCapacity
      <4>1. DOMAIN tombstones = 1..Len(tombstones)
        BY DEF TombstonesOK
      <4>2. QED
        BY <2>1, <4>1 DEF Remembered, Covering
    <3>2. Deref(t.addr).outcome = IF \E k \in DOMAIN tombstones : Covers(tombstones[k], t.addr)
                                  THEN "dangling" ELSE "unmapped"
      BY <2>1, DerefIs
    <3>3. QED
      BY <1>5, <3>1, <3>2
  <2>2. CASE Covering(t.addr) # {} /\ OwningEnvs(root) = {}
    <3>1. Deref(t.addr).outcome = "unreachable"
      BY <2>2, DerefIs DEF root
    <3>2. RegionAt(t.addr) \in regions
      BY <2>2 DEF RegionAt, Covering
    <3>3. PICK i \in 1..Depth : Placed(RegionAt(t.addr), frames[i])
      BY <3>2 DEF PlacesInv, RegionsPlaced
    <3>4. Own(frames, env_shelf, i).id = root.env
      BY <3>3, PlacesAre DEF Placed, root
    <3>5. i # Depth /\ ~ frames[i].shelved
      BY <1>1, <2>2, <3>4, ReachedIs DEF OwningEnvs
    <3>6. frames[i].doing # "body"
      BY <1>1, <3>5 DEF PlacesInv, Sleeping
    <3>7. frames[i].doing = "await"
      <4>1. frames[i].doing \in {"body", "call", "builtin", "await"}
        BY PlacesAre DEF FrameType
      <4>2. QED
        BY <3>3, <3>5, <3>6, <4>1 DEF Placed, Bare
    <3>8. i \in Awaiting
      BY <1>2, <3>5, <3>7
    <3>9. QED
      BY <1>5, <3>1, <3>8
  <2>3. CASE Covering(t.addr) # {} /\ OwningEnvs(root) # {}
    <3>1. ASSUME Deref(t.addr).outcome = "place"
          PROVE  FALSE
      <4>1. Deref(t.addr).of = t.of
        BY <3>1, PointersAreHonest DEF DerefIsHonest
      <4>2. PICK e \in OwningEnvs(root) : \E p \in At(e, root) : Deref(t.addr).of = BornAt(e, p)
        <5>1. Deref(t.addr).outcome # "dangling"
          BY <3>1
        <5>2. QED
          BY <2>3, <5>1, DerefIs DEF root
      <4>3. PICK p \in Positions(e) : t.of = BornAt(e, p)
        BY <4>1, <4>2 DEF At
      <4>4. PICK i \in 1..Depth : e = Own(frames, env_shelf, i)
        BY <1>1, ReachedIs DEF OwningEnvs
      <4>5. t.of \in LiveBindings
        BY <4>3, <4>4, LiveAre
      <4>6. QED
        BY <1>5, <4>5
    <3>2. Deref(t.addr).outcome = "dangling"
      BY <2>3, <3>1, DerefIs DEF root
    <3>3. QED
      BY <1>5, <3>2
  <2>4. QED
    BY <2>1, <2>2, <2>3
<1>6. QED
  BY <1>3, <1>4, <1>5

(***************************************************************************)
(* An address works exactly as long as its variable lives                    *)
(* (PointersFollowLifetimes), for every program and every depth of the stack:   *)
(* from every frame above the variable's, except while that awaits, and never    *)
(* once its block or function has ended (deref_region in raw_pointer.rs, the      *)
(* env shelf of runtime_builtins.rs).                                         *)
(***************************************************************************)
THEOREM PointersCorrect == Spec => []PointersFollowLifetimes
<1>1. Init => TombstonesOK /\ Remembered
  BY DEF Init, TombstonesOK, Remembered
<1>2. /\ StackInv /\ Counters /\ PointersInv /\ TombstonesOK /\ Remembered /\ [Next]_vars
         => TombstonesOK' /\ Remembered'
  <2> SUFFICES ASSUME StackInv, Counters, PointersInv, TombstonesOK, Remembered, [Next]_vars
               PROVE  TombstonesOK' /\ Remembered'
    OBVIOUS
  <2>1. CASE Next
    BY <2>1, TombstonesStep, RememberedStep
  <2>2. CASE UNCHANGED vars
    BY <2>2 DEF vars, rawVars, history, TombstonesOK, Remembered
  <2>3. QED
    BY <2>1, <2>2
<1>3. StackInv /\ PointersInv /\ PlacesInv /\ TombstonesOK /\ Remembered => PointersFollowLifetimes
  BY PointersFollow
<1>4. QED
  BY <1>1, <1>2, <1>3, StackAlways, PointersAlways, PlacesAlways, PTL DEF Spec

=============================================================================
