----------------------------- MODULE LoaderProofs -----------------------------
(***************************************************************************)
(* Proofs about the module loader, for every project: the set of names being   *)
(* loaded is the stack of activations and no module is loaded twice; a program *)
(* that passes has no cycle and no missing import; its names are visible       *)
(* where they are used; the verdict is exact; and the load ends.              *)
(***************************************************************************)
EXTENDS LoaderProperties, SequenceTheorems, FiniteSetTheorems, WellFoundedInduction, TLAPS

Inv == TypeOK /\ LoadingInvariant /\ OrderSoFar

(***************************************************************************)
(* Sequences                                                               *)
(***************************************************************************)
LEMMA TailFacts ==
    ASSUME NEW S, NEW q \in Seq(S), q # <<>>
    PROVE  /\ Head(q) \in S /\ Tail(q) \in Seq(S) /\ Head(q) = q[1]
           /\ Len(q) \in Nat \ {0} /\ Len(Tail(q)) = Len(q) - 1
           /\ \A k \in 1..Len(Tail(q)) : Tail(q)[k] = q[k + 1] /\ k + 1 \in 1..Len(q)
  OBVIOUS

LEMMA AppendFacts ==
    ASSUME NEW S, NEW q \in Seq(S), NEW e \in S
    PROVE  /\ Append(q, e) \in Seq(S)
           /\ Len(q) \in Nat /\ Len(Append(q, e)) = Len(q) + 1
           /\ \A k \in 1..Len(q) : Append(q, e)[k] = q[k]
           /\ Append(q, e)[Len(q) + 1] = e
  OBVIOUS

LEMMA RangeFacts ==
    ASSUME NEW S, NEW q \in Seq(S)
    PROVE  /\ \A k \in 1..Len(q) : q[k] \in Range(q)
           /\ \A e \in Range(q) : e \in S /\ \E k \in 1..Len(q) : q[k] = e
  BY DEF Range

LEMMA FrontFacts ==
    ASSUME NEW S, NEW q \in Seq(S), NEW n \in Nat, n <= Len(q)
    PROVE  /\ SubSeq(q, 1, n) \in Seq(S) /\ Len(SubSeq(q, 1, n)) = n
           /\ \A k \in 1..n : SubSeq(q, 1, n)[k] = q[k]
<1>1. 1 \in Int /\ n \in Int /\ \A k \in 1..n : q[k] \in S
  OBVIOUS
<1>2. /\ SubSeq(q, 1, n) \in Seq(S)
      /\ Len(SubSeq(q, 1, n)) = IF 1 <= n THEN n - 1 + 1 ELSE 0
      /\ \A k \in 1..(n - 1 + 1) : SubSeq(q, 1, n)[k] = q[1 + k - 1]
  BY <1>1, SubSeqProperties
<1>3. Len(SubSeq(q, 1, n)) = n
  BY <1>2
<1> QED
  BY <1>2, <1>3

(* What taking the first of a sequence away leaves.                          *)
LEMMA RangeOfTail ==
    ASSUME NEW S, NEW q \in Seq(S), q # <<>>
    PROVE  /\ Head(q) \in Range(q) /\ Range(Tail(q)) \subseteq Range(q)
           /\ Range(q) \subseteq {Head(q)} \cup Range(Tail(q))
<1>1. Tail(q) \in Seq(S) /\ Head(q) = q[1] /\ 1 \in 1..Len(q) /\ Len(q) \in Nat
  BY TailFacts
<1>2. ASSUME NEW e \in Range(Tail(q)) PROVE e \in Range(q)
  <2>1. PICK k \in 1..Len(Tail(q)) : Tail(q)[k] = e
    BY <1>1, <1>2, RangeFacts, Zenon
  <2>2. q[k + 1] = e /\ k + 1 \in 1..Len(q)
    BY <2>1, TailFacts
  <2> QED
    BY <2>2, RangeFacts
<1>3. ASSUME NEW e \in Range(q), e # Head(q) PROVE e \in Range(Tail(q))
  <2>1. PICK k \in 1..Len(q) : q[k] = e
    BY <1>3, RangeFacts
  <2>2. k - 1 \in 1..Len(Tail(q))
    BY <1>1, <1>3, <2>1, TailFacts
  <2>3. Tail(q)[k - 1] = e
    BY <2>1, <2>2, TailFacts
  <2> QED
    BY <1>1, <2>2, <2>3, RangeFacts
<1> QED
  BY <1>1, <1>2, <1>3, RangeFacts

(***************************************************************************)
(* Types                                                                   *)
(***************************************************************************)
LEMMA FileParts ==
    ASSUME NEW f \in Files
    PROVE  Dir(f) \in Dirs /\ Name(f) \in Names /\ f # Nothing
  BY DEF Files, Dir, Name, Nothing

LEMMA TextType ==
    ASSUME TypeOK, NEW f \in Files
    PROVE  /\ Text(f).imports \in Seq(Names)
           /\ Text(f).declares \subseteq Decls /\ Text(f).exports \subseteq Text(f).declares
           /\ Text(f).state \in {"absent", "unreadable", "broken", "good"}
<1>1. project.source \in [Files -> Source]
  BY DEF TypeOK, Project
<1>2. Text(f) \in Source
  BY <1>1 DEF Text
<1> QED
  BY <1>2 DEF Source

LEMMA LeastOfNat ==
    ASSUME NEW T \in SUBSET Nat, T # {}
    PROVE  \E k \in T : \A j \in T : k <= j
<1> DEFINE R == OpToRel(<, Nat)
<1>1. \A j, k \in Nat : j < k => <<j, k>> \in R
  BY DEF OpToRel
<1>2. IsWellFoundedOn(R, Nat)
  BY NatLessThanWellFounded
<1> HIDE DEF R
<1>3. PICK k \in T : \A j \in T : ~(<<j, k>> \in R)
  BY <1>2, WFMin
<1>4. \A j \in T : k <= j
  <2> TAKE j \in T
  <2>1. j \in Nat /\ k \in Nat /\ ~(j < k)
    BY <1>1, <1>3
  <2> QED
    BY <2>1
<1> QED
  BY <1>4

LEMMA IndexFacts ==
    ASSUME NEW S, NEW q \in Seq(S)
    PROVE  DOMAIN q \subseteq Nat /\ \A k \in DOMAIN q : q[k] \in S
  OBVIOUS

LEMMA ResolveType ==
    ASSUME TypeOK, NEW name \in Names, NEW dir \in Dirs
    PROVE  Resolve(name, dir) \in Files /\ Name(Resolve(name, dir)) = name
<1> DEFINE search == project.search
<1>1. search \in Seq(Dirs)
  BY DEF TypeOK, Project
<1> DEFINE found == {k \in DOMAIN search : Exists(<<search[k], name>>)}
           first == CHOOSE k \in found : \A j \in found : k <= j
<1>2. CASE Exists(<<dir, name>>) \/ found = {}
  <2>1. Resolve(name, dir) = <<dir, name>>
    BY <1>2 DEF Resolve
  <2> QED
    BY <2>1 DEF Files, Name
<1>3. CASE ~(Exists(<<dir, name>>) \/ found = {})
  <2>1. Resolve(name, dir) = <<search[first], name>>
    BY <1>3 DEF Resolve
  <2> HIDE DEF search
  <2>2. found \subseteq Nat /\ found # {}
    BY <1>1, <1>3, IndexFacts
  <2>3. \E k \in found : \A j \in found : k <= j
    BY <2>2, LeastOfNat
  <2>4. first \in DOMAIN search
    BY <2>3
  <2> HIDE DEF first
  <2>5. search[first] \in Dirs
    BY <1>1, <2>4, IndexFacts
  <2> QED
    BY <2>1, <2>5 DEF Files, Name
<1> QED
  BY <1>2, <1>3
Frame == [file : Files, todo : Seq(Names)]

LEMMA TopFacts ==
    ASSUME TypeOK, Busy
    PROVE  /\ Len(stack) \in Nat \ {0} /\ Top \in Frame
           /\ Top.file \in Files /\ Top.todo \in Seq(Names)
<1>1. stack \in Seq(Frame) /\ stack # <<>>
  BY DEF TypeOK, Busy, Frame
<1>2. Len(stack) \in Nat \ {0} /\ stack[Len(stack)] \in Frame
  BY <1>1
<1> QED
  BY <1>2 DEF Top, Frame

LEMMA ImportDoneFacts ==
    ASSUME TypeOK, Busy, Top.todo # <<>>
    PROVE  /\ ImportDone \in Seq(Frame) /\ Len(ImportDone) = Len(stack)
           /\ \A k \in 1..Len(stack) : ImportDone[k].file = stack[k].file
           /\ \A k \in 1..(Len(stack) - 1) : ImportDone[k] = stack[k]
           /\ ImportDone[Len(stack)].todo = Tail(Top.todo)
           /\ NextImport \in Names
<1>1. stack \in Seq(Frame) /\ Len(stack) \in Nat \ {0}
      /\ Top.file \in Files /\ Top.todo \in Seq(Names)
  BY TopFacts DEF TypeOK, Frame
<1>2. Tail(Top.todo) \in Seq(Names) /\ NextImport \in Names
  BY <1>1, TailFacts DEF NextImport
<1> DEFINE n == Len(stack)
           e == [file |-> Top.file, todo |-> Tail(Top.todo)]
<1>3. e \in Frame
  BY <1>1, <1>2 DEF Frame
<1>4. ImportDone = [stack EXCEPT ![n] = e]
  BY DEF ImportDone
<1>5. e.file = stack[n].file /\ e.todo = Tail(Top.todo)
  BY DEF Top
<1> HIDE DEF e, n
<1>6. n = Len(stack)
  BY DEF n
<1>7. ImportDone \in Seq(Frame) /\ Len(ImportDone) = Len(stack)
  BY <1>1, <1>3, <1>4, <1>6
<1>8. ImportDone[n] = e /\ \A k \in 1..Len(stack) : k # n => ImportDone[k] = stack[k]
  BY <1>1, <1>4, <1>6
<1>9. \A k \in 1..Len(stack) : ImportDone[k].file = stack[k].file
  BY <1>5, <1>8
<1>10. \A k \in 1..(Len(stack) - 1) : ImportDone[k] = stack[k]
  BY <1>1, <1>6, <1>8
<1>11. ImportDone[Len(stack)].todo = Tail(Top.todo)
  BY <1>5, <1>6, <1>8
<1> QED
  BY <1>2, <1>7, <1>9, <1>10, <1>11

LEMMA LeaveFacts ==
    ASSUME TypeOK, Busy
    PROVE  LET below == SubSeq(stack, 1, Len(stack) - 1)
           IN  /\ below \in Seq(Frame) /\ Len(below) = Len(stack) - 1
               /\ \A k \in 1..(Len(stack) - 1) : below[k] = stack[k]
<1>1. stack \in Seq(Frame) /\ Len(stack) \in Nat \ {0}
  BY TopFacts DEF TypeOK, Frame
<1> DEFINE n == Len(stack) - 1
<1>2. n \in Nat /\ n <= Len(stack)
  BY <1>1
<1> HIDE DEF n
<1>3. /\ SubSeq(stack, 1, n) \in Seq(Frame) /\ Len(SubSeq(stack, 1, n)) = n
      /\ \A k \in 1..n : SubSeq(stack, 1, n)[k] = stack[k]
  BY <1>1, <1>2, FrontFacts
<1> QED
  BY <1>3 DEF n

LEMMA ComplainType ==
    ASSUME TypeOK, NEW code \in Codes, NEW f \in Files, NEW name \in Names,
           Complain(code, f, name)
    PROVE  /\ diagnostics' \subseteq [code : Codes, file : Files, name : Names \cup Decls]
           /\ diagnostics' # {}
<1> DEFINE r == [code |-> code, file |-> f, name |-> name]
<1>1. diagnostics' = diagnostics \cup {r}
  BY DEF Complain
<1>2. r \in [code : Codes, file : Files, name : Names \cup Decls]
  OBVIOUS
<1> QED
  BY <1>1, <1>2 DEF TypeOK

LEMMA CallType ==
    ASSUME TypeOK, Called
    PROVE  call \in Files /\ Name(call) \in Names /\ call' = Nothing
  BY FileParts DEF TypeOK, Called

LEMMA InitTypeOK == Init => TypeOK
<1> SUFFICES ASSUME Init PROVE TypeOK
  OBVIOUS
<1>1. project \in Project
  BY ProjectsAssumption DEF Init
<1>2. roots \subseteq Files
  BY <1>1 DEF Init, Roots, Project, Library
<1>3. /\ stack \in Seq([file : Files, todo : Seq(Names)])
      /\ modules \in Seq(Files) /\ left \in Seq(Names)
  BY DEF Init
<1> QED
  BY <1>1, <1>2, <1>3 DEF Init, TypeOK, Nothing

LEMMA NextTypeOK == TypeOK /\ [Next]_vars => TypeOK'
<1> SUFFICES ASSUME TypeOK, [Next]_vars PROVE TypeOK'
  OBVIOUS
<1> DEFINE Complaint == [code : Codes, file : Files, name : Names \cup Decls]
<1>1. CASE NextRoot
  <2>1. PICK f \in roots : call' = f /\ roots' = roots \ {f}
    BY <1>1 DEF NextRoot
  <2>2. f \in Files /\ roots' \subseteq Files
    BY <2>1 DEF TypeOK
  <2> QED
    BY <1>1, <2>1, <2>2 DEF NextRoot, TypeOK
<1>2. CASE SkipLoaded
  BY <1>2 DEF SkipLoaded, Called, TypeOK
<1>3. CASE Unreadable
  <2>1. call \in Files /\ Name(call) \in Names /\ call' = Nothing
    BY <1>3, CallType DEF Unreadable
  <2>2. diagnostics' \subseteq Complaint
    BY <1>3, <2>1, ComplainType DEF Unreadable, Codes
  <2> QED
    BY <1>3, <2>1, <2>2 DEF Unreadable, TypeOK
<1>4. CASE SyntaxErrors
  <2>1. call \in Files /\ Name(call) \in Names /\ call' = Nothing
    BY <1>4, CallType DEF SyntaxErrors
  <2>2. diagnostics' \subseteq Complaint
    BY <1>4, <2>1, ComplainType DEF SyntaxErrors, Codes
  <2> QED
    BY <1>4, <2>1, <2>2 DEF SyntaxErrors, TypeOK
<1>5. CASE Enter
  <2>1. call \in Files /\ Name(call) \in Names /\ call' = Nothing
    BY <1>5, CallType DEF Enter
  <2>2. [file |-> call, todo |-> Text(call).imports] \in Frame
    BY <2>1, TextType DEF Frame
  <2>3. stack' \in Seq(Frame)
    BY <1>5, <2>2, AppendFacts DEF Enter, TypeOK, Frame
  <2>4. modules' \in Seq(Files)
    BY <1>5, <2>1, AppendFacts DEF Enter, TypeOK
  <2> QED
    BY <1>5, <2>1, <2>3, <2>4 DEF Enter, TypeOK, Frame
<1>6. CASE ImportAgain
  <2>1. stack' \in Seq(Frame) /\ NextImport \in Names
    BY <1>6, ImportDoneFacts DEF ImportAgain
  <2>2. Top.file \in Files
    BY <1>6, TopFacts DEF ImportAgain
  <2>3. diagnostics' \subseteq Complaint
    BY <1>6, <2>1, <2>2, ComplainType DEF ImportAgain, Codes
  <2> QED
    BY <1>6, <2>1, <2>3 DEF ImportAgain, TypeOK, Frame
<1>7. CASE Import
  <2>1. stack' \in Seq(Frame) /\ NextImport \in Names
    BY <1>7, ImportDoneFacts DEF Import
  <2>2. Dir(Top.file) \in Dirs
    BY <1>7, TopFacts, FileParts DEF Import
  <2>3. call' \in Files
    BY <1>7, <2>1, <2>2, ResolveType DEF Import
  <2> QED
    BY <1>7, <2>1, <2>3 DEF Import, TypeOK, Frame
<1>8. CASE Leave
  <2>1. stack' \in Seq(Frame)
    BY <1>8, LeaveFacts DEF Leave
  <2>2. Name(Top.file) \in Names
    BY <1>8, TopFacts, FileParts DEF Leave
  <2>3. left' \in Seq(Names)
    BY <1>8, <2>2, AppendFacts DEF Leave, TypeOK
  <2>4. visiting' \subseteq Names
    BY <1>8 DEF Leave, Unvisited, TypeOK
  <2> QED
    BY <1>8, <2>1, <2>3, <2>4 DEF Leave, TypeOK, Frame
<1>9. CASE FinishLoading
  BY <1>9 DEF FinishLoading, TypeOK
<1>10. CASE CheckNames
  <2>1. ASSUME NEW k \in 1..Len(modules)
        PROVE  DuplicateNames(k) \cup InvisibleNames(k) \subseteq Complaint
    <3>1. modules[k] \in Files
      BY <2>1 DEF TypeOK
    <3>2. Duplicates(k) \subseteq Decls /\ Invisible(k) \subseteq Decls
      BY <3>1, TextType DEF Duplicates, Declares, Invisible, Collected
    <3>3. \A d : WhyInvisible(d) \in Codes
      BY DEF WhyInvisible, Codes
    <3> QED
      BY <3>1, <3>2, <3>3 DEF DuplicateNames, InvisibleNames, Codes
  <2>2. diagnostics' \subseteq Complaint
    BY <1>10, <2>1 DEF CheckNames
  <2> QED
    BY <1>10, <2>2 DEF CheckNames, TypeOK
<1>11. CASE UNCHANGED vars
  BY <1>11 DEF vars, TypeOK
<1> QED
  BY <1>1, <1>2, <1>3, <1>4, <1>5, <1>6, <1>7, <1>8, <1>9, <1>10, <1>11
     DEF Next, LoadModule, FollowImports, Ended

(* Every variable keeps its type.                                           *)
THEOREM TypeCorrect == Spec => []TypeOK
  BY InitTypeOK, NextTypeOK, PTL DEF Spec

(***************************************************************************)
(* The stack of activations                                                *)
(***************************************************************************)
LEMMA InitLoading == Init => LoadingInvariant
  BY DEF Init, LoadingInvariant, LoadedOnce, VisitingIsStack, ChainOfImports, PhaseEnds

LEMMA StackType ==
    ASSUME TypeOK
    PROVE  /\ Len(stack) \in Nat /\ Len(modules) \in Nat
           /\ \A k \in 1..Len(stack) : stack[k] \in Frame /\ stack[k].file \in Files
           /\ \A k \in 1..Len(modules) : modules[k] \in Files
<1>1. stack \in Seq(Frame) /\ modules \in Seq(Files)
  BY DEF TypeOK, Frame
<1>2. \A k \in 1..Len(stack) : stack[k] \in Frame
  BY <1>1
<1> QED
  BY <1>1, <1>2 DEF Frame

LEMMA EnterLoading ==
    ASSUME TypeOK, LoadingInvariant, Enter
    PROVE  LoadingInvariant'
<1> DEFINE n == Len(stack)
           e == [file |-> call, todo |-> Text(call).imports]
<1>1. call \in Files /\ call' = Nothing /\ phase = "load" /\ call # Nothing
  BY CallType DEF Enter, Called
<1>2. e \in Frame /\ stack \in Seq(Frame) /\ modules \in Seq(Files) /\ project' = project
  BY <1>1, TextType DEF Frame, TypeOK, Enter
<1>3. /\ Len(stack') = n + 1 /\ n \in Nat
      /\ \A k \in 1..n : stack'[k] = stack[k]
      /\ stack'[n + 1] = e
  <2>1. stack' = Append(stack, e)
    BY DEF Enter
  <2> HIDE DEF e
  <2> QED
    BY <1>2, <2>1, AppendFacts
<1>4. /\ Len(modules') = Len(modules) + 1 /\ Len(modules) \in Nat
      /\ \A k \in 1..Len(modules) : modules'[k] = modules[k]
      /\ modules'[Len(modules) + 1] = call
  BY <1>1, <1>2, AppendFacts DEF Enter
<1>5. Name(call) \notin Loaded
  BY DEF Enter, Already
<1>6. LoadedOnce'
  <2> SUFFICES ASSUME NEW j \in 1..Len(modules'), NEW k \in 1..Len(modules'),
                      Name(modules'[j]) = Name(modules'[k])
               PROVE  j = k
    BY DEF LoadedOnce, Name
  <2>1. \A i \in 1..Len(modules) : Name(modules[i]) # Name(call)
    BY <1>5 DEF Loaded
  <2>2. CASE j \in 1..Len(modules) /\ k \in 1..Len(modules)
    BY <1>4, <2>2 DEF LoadingInvariant, LoadedOnce
  <2>3. CASE j = Len(modules) + 1 /\ k \in 1..Len(modules)
    BY <1>4, <2>1, <2>3
  <2>4. CASE k = Len(modules) + 1 /\ j \in 1..Len(modules)
    BY <1>4, <2>1, <2>4
  <2> QED
    BY <1>4, <2>2, <2>3, <2>4
<1>7. \A k \in 1..n : Name(stack[k].file) # Name(call)
  BY <1>5 DEF Loaded, LoadingInvariant, VisitingIsStack
<1>8. VisitingIsStack'
  <2>1. visiting' = {Name(stack'[k].file) : k \in 1..Len(stack')}
    <3>1. visiting' = visiting \cup {Name(call)} /\ e.file = call
      BY DEF Enter
    <3>2. visiting = {Name(stack[k].file) : k \in 1..n}
      BY DEF LoadingInvariant, VisitingIsStack
    <3> HIDE DEF e
    <3>3. ASSUME NEW v \in visiting' PROVE \E k \in 1..Len(stack') : v = Name(stack'[k].file)
      BY <1>3, <3>1, <3>2, <3>3
    <3>4. ASSUME NEW k \in 1..Len(stack') PROVE Name(stack'[k].file) \in visiting'
      <4>1. CASE k \in 1..n
        BY <1>3, <3>1, <3>2, <4>1
      <4>2. CASE k = n + 1
        BY <1>3, <3>1, <4>2
      <4> QED
        BY <1>3, <4>1, <4>2
    <3> QED
      BY <3>3, <3>4
  <2>2. ASSUME NEW j \in 1..Len(stack'), NEW k \in 1..Len(stack'),
               Name(stack'[j].file) = Name(stack'[k].file)
        PROVE  j = k
    <3>1. e.file = call
      OBVIOUS
    <3> HIDE DEF e
    <3>2. CASE j \in 1..n /\ k \in 1..n
      BY <1>3, <2>2, <3>2 DEF LoadingInvariant, VisitingIsStack
    <3>3. CASE j = n + 1 /\ k \in 1..n
      BY <1>3, <1>7, <2>2, <3>1, <3>3
    <3>4. CASE k = n + 1 /\ j \in 1..n
      BY <1>3, <1>7, <2>2, <3>1, <3>4
    <3> QED
      BY <1>3, <3>2, <3>3, <3>4
  <2>3. ASSUME NEW k \in 1..Len(stack')
        PROVE  \E j \in 1..Len(modules') : modules'[j] = stack'[k].file
    <3>1. e.file = call
      OBVIOUS
    <3> HIDE DEF e
    <3>2. CASE k \in 1..n
      <4>1. PICK j \in 1..Len(modules) : modules[j] = stack[k].file
        BY <3>2 DEF LoadingInvariant, VisitingIsStack
      <4> QED
        BY <1>3, <1>4, <3>2, <4>1
    <3>3. CASE k = n + 1
      BY <1>3, <1>4, <3>1, <3>3
    <3> QED
      BY <1>3, <3>2, <3>3
  <2> QED
    BY <1>1, <2>1, <2>2, <2>3 DEF VisitingIsStack, Name
<1>9. ChainOfImports'
  <2> SUFFICES ASSUME NEW k \in 1..Len(stack')
               PROVE  Range(stack'[k].todo) \cup Underway(k)'
                          \subseteq Range(project.source[stack'[k].file].imports)
    BY <1>2 DEF ChainOfImports, ImportsOf, Text
  <2>1. CASE k \in 1..n
    <3>1. Range(stack[k].todo) \cup Underway(k) \subseteq ImportsOf(stack[k].file)
      BY <2>1 DEF LoadingInvariant, ChainOfImports
    <3>2. e.file = call
      OBVIOUS
    <3> HIDE DEF e
    <3>3. Underway(k)' \subseteq Underway(k)
      <4>1. CASE k = n
        BY <1>1, <1>3, <3>2, <4>1 DEF Underway, Name
      <4>2. CASE k < n
        <5>1. k + 1 \in 1..n
          BY <1>3, <2>1, <4>2
        <5> QED
          BY <1>1, <1>3, <4>2, <5>1 DEF Underway, Name
      <4> QED
        BY <1>3, <2>1, <4>1, <4>2
    <3> QED
      BY <1>3, <2>1, <3>1, <3>3 DEF ImportsOf, Text
  <2>2. CASE k = n + 1
    <3>1. Underway(k)' = {}
      BY <1>1, <1>3, <2>2 DEF Underway
    <3>2. stack'[k] = e /\ e.file = call /\ e.todo = project.source[call].imports
      BY <1>3, <2>2 DEF Text
    <3> HIDE DEF e
    <3> QED
      BY <3>1, <3>2
  <2> QED
    BY <1>3, <2>1, <2>2
<1>10. PhaseEnds'
  BY <1>1 DEF PhaseEnds, Enter
<1> QED
  BY <1>6, <1>8, <1>9, <1>10 DEF LoadingInvariant

(* One import of the module on top of the stack is taken from its list.        *)
LEMMA ImportLoading ==
    ASSUME TypeOK, LoadingInvariant, ImportAgain \/ Import
    PROVE  LoadingInvariant'
<1> DEFINE n == Len(stack)
<1>1. /\ Busy /\ Top.todo # <<>> /\ stack' = ImportDone /\ project' = project
      /\ modules' = modules /\ visiting' = visiting /\ phase' = phase
      /\ phase = "load" /\ call = Nothing
  BY DEF ImportAgain, Import, Busy
<1>2. /\ n \in Nat \ {0} /\ Len(stack') = n
      /\ \A k \in 1..n : stack'[k].file = stack[k].file
      /\ \A k \in 1..(n - 1) : stack'[k] = stack[k]
      /\ stack'[n].todo = Tail(Top.todo) /\ NextImport \in Names
  BY <1>1, TopFacts, ImportDoneFacts
<1>3. /\ NextImport \in Range(Top.todo) /\ Range(Tail(Top.todo)) \subseteq Range(Top.todo)
      /\ Top = stack[n]
  BY <1>1, TopFacts, RangeOfTail DEF NextImport, Top
<1>4. call' = Nothing \/ (Name(call') = NextImport /\ NextImport \notin visiting)
  <2>1. CASE ImportAgain
    BY <1>1, <2>1 DEF ImportAgain
  <2>2. CASE Import
    <3>1. Dir(Top.file) \in Dirs
      BY <1>1, TopFacts, FileParts
    <3> QED
      BY <1>2, <2>2, <3>1, ResolveType DEF Import, Cyclic
  <2> QED
    BY <2>1, <2>2
<1>5. LoadedOnce'
  BY <1>1 DEF LoadingInvariant, LoadedOnce
<1>6. VisitingIsStack'
  <2>1. visiting = {Name(stack[k].file) : k \in 1..n}
    BY DEF LoadingInvariant, VisitingIsStack
  <2>2. visiting' = {Name(stack'[k].file) : k \in 1..Len(stack')}
    BY <1>1, <1>2, <2>1
  <2>3. \A j, k \in 1..Len(stack') : Name(stack'[j].file) = Name(stack'[k].file) => j = k
    BY <1>2 DEF LoadingInvariant, VisitingIsStack
  <2>4. \A k \in 1..Len(stack') : \E j \in 1..Len(modules') : modules'[j] = stack'[k].file
    BY <1>1, <1>2 DEF LoadingInvariant, VisitingIsStack
  <2>5. call' # Nothing => Name(call') \notin visiting'
    BY <1>1, <1>4
  <2> QED
    BY <2>2, <2>3, <2>4, <2>5 DEF VisitingIsStack, Name
<1>7. ChainOfImports'
  <2> SUFFICES ASSUME NEW k \in 1..n
               PROVE  Range(stack'[k].todo) \cup Underway(k)'
                          \subseteq Range(project.source[stack[k].file].imports)
    BY <1>1, <1>2 DEF ChainOfImports, ImportsOf, Text
  <2>1. Range(stack[k].todo) \cup Underway(k) \subseteq Range(project.source[stack[k].file].imports)
    BY DEF LoadingInvariant, ChainOfImports, ImportsOf, Text
  <2>2. CASE k = n
    <3>1. Underway(k)' \subseteq {NextImport}
      BY <1>2, <1>4, <2>2 DEF Underway, Name
    <3> QED
      BY <1>2, <1>3, <2>1, <2>2, <3>1
  <2>3. CASE k < n
    <3>1. k \in 1..(n - 1) /\ k + 1 \in 1..n
      BY <1>2, <2>3
    <3>2. Underway(k)' = Underway(k)
      BY <1>2, <2>3, <3>1 DEF Underway, Name
    <3> QED
      BY <1>2, <2>1, <3>1, <3>2
  <2> QED
    BY <1>2, <2>2, <2>3
<1>8. PhaseEnds'
  BY <1>1 DEF PhaseEnds
<1> QED
  BY <1>5, <1>6, <1>7, <1>8 DEF LoadingInvariant

LEMMA LeaveLoading ==
    ASSUME TypeOK, LoadingInvariant, Leave
    PROVE  LoadingInvariant'
<1> DEFINE n == Len(stack)
<1>1. /\ Busy /\ project' = project /\ modules' = modules /\ phase' = "load"
      /\ visiting' = visiting \ {Name(Top.file)} /\ call' = Nothing /\ call = Nothing
  BY DEF Leave, Busy, Unvisited
<1>2. /\ n \in Nat \ {0} /\ Len(stack') = n - 1 /\ Top = stack[n]
      /\ \A k \in 1..(n - 1) : stack'[k] = stack[k]
  BY <1>1, TopFacts, LeaveFacts DEF Leave, Top
<1>3. LoadedOnce'
  BY <1>1 DEF LoadingInvariant, LoadedOnce
<1>4. VisitingIsStack'
  <2>1. /\ visiting = {Name(stack[k].file) : k \in 1..n}
        /\ \A j, k \in 1..n : Name(stack[j].file) = Name(stack[k].file) => j = k
    BY DEF LoadingInvariant, VisitingIsStack
  <2>2. \A k \in 1..(n - 1) : Name(stack[k].file) # Name(Top.file)
    BY <1>2, <2>1
  <2>3. visiting' = {Name(stack[k].file) : k \in 1..(n - 1)}
    <3>1. ASSUME NEW v \in visiting' PROVE \E k \in 1..(n - 1) : v = Name(stack[k].file)
      <4>1. PICK k \in 1..n : v = Name(stack[k].file)
        BY <1>1, <2>1, <3>1
      <4>2. k # n
        BY <1>1, <1>2, <3>1, <4>1
      <4> QED
        BY <1>2, <4>1, <4>2
    <3>2. ASSUME NEW k \in 1..(n - 1) PROVE Name(stack[k].file) \in visiting'
      BY <1>1, <1>2, <2>1, <2>2, <3>2
    <3> QED
      BY <3>1, <3>2
  <2>4. visiting' = {Name(stack'[k].file) : k \in 1..Len(stack')}
    BY <1>2, <2>3
  <2>5. \A j, k \in 1..Len(stack') : Name(stack'[j].file) = Name(stack'[k].file) => j = k
    BY <1>2, <2>1
  <2>6. \A k \in 1..Len(stack') : \E j \in 1..Len(modules') : modules'[j] = stack'[k].file
    BY <1>1, <1>2 DEF LoadingInvariant, VisitingIsStack
  <2> QED
    BY <1>1, <2>4, <2>5, <2>6 DEF VisitingIsStack, Name
<1>5. ChainOfImports'
  <2> SUFFICES ASSUME NEW k \in 1..(n - 1)
               PROVE  Range(stack[k].todo) \cup Underway(k)'
                          \subseteq Range(project.source[stack[k].file].imports)
    BY <1>1, <1>2 DEF ChainOfImports, ImportsOf, Text
  <2>1. Range(stack[k].todo) \cup Underway(k) \subseteq Range(project.source[stack[k].file].imports)
    BY <1>2 DEF LoadingInvariant, ChainOfImports, ImportsOf, Text
  <2>2. Underway(k)' \subseteq Underway(k)
    <3>1. CASE k + 1 <= n - 1
      BY <1>1, <1>2, <3>1 DEF Underway, Name
    <3>2. CASE k = n - 1
      BY <1>1, <1>2, <3>2 DEF Underway
    <3> QED
      BY <1>2, <3>1, <3>2
  <2> QED
    BY <2>1, <2>2
<1>6. PhaseEnds'
  BY <1>1 DEF PhaseEnds
<1> QED
  BY <1>3, <1>4, <1>5, <1>6 DEF LoadingInvariant

(* Steps that leave the stack and the modules as they are.                     *)
LEMMA QuietLoading ==
    ASSUME TypeOK, LoadingInvariant,
           UNCHANGED <<project, stack, modules, visiting>>,
           stack = <<>> \/ call' \in {call, Nothing},
           call' # Nothing => Name(call') \notin visiting,
           PhaseEnds'
    PROVE  LoadingInvariant'
<1>1. LoadedOnce' /\ VisitingIsStack'
  BY DEF LoadingInvariant, LoadedOnce, VisitingIsStack, Name
<1>2. ChainOfImports'
  <2> SUFFICES ASSUME NEW k \in 1..Len(stack)
               PROVE  Range(stack[k].todo) \cup Underway(k)'
                          \subseteq Range(project.source[stack[k].file].imports)
    BY DEF ChainOfImports, ImportsOf, Text
  <2>1. Range(stack[k].todo) \cup Underway(k) \subseteq Range(project.source[stack[k].file].imports)
    BY DEF LoadingInvariant, ChainOfImports, ImportsOf, Text
  <2>2. call' \in {call, Nothing}
    BY StackType
  <2>3. Underway(k)' \subseteq Underway(k)
    BY <2>2 DEF Underway, Name
  <2> QED
    BY <2>1, <2>3
<1> QED
  BY <1>1, <1>2 DEF LoadingInvariant

LEMMA NextLoading ==
    ASSUME TypeOK, LoadingInvariant, [Next]_vars
    PROVE  LoadingInvariant'
<1>1. CASE NextRoot
  <2>1. visiting = {} /\ stack = <<>> /\ phase' = "load"
    BY <1>1 DEF NextRoot, LoadingInvariant, VisitingIsStack
  <2>2. UNCHANGED <<project, stack, modules, visiting>>
    BY <1>1 DEF NextRoot
  <2>3. PhaseEnds'
    BY <2>1 DEF PhaseEnds
  <2> QED
    BY <2>1, <2>2, <2>3, QuietLoading
<1>2. CASE SkipLoaded \/ Unreadable \/ SyntaxErrors
  <2>1. UNCHANGED <<project, stack, modules, visiting>> /\ call' = Nothing /\ phase' = "load"
    BY <1>2 DEF SkipLoaded, Unreadable, SyntaxErrors, Called
  <2>2. PhaseEnds'
    BY <2>1 DEF PhaseEnds
  <2> QED
    BY <2>1, <2>2, QuietLoading
<1>3. CASE Enter
  BY <1>3, EnterLoading
<1>4. CASE ImportAgain \/ Import
  BY <1>4, ImportLoading
<1>5. CASE Leave
  BY <1>5, LeaveLoading
<1>6. CASE FinishLoading \/ CheckNames
  <2>1. /\ UNCHANGED <<project, stack, modules, visiting, call, roots>>
        /\ stack = <<>> /\ call = Nothing /\ roots = {}
    BY <1>6 DEF FinishLoading, CheckNames, LoadingInvariant, PhaseEnds
  <2>2. phase' \in {"check", "accepted"} => diagnostics' = {}
    BY <1>6 DEF FinishLoading, CheckNames
  <2>3. PhaseEnds'
    BY <2>1, <2>2 DEF PhaseEnds
  <2> QED
    BY <2>1, <2>3, QuietLoading
<1>7. CASE UNCHANGED vars
  <2>1. UNCHANGED <<project, roots, stack, modules, visiting, call, phase, diagnostics>>
    BY <1>7 DEF vars
  <2>2. PhaseEnds' /\ (call' # Nothing => Name(call') \notin visiting)
    BY <2>1 DEF LoadingInvariant, PhaseEnds, VisitingIsStack
  <2> QED
    BY <2>1, <2>2, QuietLoading
<1> QED
  BY <1>1, <1>2, <1>3, <1>4, <1>5, <1>6, <1>7 DEF Next, LoadModule, FollowImports, Ended

(* visiting is the stack of activations, whatever the project, and no module is *)
(* loaded twice.                                                            *)
THEOREM StackIsVisiting == Spec => []LoadingInvariant
<1>1. Init => TypeOK /\ LoadingInvariant
  BY InitTypeOK, InitLoading
<1>2. TypeOK /\ LoadingInvariant /\ [Next]_vars => (TypeOK /\ LoadingInvariant)'
  BY NextTypeOK, NextLoading
<1> QED
  BY <1>1, <1>2, PTL DEF Spec

(***************************************************************************)
(* The order in which modules are left                                      *)
(***************************************************************************)
LEMMA InitOrder == Init => OrderSoFar
<1> SUFFICES ASSUME Init PROVE OrderSoFar
  OBVIOUS
<1>1. Len(modules) = 0 /\ Len(stack) = 0
  BY DEF Init
<1> QED
  BY <1>1 DEF OrderSoFar, DoneInOrder, StackOnItsWay

(* What a sequence holds, in what order, does not change when it grows.        *)
LEMMA OrderGrows ==
    ASSUME NEW s \in Seq(Names), NEW t, NEW name \in Names, t = Append(s, name)
    PROVE  /\ \A i : Among(s, i) => Among(t, i) /\ Before(t, i, name)
           /\ \A i, j : Before(s, i, j) => Before(t, i, j)
           /\ Among(t, name)
<1> DEFINE n == Len(s)
<1>1. /\ t \in Seq(Names) /\ n \in Nat /\ Len(t) = n + 1
      /\ \A k \in 1..n : t[k] = s[k]
      /\ t[n + 1] = name
  BY AppendFacts
<1>2. ASSUME NEW i, Among(s, i)
      PROVE  Among(t, i) /\ Before(t, i, name)
  <2>1. PICK p \in 1..n : s[p] = i
    BY <1>2 DEF Among
  <2>2. p \in 1..(n + 1) /\ n + 1 \in 1..(n + 1) /\ p < n + 1 /\ t[p] = i
    BY <1>1, <2>1
  <2> QED
    BY <1>1, <2>2 DEF Among, Before
<1>3. ASSUME NEW i, NEW j, Before(s, i, j)
      PROVE  Before(t, i, j)
  <2>1. PICK p \in 1..n, q \in 1..n : p < q /\ s[p] = i /\ s[q] = j
    BY <1>3 DEF Before
  <2>2. p \in 1..(n + 1) /\ q \in 1..(n + 1) /\ t[p] = i /\ t[q] = j
    BY <1>1, <2>1
  <2> QED
    BY <1>1, <2>1, <2>2 DEF Before
<1>4. Among(t, name)
  <2>1. n + 1 \in 1..(n + 1)
    BY <1>1
  <2> QED
    BY <1>1, <2>1 DEF Among
<1> QED
  BY <1>2, <1>3, <1>4

(* The module of a name, if it is loaded at all, is the one on the stack.      *)
LEMMA StackModule ==
    ASSUME TypeOK, LoadingInvariant, NEW k \in 1..Len(modules), NEW j \in 1..Len(stack),
           Name(modules[k]) = Name(stack[j].file)
    PROVE  modules[k] = stack[j].file
<1>1. PICK i \in 1..Len(modules) : modules[i] = stack[j].file
  BY DEF LoadingInvariant, VisitingIsStack
<1>2. i = k
  BY <1>1 DEF LoadingInvariant, LoadedOnce
<1> QED
  BY <1>1, <1>2

LEMMA LeaveOrder ==
    ASSUME Inv, Leave, diagnostics' = {}
    PROVE  DoneInOrder' /\ StackOnItsWay'
<1> DEFINE n == Len(stack)
           f == Top.file
<1>1. TypeOK /\ LoadingInvariant /\ DoneInOrder /\ StackOnItsWay
  BY DEF Inv, OrderSoFar, Leave
<1>2. /\ Busy /\ Top.todo = <<>> /\ project' = project /\ modules' = modules
      /\ visiting' = visiting \ {Name(f)} /\ call' = Nothing /\ call = Nothing
      /\ left' = Append(left, Name(f))
  BY DEF Leave, Busy, Unvisited
<1>3. /\ n \in Nat \ {0} /\ Len(stack') = n - 1 /\ Top = stack[n]
      /\ \A k \in 1..(n - 1) : stack'[k] = stack[k]
      /\ Name(f) \in Names
  BY <1>1, <1>2, TopFacts, FileParts, LeaveFacts DEF Leave, Top
<1>4. /\ \A i : Among(left, i) => Among(left', i) /\ Before(left', i, Name(f))
      /\ \A i, j : Before(left, i, j) => Before(left', i, j)
      /\ Among(left', Name(f))
  BY <1>1, <1>2, <1>3, OrderGrows DEF TypeOK
<1>5. \A i \in Range(project.source[f].imports) : Among(left, i)
  <2>1. \A i \in Range(project.source[f].imports) : Among(left, i) \/ i \in Range(<<>>) \cup Underway(n)
    BY <1>1, <1>2, <1>3 DEF StackOnItsWay, ImportsOf, Text
  <2>2. Underway(n) = {}
    BY <1>2, <1>3 DEF Underway
  <2>3. Range(<<>>) = {}
    BY DEF Range
  <2> QED
    BY <2>1, <2>2, <2>3
<1>6. DoneInOrder'
  <2> SUFFICES ASSUME NEW k \in 1..Len(modules), Name(modules[k]) \notin visiting'
               PROVE  /\ Among(left', Name(modules[k]))
                      /\ \A i \in Range(project.source[modules[k]].imports) :
                            Before(left', i, Name(modules[k]))
    BY <1>2 DEF DoneInOrder, Imports, Text, Name
  <2>1. CASE Name(modules[k]) \notin visiting
    BY <1>1, <1>4, <2>1 DEF DoneInOrder, Imports, Text
  <2>2. CASE Name(modules[k]) = Name(f)
    <3>1. modules[k] = f
      BY <1>1, <1>3, <2>2, StackModule
    <3> QED
      BY <1>4, <1>5, <3>1
  <2> QED
    BY <1>2, <2>1, <2>2
<1>7. StackOnItsWay'
  <2> SUFFICES ASSUME NEW k \in 1..(n - 1),
                      NEW i \in Range(project.source[stack[k].file].imports)
               PROVE  Among(left', i) \/ i \in Range(stack[k].todo) \cup Underway(k)'
    BY <1>2, <1>3 DEF StackOnItsWay, ImportsOf, Text
  <2>1. Among(left, i) \/ i \in Range(stack[k].todo) \cup Underway(k)
    BY <1>1, <1>3 DEF StackOnItsWay, ImportsOf, Text
  <2>2. CASE i \in Underway(k)
    <3>1. i = Name(stack[k + 1].file)
      BY <1>2, <1>3, <2>2 DEF Underway
    <3>2. CASE k = n - 1
      BY <1>3, <1>4, <3>1, <3>2
    <3>3. CASE k + 1 \in 1..(n - 1)
      BY <1>3, <3>1, <3>3 DEF Underway, Name
    <3> QED
      BY <1>3, <3>2, <3>3
  <2> QED
    BY <1>4, <2>1, <2>2
<1> QED
  BY <1>6, <1>7

LEMMA EnterOrder ==
    ASSUME Inv, Enter, diagnostics' = {}
    PROVE  DoneInOrder' /\ StackOnItsWay'
<1> DEFINE n == Len(stack)
           e == [file |-> call, todo |-> Text(call).imports]
<1>1. TypeOK /\ LoadingInvariant /\ DoneInOrder /\ StackOnItsWay
  BY DEF Inv, OrderSoFar, Enter
<1>2. /\ call \in Files /\ call' = Nothing /\ call # Nothing
      /\ project' = project /\ left' = left /\ visiting' = visiting \cup {Name(call)}
  BY <1>1, CallType DEF Enter, Called
<1>3. /\ Len(stack') = n + 1 /\ n \in Nat
      /\ \A k \in 1..n : stack'[k] = stack[k]
      /\ stack'[n + 1] = e
  <2>1. stack' = Append(stack, e) /\ e \in Frame /\ stack \in Seq(Frame)
    BY <1>1, <1>2, TextType DEF Enter, Frame, TypeOK
  <2> HIDE DEF e
  <2> QED
    BY <2>1, AppendFacts
<1>4. /\ Len(modules') = Len(modules) + 1 /\ Len(modules) \in Nat
      /\ \A k \in 1..Len(modules) : modules'[k] = modules[k]
      /\ modules'[Len(modules) + 1] = call
  BY <1>1, <1>2, AppendFacts DEF Enter, TypeOK
<1>5. DoneInOrder'
  <2> SUFFICES ASSUME NEW k \in 1..Len(modules'), Name(modules'[k]) \notin visiting'
               PROVE  /\ Among(left, Name(modules'[k]))
                      /\ \A i \in Range(project.source[modules'[k]].imports) :
                            Before(left, i, Name(modules'[k]))
    BY <1>2 DEF DoneInOrder, Imports, Text, Name
  <2>1. k \in 1..Len(modules) /\ Name(modules[k]) \notin visiting
    BY <1>2, <1>4
  <2> QED
    BY <1>1, <1>4, <2>1 DEF DoneInOrder, Imports, Text
<1>6. StackOnItsWay'
  <2> SUFFICES ASSUME NEW k \in 1..(n + 1),
                      NEW i \in Range(project.source[stack'[k].file].imports)
               PROVE  Among(left, i) \/ i \in Range(stack'[k].todo) \cup Underway(k)'
    BY <1>2, <1>3 DEF StackOnItsWay, ImportsOf, Text
  <2>1. e.file = call /\ e.todo = project.source[call].imports
    BY DEF Text
  <2> HIDE DEF e
  <2>2. CASE k \in 1..n
    <3>1. Among(left, i) \/ i \in Range(stack[k].todo) \cup Underway(k)
      BY <1>1, <1>3, <2>2 DEF StackOnItsWay, ImportsOf, Text
    <3>2. Underway(k) \subseteq Underway(k)'
      <4>1. CASE k = n
        BY <1>2, <1>3, <2>1, <4>1 DEF Underway, Name
      <4>2. CASE k + 1 \in 1..n
        BY <1>2, <1>3, <4>2 DEF Underway, Name
      <4> QED
        BY <1>3, <2>2, <4>1, <4>2
    <3> QED
      BY <1>3, <2>2, <3>1, <3>2
  <2>3. CASE k = n + 1
    BY <1>3, <2>1, <2>3
  <2> QED
    BY <1>3, <2>2, <2>3
<1> QED
  BY <1>5, <1>6

LEMMA ImportOrder ==
    ASSUME Inv, Import, diagnostics' = {}
    PROVE  DoneInOrder' /\ StackOnItsWay'
<1> DEFINE n == Len(stack)
<1>1. TypeOK /\ LoadingInvariant /\ DoneInOrder /\ StackOnItsWay
  BY DEF Inv, OrderSoFar, Import
<1>2. /\ Busy /\ Top.todo # <<>> /\ stack' = ImportDone /\ project' = project
      /\ modules' = modules /\ visiting' = visiting /\ left' = left /\ call = Nothing
  BY DEF Import, Busy
<1>3. /\ n \in Nat \ {0} /\ Len(stack') = n
      /\ \A k \in 1..n : stack'[k].file = stack[k].file
      /\ \A k \in 1..(n - 1) : stack'[k] = stack[k]
      /\ stack'[n].todo = Tail(Top.todo) /\ NextImport \in Names
  BY <1>1, <1>2, TopFacts, ImportDoneFacts
<1>4. Range(Top.todo) \subseteq {NextImport} \cup Range(Tail(Top.todo)) /\ Top = stack[n]
  BY <1>1, <1>2, TopFacts, RangeOfTail DEF NextImport, Top
<1>5. call' \in Files /\ Name(call') = NextImport /\ call' # Nothing
  <2>1. Dir(Top.file) \in Dirs
    BY <1>1, <1>2, TopFacts, FileParts
  <2>2. call' \in Files /\ Name(call') = NextImport
    BY <1>1, <1>3, <2>1, ResolveType DEF Import
  <2> QED
    BY <2>2, FileParts
<1>6. DoneInOrder'
  BY <1>1, <1>2 DEF DoneInOrder, Imports, Text, Name
<1>7. StackOnItsWay'
  <2> SUFFICES ASSUME NEW k \in 1..n,
                      NEW i \in Range(project.source[stack[k].file].imports)
               PROVE  Among(left, i) \/ i \in Range(stack'[k].todo) \cup Underway(k)'
    BY <1>2, <1>3 DEF StackOnItsWay, ImportsOf, Text
  <2>1. Among(left, i) \/ i \in Range(stack[k].todo) \cup Underway(k)
    BY <1>1, <1>3 DEF StackOnItsWay, ImportsOf, Text
  <2>2. CASE k = n
    <3>1. Underway(n) = {}
      BY <1>2, <1>3 DEF Underway
    <3>2. NextImport \in Underway(k)'
      BY <1>3, <1>5, <2>2 DEF Underway, Name
    <3> QED
      BY <1>3, <1>4, <2>1, <2>2, <3>1, <3>2
  <2>3. CASE k \in 1..(n - 1)
    <3>1. k + 1 \in 1..n /\ k < n
      BY <1>3, <2>3
    <3>2. Underway(k)' = Underway(k)
      BY <1>3, <3>1, <2>3 DEF Underway, Name
    <3> QED
      BY <1>3, <2>1, <2>3, <3>2
  <2> QED
    BY <1>3, <2>2, <2>3
<1> QED
  BY <1>6, <1>7

(* Steps that leave the stack, the modules and the order as they are.          *)
LEMMA QuietOrder ==
    ASSUME Inv, diagnostics = {}, UNCHANGED <<project, stack, modules, visiting, left>>,
           \/ stack = <<>> \/ call' = call
           \/ call' = Nothing /\ call \in Files /\ Name(call) \in Loaded
    PROVE  DoneInOrder' /\ StackOnItsWay'
<1>1. TypeOK /\ LoadingInvariant /\ DoneInOrder /\ StackOnItsWay
  BY DEF Inv, OrderSoFar
<1>2. DoneInOrder'
  BY <1>1 DEF DoneInOrder, Imports, Text, Name
<1>3. StackOnItsWay'
  <2> SUFFICES ASSUME NEW k \in 1..Len(stack),
                      NEW i \in Range(project.source[stack[k].file].imports)
               PROVE  Among(left, i) \/ i \in Range(stack[k].todo) \cup Underway(k)'
    BY DEF StackOnItsWay, ImportsOf, Text
  <2>1. Among(left, i) \/ i \in Range(stack[k].todo) \cup Underway(k)
    BY <1>1 DEF StackOnItsWay, ImportsOf, Text
  <2>2. CASE call' = call
    <3>1. Underway(k)' = Underway(k)
      BY <2>2 DEF Underway, Name
    <3> QED
      BY <2>1, <3>1
  <2>3. CASE call' = Nothing /\ call \in Files /\ Name(call) \in Loaded
    <3>1. call # Nothing /\ Name(call) \notin visiting
      BY <1>1, <2>3, FileParts DEF LoadingInvariant, VisitingIsStack
    <3>2. PICK j \in 1..Len(modules) : Name(modules[j]) = Name(call)
      BY <2>3 DEF Loaded
    <3>3. Among(left, Name(call))
      BY <1>1, <3>1, <3>2 DEF DoneInOrder
    <3>4. Underway(k) \subseteq Underway(k)' \cup {Name(call)}
      BY <2>3 DEF Underway, Name
    <3> QED
      BY <2>1, <3>3, <3>4
  <2> QED
    BY <1>1, <2>2, <2>3, StackType
<1> QED
  BY <1>2, <1>3

LEMMA NextOrder ==
    ASSUME Inv, [Next]_vars
    PROVE  OrderSoFar'
<1> SUFFICES ASSUME diagnostics' = {} PROVE DoneInOrder' /\ StackOnItsWay'
  BY DEF OrderSoFar
<1> USE DEF Inv
<1>1. CASE NextRoot
  <2>1. stack = <<>> /\ diagnostics = {} /\ UNCHANGED <<project, stack, modules, visiting, left>>
    BY <1>1 DEF NextRoot
  <2> QED
    BY <2>1, QuietOrder
<1>2. CASE SkipLoaded
  <2>1. /\ UNCHANGED <<project, stack, modules, visiting, left>> /\ diagnostics = {}
        /\ call' = Nothing /\ call \in Files /\ Name(call) \in Loaded
    BY <1>2, CallType DEF SkipLoaded, Already
  <2> QED
    BY <2>1, QuietOrder
<1>3. CASE Unreadable \/ SyntaxErrors
  <2>1. call \in Files /\ Name(call) \in Names
    BY <1>3, CallType DEF Unreadable, SyntaxErrors
  <2>2. diagnostics' # {}
    BY <1>3, <2>1, ComplainType DEF Unreadable, SyntaxErrors, Codes
  <2> QED
    BY <2>2
<1>4. CASE Enter
  BY <1>4, EnterOrder
<1>5. CASE ImportAgain
  <2>1. Top.file \in Files /\ NextImport \in Names
    BY <1>5, TopFacts, ImportDoneFacts DEF ImportAgain
  <2>2. diagnostics' # {}
    BY <1>5, <2>1, ComplainType DEF ImportAgain, Codes
  <2> QED
    BY <2>2
<1>6. CASE Import
  BY <1>6, ImportOrder
<1>7. CASE Leave
  BY <1>7, LeaveOrder
<1>8. CASE FinishLoading \/ CheckNames \/ UNCHANGED vars
  <2>1. UNCHANGED <<project, stack, modules, visiting, left, call>> /\ diagnostics = {}
    BY <1>8 DEF FinishLoading, CheckNames, vars, LoadingInvariant, PhaseEnds
  <2> QED
    BY <2>1, QuietOrder
<1> QED
  BY <1>1, <1>2, <1>3, <1>4, <1>5, <1>6, <1>7, <1>8
     DEF Next, LoadModule, FollowImports, Ended

THEOREM Inductive == Spec => []Inv
<1>1. Init => Inv
  BY InitTypeOK, InitLoading, InitOrder DEF Inv
<1>2. Inv /\ [Next]_vars => Inv'
  BY NextTypeOK, NextLoading, NextOrder DEF Inv
<1> QED
  BY <1>1, <1>2, PTL DEF Spec

(* A program that passes has an order in which imports come first: it has no    *)
(* import cycle, and no import of it is missing.                             *)
THEOREM AcceptedIsAcyclic == Spec => []ImportsLeftFirst
<1>1. Inv => ImportsLeftFirst
  <2> SUFFICES ASSUME Inv, phase \in {"check", "accepted"}
               PROVE  \A k \in 1..Len(modules) :
                          \A i \in Imports(k) : Before(left, i, Name(modules[k]))
    BY DEF ImportsLeftFirst
  <2>1. stack = <<>> /\ diagnostics = {}
    BY DEF Inv, LoadingInvariant, PhaseEnds
  <2>2. visiting = {}
    BY <2>1 DEF Inv, LoadingInvariant, VisitingIsStack
  <2> QED
    BY <2>1, <2>2 DEF Inv, OrderSoFar, DoneInOrder
<1> QED
  BY <1>1, Inductive, PTL

(***************************************************************************)
(* Visible names                                                           *)
(***************************************************************************)
LEMMA PassedNames ==
    ASSUME TypeOK, NamesPass
    PROVE  /\ \A j, k \in 1..Len(modules) : j # k => Declares(j) \cap Declares(k) = {}
           /\ \A j, k \in 1..Len(modules) : \A d \in Collected(k) \cap Declares(j) :
                j = k \/ (d \in Text(modules[j]).exports /\ Name(modules[j]) \in Imports(k))
<1>1. ASSUME NEW j \in 1..Len(modules), NEW k \in 1..Len(modules), j < k
      PROVE  Declares(j) \cap Declares(k) = {}
  <2>1. j \in 1..(k - 1)
    BY <1>1
  <2> QED
    BY <2>1 DEF NamesPass, Duplicates
<1>2. ASSUME NEW j \in 1..Len(modules), NEW k \in 1..Len(modules), j # k
      PROVE  Declares(j) \cap Declares(k) = {}
  <2>1. j < k \/ k < j
    BY <1>2, StackType
  <2> QED
    BY <1>1, <2>1
<1>3. ASSUME NEW j \in 1..Len(modules), NEW k \in 1..Len(modules),
             NEW d \in Collected(k) \cap Declares(j), j # k
      PROVE  d \in Text(modules[j]).exports /\ Name(modules[j]) \in Imports(k)
  <2>1. d \in Visible(k)
    BY <1>3 DEF NamesPass, Invisible
  <2>2. d \notin Declares(k)
    BY <1>2, <1>3
  <2>3. PICK i \in 1..Len(modules) :
            Name(modules[i]) \in Imports(k) /\ d \in Text(modules[i]).exports
    BY <2>1, <2>2 DEF Visible
  <2>4. d \in Declares(i)
    BY <2>3, StackType, TextType DEF Declares
  <2>5. i = j
    BY <1>2, <1>3, <2>4
  <2> QED
    BY <2>3, <2>5
<1> QED
  BY <1>2, <1>3

LEMMA PassesOnlyVisible ==
    ASSUME TypeOK, CheckNames, phase' = "accepted"
    PROVE  AcceptedIsVisible'
<1>1. UNCHANGED <<project, modules>> /\ diagnostics' = {}
  BY DEF CheckNames
<1>2. NamesPass
  <2> SUFFICES ASSUME NEW k \in 1..Len(modules)
               PROVE  Duplicates(k) = {} /\ Invisible(k) = {}
    BY DEF NamesPass
  <2>1. DuplicateNames(k) = {} /\ InvisibleNames(k) = {}
    BY <1>1 DEF CheckNames
  <2> QED
    BY <2>1 DEF DuplicateNames, InvisibleNames
<1>3. /\ \A j, k \in 1..Len(modules) : j # k => Declares(j) \cap Declares(k) = {}
      /\ \A j, k \in 1..Len(modules) : \A d \in Collected(k) \cap Declares(j) :
            j = k \/ (d \in Text(modules[j]).exports /\ Name(modules[j]) \in Imports(k))
  BY <1>2, PassedNames
<1> QED
  BY <1>1, <1>3 DEF AcceptedIsVisible, Declares, Collected, Imports, Text, Name

(* A top-level name of a program that passes has one meaning, and the places    *)
(* the collectors look at see only what their module may see.                *)
THEOREM AcceptedNamesVisible == Spec => []AcceptedIsVisible
<1>1. Init => AcceptedIsVisible
  BY DEF Init, AcceptedIsVisible
<1>2. TypeOK /\ AcceptedIsVisible /\ [Next]_vars => AcceptedIsVisible'
  <2> SUFFICES ASSUME TypeOK, AcceptedIsVisible, [Next]_vars, phase' = "accepted"
               PROVE  AcceptedIsVisible'
    BY DEF AcceptedIsVisible
  <2>1. CASE CheckNames
    BY <2>1, PassesOnlyVisible
  <2>2. CASE ~CheckNames
    <3>1. UNCHANGED <<project, modules, phase>>
      BY <2>2 DEF Next, NextRoot, LoadModule, SkipLoaded, Unreadable, SyntaxErrors, Enter,
                  FollowImports, ImportAgain, Import, Leave, Busy, Called, FinishLoading,
                  Ended, vars
    <3> QED
      BY <3>1 DEF AcceptedIsVisible, Declares, Collected, Imports, Text, Name
  <2> QED
    BY <2>1, <2>2
<1> QED
  BY <1>1, <1>2, TypeCorrect, PTL DEF Spec

(***************************************************************************)
(* What a set of files leads to                                             *)
(***************************************************************************)
(* The closure holds the set, holds what it leads to, and is the least such.    *)
LEMMA ClosureFacts ==
    ASSUME NEW A \in SUBSET Files
    PROVE  /\ A \subseteq Closure(A) /\ Closure(A) \subseteq Files
           /\ \A f \in Closure(A) : Targets(f) \subseteq Closure(A)
           /\ \A S \in SUBSET Files :
                A \subseteq S /\ (\A f \in S : Targets(f) \subseteq S) => Closure(A) \subseteq S
<1>1. A \subseteq Closure(A) /\ Closure(A) \subseteq Files
  BY DEF Closure
<1>2. ASSUME NEW f \in Closure(A), NEW g \in Targets(f)
      PROVE  g \in Closure(A)
  <2>1. g \in Files /\ Leads(f, g) /\ f \in Files
    BY <1>2 DEF Targets, Closure
  <2>2. ASSUME NEW S \in SUBSET (Files \ {g}), A \subseteq S, Closed(S)
        PROVE  FALSE
    <3>1. f \notin S
      BY <2>1, <2>2 DEF Closed
    <3>2. S \in SUBSET (Files \ {f})
      BY <3>1
    <3>3. QED
      BY <2>2, <3>2 DEF Closure
  <2>3. QED
    BY <2>1, <2>2 DEF Closure
<1>3. ASSUME NEW S \in SUBSET Files, A \subseteq S, \A f \in S : Targets(f) \subseteq S,
             NEW f \in Closure(A)
      PROVE  f \in S
  <2>1. Closed(S)
    BY <1>3 DEF Closed, Targets
  <2>2. QED
    BY <1>3, <2>1 DEF Closure
<1>4. QED
  BY <1>1, <1>2, <1>3

LEMMA TargetsAreFiles == \A f : Targets(f) \subseteq Files
  BY DEF Targets

LEMMA RootsAreFiles == TypeOK => Roots \subseteq Files
  BY DEF TypeOK, Project, Roots, Library

(* The files do not change during a load, nor does what is said of them.       *)
LEMMA SameProject ==
    ASSUME project' = project
    PROVE  /\ \A f : Text(f)' = Text(f) /\ (Exists(f)' <=> Exists(f))
           /\ \A f, g : Leads(f, g)' <=> Leads(f, g)
           /\ \A f : Targets(f)' = Targets(f) /\ GoodTargets(f)' = GoodTargets(f)
           /\ \A A : Closure(A)' = Closure(A)
           /\ Roots' = Roots /\ Reached' = Reached
           /\ Circular' <=> Circular
           /\ Plain' <=> Plain
<1>1. \A f : Text(f)' = Text(f) /\ (Exists(f)' <=> Exists(f))
  BY DEF Text, Exists
<1>2. \A f, g : Leads(f, g)' <=> Leads(f, g)
  BY <1>1 DEF Leads
<1>3. \A f : Targets(f)' = Targets(f) /\ GoodTargets(f)' = GoodTargets(f)
  BY <1>1, <1>2 DEF Targets, GoodTargets
<1>4. \A A : Closure(A)' = Closure(A)
  BY <1>2 DEF Closure, Closed
<1>5. Roots' = Roots
  BY <1>1 DEF Roots
<1>6. Reached' = Reached
  BY <1>4, <1>5 DEF Reached
<1>7. Circular' <=> Circular
  BY <1>3, <1>4, <1>6 DEF Circular
<1>8. Plain' <=> Plain
  BY <1>1 DEF Plain
<1>9. QED
  BY <1>1, <1>2, <1>3, <1>4, <1>5, <1>6, <1>7, <1>8

(* In a plain project a name stands for one file.                            *)
LEMMA FileIsPair == \A f \in Files : f = <<Dir(f), Name(f)>>
  BY DEF Files, Dir, Name

LEMMA PlainNames ==
    ASSUME Plain, NEW f \in Files, NEW g \in Files, Exists(f), Exists(g), Name(f) = Name(g)
    PROVE  f = g
  BY DEF Plain

LEMMA LeadsByName ==
    ASSUME Plain, NEW f \in Files, NEW g \in Files, NEW h \in Files,
           Leads(f, g), Leads(f, h), Name(g) = Name(h)
    PROVE  g = h
<1>1. g = <<Dir(g), Name(g)>> /\ h = <<Dir(h), Name(h)>> /\ Dir(g) \in Dirs /\ Dir(h) \in Dirs
  BY FileIsPair, FileParts
<1>2. CASE Exists(g) /\ Exists(h)
  BY <1>2, PlainNames
<1>3. CASE ~ (Exists(g) /\ Exists(h))
  BY <1>1, <1>3 DEF Leads
<1>4. QED
  BY <1>2, <1>3

LEMMA ResolveLeads ==
    ASSUME TypeOK, Plain, NEW f \in Files, Text(f).state = "good",
           NEW i \in Range(Text(f).imports)
    PROVE  LET g == Resolve(i, Dir(f))
           IN  /\ g \in Files /\ Name(g) = i /\ Leads(f, g)
               /\ Exists(g) \/ \A d \in Dirs : ~Exists(<<d, i>>)
<1> DEFINE g == Resolve(i, Dir(f))
           found == {k \in DOMAIN project.search : Exists(<<project.search[k], i>>)}
<1>1. i \in Names /\ Dir(f) \in Dirs /\ Exists(f)
  BY TextType, RangeFacts, FileParts DEF Exists
<1>2. g \in Files /\ Name(g) = i
  BY <1>1, ResolveType
<1>3. project.search \in Seq(Dirs)
  BY DEF TypeOK, Project
<1>4. CASE Exists(<<Dir(f), i>>)
  <2>1. g = <<Dir(f), i>>
    BY <1>4 DEF Resolve
  <2>2. QED
    BY <1>2, <1>4, <2>1 DEF Leads
<1>5. CASE ~Exists(<<Dir(f), i>>) /\ found # {}
  <2>1. found \in SUBSET Nat
    BY <1>3, IndexFacts
  <2>2. PICK k \in found : \A j \in found : k <= j
    BY <1>5, <2>1, LeastOfNat
  <2> DEFINE first == CHOOSE x \in found : \A j \in found : x <= j
  <2>3. first \in found
    BY <2>2
  <2>4. g = <<project.search[first], i>>
    BY <1>5 DEF Resolve
  <2>5. Exists(g)
    <3> HIDE DEF first
    <3>1. QED
      BY <2>3, <2>4
  <2>6. QED
    BY <1>2, <2>5 DEF Leads
<1>6. CASE ~Exists(<<Dir(f), i>>) /\ found = {}
  <2>1. g = <<Dir(f), i>>
    BY <1>6 DEF Resolve
  <2>2. ASSUME NEW d \in Dirs, Exists(<<d, i>>) PROVE FALSE
    <3>1. <<d, i>> \in Files /\ Dir(<<d, i>>) = d
      BY <1>1 DEF Files, Dir
    <3>2. d = Dir(f) \/ d \in Range(project.search)
      BY <1>1, <2>2, <3>1 DEF Plain
    <3>3. d \notin Range(project.search)
      <4>1. ASSUME NEW k \in DOMAIN project.search, project.search[k] = d PROVE FALSE
        BY <1>6, <2>2, <4>1
      <4>2. QED
        BY <4>1 DEF Range
    <3>4. QED
      BY <1>6, <2>2, <3>2, <3>3
  <2>3. Dir(g) = Dir(f) /\ \A d \in Dirs : ~Exists(<<d, Name(g)>>)
    BY <1>2, <2>1, <2>2 DEF Dir
  <2>4. QED
    BY <1>2, <2>2, <2>3 DEF Leads
<1>7. QED
  BY <1>4, <1>5, <1>6

(***************************************************************************)
(* The verdict.  Whatever the walk has come to is reached.                   *)
(***************************************************************************)
LEMMA ReachedFacts ==
    ASSUME TypeOK
    PROVE  /\ Roots \subseteq Reached /\ Reached \subseteq Files
           /\ \A f \in Reached : Targets(f) \subseteq Reached
           /\ \A f \in Reached, g \in Files : Leads(f, g) => g \in Reached
           /\ \A S \in SUBSET Files :
                Roots \subseteq S /\ (\A f \in S : Targets(f) \subseteq S) => Reached \subseteq S
<1>1. Roots \in SUBSET Files
  BY RootsAreFiles
<1>2. /\ Roots \subseteq Reached /\ Reached \subseteq Files
      /\ \A f \in Reached : Targets(f) \subseteq Reached
      /\ \A S \in SUBSET Files :
            Roots \subseteq S /\ (\A f \in S : Targets(f) \subseteq S) => Reached \subseteq S
  BY <1>1, ClosureFacts DEF Reached
<1> QED
  BY <1>2 DEF Targets

(* The files of the stack are loaded, so they are reached and good.            *)
LEMMA StackIsGood ==
    ASSUME TypeOK, LoadingInvariant, WalkIsReached, NEW k \in 1..Len(stack)
    PROVE  /\ stack[k].file \in Range(modules) /\ stack[k].file \in Files
           /\ stack[k].file \in Reached /\ Text(stack[k].file).state = "good"
           /\ Name(stack[k].file) \in Loaded
<1>1. PICK j \in 1..Len(modules) : modules[j] = stack[k].file
  BY DEF LoadingInvariant, VisitingIsStack
<1>2. modules \in Seq(Files) /\ stack[k].file \in Files
  BY StackType DEF TypeOK
<1>3. modules[j] \in Range(modules)
  BY <1>2, RangeFacts
<1> QED
  BY <1>1, <1>2, <1>3 DEF WalkIsReached, Loaded

LEMMA WalkFacts ==
    ASSUME project' = project,
           roots' \subseteq Roots,
           \A f \in roots' : Exists(f) \/ (modules' = <<>> /\ call' = Nothing),
           call' # Nothing =>
              /\ call' \in Reached
              /\ stack' # <<>> => Leads(stack'[Len(stack')].file, call')
              /\ Exists(call') \/ modules' = <<>> \/ \A d \in Dirs : ~Exists(<<d, Name(call')>>),
           \A k \in 1..Len(modules') :
              modules'[k] \in Reached /\ Text(modules'[k]).state = "good"
    PROVE  WalkIsReached'
<1>1. Roots' = Roots /\ Reached' = Reached
  BY SameProject
<1> QED
  BY <1>1 DEF WalkIsReached, Leads, Text, Exists, Top, Name, Dir

(* Steps that only take the call back, or change nothing the walk is about.     *)
LEMMA QuietWalk ==
    ASSUME WalkIsReached, UNCHANGED <<project, roots, stack, modules>>,
           call' = Nothing \/ call' = call
    PROVE  WalkIsReached'
<1>1. CASE call' = Nothing
  <2>1. \A f \in roots' : Exists(f) \/ (modules' = <<>> /\ call' = Nothing)
    BY <1>1 DEF WalkIsReached
  <2> QED
    BY <1>1, <2>1, WalkFacts DEF WalkIsReached
<1>2. CASE call' = call
  BY <1>2, WalkFacts DEF WalkIsReached, Top
<1> QED
  BY <1>1, <1>2

LEMMA RootWalk ==
    ASSUME TypeOK, WalkIsReached, NextRoot
    PROVE  WalkIsReached'
<1>1. PICK f \in roots : call' = f /\ roots' = roots \ {f}
  BY DEF NextRoot
<1>2. UNCHANGED <<project, stack, modules>> /\ stack = <<>> /\ call = Nothing
  BY DEF NextRoot
<1>3. f \in Roots /\ f \in Reached /\ roots' \subseteq Roots
  BY <1>1, ReachedFacts DEF WalkIsReached
<1>4. ASSUME NEW g \in roots' PROVE Exists(g)
  <2>1. g \in Roots /\ g # f
    BY <1>1, <1>3, <1>4
  <2> QED
    BY <1>3, <2>1 DEF Roots
<1>5. Exists(f) \/ modules = <<>>
  BY <1>1 DEF WalkIsReached
<1>6. \A k \in 1..Len(modules) : modules[k] \in Reached /\ Text(modules[k]).state = "good"
  BY DEF WalkIsReached
<1> QED
  BY <1>1, <1>2, <1>3, <1>4, <1>5, <1>6, WalkFacts

LEMMA EnterWalk ==
    ASSUME TypeOK, WalkIsReached, Enter
    PROVE  WalkIsReached'
<1>1. /\ call \in Files /\ call' = Nothing /\ call # Nothing
      /\ UNCHANGED <<project, roots>> /\ modules' = Append(modules, call)
      /\ Text(call).state = "good"
  BY CallType DEF Enter, Called
<1>2. /\ Len(modules') = Len(modules) + 1 /\ Len(modules) \in Nat
      /\ \A k \in 1..Len(modules) : modules'[k] = modules[k]
      /\ modules'[Len(modules) + 1] = call
  BY <1>1, AppendFacts DEF TypeOK
<1>3. ASSUME NEW k \in 1..Len(modules')
      PROVE  modules'[k] \in Reached /\ Text(modules'[k]).state = "good"
  <2>1. CASE k \in 1..Len(modules)
    BY <1>2, <2>1 DEF WalkIsReached
  <2>2. CASE k = Len(modules) + 1
    BY <1>1, <1>2, <2>2 DEF WalkIsReached
  <2> QED
    BY <1>2, <2>1, <2>2
<1>4. roots' \subseteq Roots /\ \A f \in roots' : Exists(f)
  BY <1>1 DEF WalkIsReached
<1> QED
  BY <1>1, <1>3, <1>4, WalkFacts

LEMMA ImportWalk ==
    ASSUME TypeOK, LoadingInvariant, Plain, WalkIsReached, Import
    PROVE  /\ WalkIsReached'
           /\ call' \in Files /\ Name(call') = NextImport /\ Leads(Top.file, call')
<1> DEFINE n == Len(stack)
           g == Resolve(NextImport, Dir(Top.file))
<1>1. /\ Busy /\ Top.todo # <<>> /\ stack' = ImportDone /\ call' = g
      /\ UNCHANGED <<project, roots, modules>> /\ call = Nothing
  BY DEF Import, Busy
<1>2. /\ n \in 1..n /\ Top = stack[n] /\ Len(stack') = n /\ stack'[n].file = Top.file
  BY <1>1, TopFacts, ImportDoneFacts DEF Top
<1>3. /\ Top.file \in Files /\ Top.file \in Reached /\ Text(Top.file).state = "good"
      /\ Top.file \in Range(modules)
  BY <1>2, StackIsGood
<1>4. NextImport \in Range(Text(Top.file).imports)
  <2>1. NextImport \in Range(Top.todo)
    BY <1>1, TopFacts, RangeOfTail DEF NextImport
  <2> QED
    BY <1>2, <2>1 DEF LoadingInvariant, ChainOfImports, ImportsOf
<1>5. /\ g \in Files /\ Name(g) = NextImport /\ Leads(Top.file, g)
      /\ Exists(g) \/ \A d \in Dirs : ~Exists(<<d, NextImport>>)
  BY <1>3, <1>4, ResolveLeads
<1>6. g \in Reached
  BY <1>3, <1>5, ReachedFacts
<1> HIDE DEF g
<1>7. modules # <<>>
  BY <1>3 DEF Range
<1>8. /\ roots' \subseteq Roots /\ \A f \in roots' : Exists(f)
      /\ \A k \in 1..Len(modules) : modules[k] \in Reached /\ Text(modules[k]).state = "good"
  BY <1>1, <1>7 DEF WalkIsReached
<1>9. Leads(stack'[Len(stack')].file, call')
  BY <1>1, <1>2, <1>5
<1>10. WalkIsReached'
  BY <1>1, <1>5, <1>6, <1>8, <1>9, WalkFacts
<1> QED
  BY <1>1, <1>5, <1>10

LEMMA LeaveWalk ==
    ASSUME WalkIsReached, call = Nothing, call' = Nothing, UNCHANGED <<project, roots, modules>>
    PROVE  WalkIsReached'
  BY WalkFacts DEF WalkIsReached

LEMMA NextWalk ==
    ASSUME TypeOK, LoadingInvariant, Plain, WalkIsReached, [Next]_vars
    PROVE  WalkIsReached'
<1>1. CASE NextRoot
  BY <1>1, RootWalk
<1>2. CASE SkipLoaded \/ Unreadable \/ SyntaxErrors
  BY <1>2, QuietWalk DEF SkipLoaded, Unreadable, SyntaxErrors, Called
<1>3. CASE Enter
  BY <1>3, EnterWalk
<1>4. CASE ImportAgain \/ Leave
  BY <1>4, LeaveWalk DEF ImportAgain, Leave, Busy
<1>5. CASE Import
  BY <1>5, ImportWalk
<1>6. CASE FinishLoading \/ CheckNames \/ UNCHANGED vars
  BY <1>6, QuietWalk DEF FinishLoading, CheckNames, vars
<1> QED
  BY <1>1, <1>2, <1>3, <1>4, <1>5, <1>6 DEF Next, LoadModule, FollowImports, Ended

(***************************************************************************)
(* Each module on the stack is reached from all those below it, so an import   *)
(* of a module that is being loaded closes a cycle.                          *)
(***************************************************************************)
LEMMA ClimbFacts ==
    ASSUME project' = project,
           \A j, k \in 1..Len(stack') :
              j < k => stack'[k].file \in Closure(Targets(stack'[j].file))
    PROVE  StackClimbs'
<1>1. ASSUME NEW f PROVE Targets(f)' = Targets(f)
  BY SameProject
<1>2. ASSUME NEW A PROVE Closure(A)' = Closure(A)
  BY SameProject
<1>3. ASSUME NEW f PROVE Closure(Targets(f))' = Closure(Targets(f))
  BY <1>1, <1>2
<1> QED
  BY <1>3 DEF StackClimbs

LEMMA EnterClimbs ==
    ASSUME TypeOK, LoadingInvariant, WalkIsReached, StackClimbs, Enter
    PROVE  StackClimbs'
<1> DEFINE n == Len(stack)
           e == [file |-> call, todo |-> Text(call).imports]
<1>1. call \in Files /\ call # Nothing /\ project' = project
  BY CallType DEF Enter, Called
<1>2. /\ Len(stack') = n + 1 /\ n \in Nat
      /\ \A k \in 1..n : stack'[k] = stack[k]
      /\ stack'[n + 1].file = call
  <2>1. stack' = Append(stack, e) /\ e \in Frame /\ stack \in Seq(Frame) /\ e.file = call
    BY <1>1, TextType DEF Enter, Frame, TypeOK
  <2> HIDE DEF e
  <2> QED
    BY <2>1, AppendFacts
<1>3. ASSUME NEW j \in 1..n PROVE call \in Closure(Targets(stack[j].file))
  <2>1. n \in 1..n /\ stack # <<>>
    BY <1>2, <1>3
  <2>2. Leads(stack[n].file, call)
    BY <1>1, <2>1 DEF WalkIsReached, Top
  <2>3. call \in Targets(stack[n].file)
    BY <1>1, <2>2 DEF Targets
  <2>4. Targets(stack[j].file) \in SUBSET Files
    BY TargetsAreFiles
  <2>5. CASE j = n
    BY <2>3, <2>4, <2>5, ClosureFacts
  <2>6. CASE j < n
    <3>1. stack[n].file \in Closure(Targets(stack[j].file))
      BY <1>3, <2>1, <2>6, StackType DEF StackClimbs
    <3> QED
      BY <2>3, <2>4, <3>1, ClosureFacts
  <2> QED
    BY <1>2, <1>3, <2>5, <2>6
<1>4. ASSUME NEW j \in 1..Len(stack'), NEW k \in 1..Len(stack'), j < k
      PROVE  stack'[k].file \in Closure(Targets(stack'[j].file))
  <2>1. j \in 1..n /\ stack'[j] = stack[j]
    BY <1>2, <1>4
  <2>2. CASE k = n + 1
    BY <1>2, <1>3, <2>1, <2>2
  <2>3. CASE k \in 1..n
    BY <1>2, <1>4, <2>1, <2>3, StackType DEF StackClimbs
  <2> QED
    BY <1>2, <2>2, <2>3
<1> QED
  BY <1>1, <1>4, ClimbFacts

(* The stack keeps its files, or the lower ones of them.                      *)
LEMMA ShorterClimbs ==
    ASSUME TypeOK, StackClimbs, project' = project, Len(stack) \in Nat, Len(stack') \in Nat,
           Len(stack') <= Len(stack),
           \A k \in 1..Len(stack') : stack'[k].file = stack[k].file
    PROVE  StackClimbs'
<1>1. ASSUME NEW j \in 1..Len(stack'), NEW k \in 1..Len(stack'), j < k
      PROVE  stack'[k].file \in Closure(Targets(stack'[j].file))
  <2>1. j \in 1..Len(stack) /\ k \in 1..Len(stack)
    OBVIOUS
  <2>2. stack[k].file \in Closure(Targets(stack[j].file))
    BY <1>1, <2>1, StackType DEF StackClimbs
  <2> QED
    BY <2>2
<1> QED
  BY <1>1, ClimbFacts

LEMMA NextClimbs ==
    ASSUME TypeOK, LoadingInvariant, WalkIsReached, StackClimbs, [Next]_vars
    PROVE  StackClimbs'
<1>1. CASE Enter
  BY <1>1, EnterClimbs
<1>2. CASE ImportAgain \/ Import
  <2>1. Busy /\ Top.todo # <<>> /\ stack' = ImportDone /\ project' = project
    BY <1>2 DEF ImportAgain, Import
  <2>2. /\ Len(stack) \in Nat /\ Len(stack') = Len(stack)
        /\ \A k \in 1..Len(stack) : stack'[k].file = stack[k].file
    BY <2>1, TopFacts, ImportDoneFacts
  <2> QED
    BY <2>1, <2>2, ShorterClimbs
<1>3. CASE Leave
  <2>1. Busy /\ stack' = SubSeq(stack, 1, Len(stack) - 1) /\ project' = project
    BY <1>3 DEF Leave
  <2>2. /\ Len(stack) \in Nat \ {0} /\ Len(stack') = Len(stack) - 1
        /\ \A k \in 1..(Len(stack) - 1) : stack'[k] = stack[k]
    BY <2>1, TopFacts, LeaveFacts
  <2> QED
    BY <2>1, <2>2, ShorterClimbs
<1>4. CASE NextRoot \/ SkipLoaded \/ Unreadable \/ SyntaxErrors \/ FinishLoading
             \/ CheckNames \/ UNCHANGED vars
  <2>1. UNCHANGED <<project, stack>>
    BY <1>4 DEF NextRoot, SkipLoaded, Unreadable, SyntaxErrors, FinishLoading, CheckNames, vars
  <2> QED
    BY <2>1, StackType, ShorterClimbs
<1> QED
  BY <1>1, <1>2, <1>3, <1>4 DEF Next, LoadModule, FollowImports, Ended

(* An import that is being loaded is a file of the stack that the top leads to. *)
LEMMA AgainLeads ==
    ASSUME TypeOK, LoadingInvariant, WalkIsReached, ImportAgain
    PROVE  \E j \in 1..Len(stack) :
              Name(stack[j].file) = NextImport /\ Leads(Top.file, stack[j].file)
<1>1. Busy /\ Top.todo # <<>> /\ NextImport \in visiting
  BY DEF ImportAgain, Cyclic
<1>2. Len(stack) \in 1..Len(stack) /\ Top = stack[Len(stack)]
  BY <1>1, TopFacts DEF Top
<1>3. PICK j \in 1..Len(stack) : Name(stack[j].file) = NextImport
  BY <1>1 DEF LoadingInvariant, VisitingIsStack
<1>4. Text(Top.file).state = "good" /\ Exists(stack[j].file)
  BY <1>2, StackIsGood DEF Exists
<1>5. NextImport \in Range(Text(Top.file).imports)
  <2>1. NextImport \in Range(Top.todo)
    BY <1>1, TopFacts, RangeOfTail DEF NextImport
  <2> QED
    BY <1>2, <2>1 DEF LoadingInvariant, ChainOfImports, ImportsOf
<1> QED
  BY <1>3, <1>4, <1>5 DEF Leads

LEMMA AgainIsCircular ==
    ASSUME TypeOK, LoadingInvariant, WalkIsReached, StackClimbs, ImportAgain
    PROVE  Circular
<1> DEFINE n == Len(stack)
<1>1. n \in 1..n /\ Top = stack[n]
  BY TopFacts DEF ImportAgain, Top
<1>2. PICK j \in 1..n : Leads(Top.file, stack[j].file)
  BY AgainLeads
<1> DEFINE h == stack[j].file
<1>3. h \in Files /\ h \in Reached /\ h \in Targets(stack[n].file)
  BY <1>1, <1>2, StackIsGood DEF Targets
<1>4. Targets(h) \in SUBSET Files
  BY TargetsAreFiles
<1>5. CASE j = n
  BY <1>3, <1>4, <1>5, ClosureFacts DEF Circular
<1>6. CASE j < n
  <2>1. stack[n].file \in Closure(Targets(h))
    BY <1>1, <1>3, <1>6 DEF StackClimbs
  <2>2. h \in Closure(Targets(h))
    BY <1>3, <1>4, <2>1, ClosureFacts
  <2> QED
    BY <1>3, <2>2 DEF Circular
<1> QED
  BY <1>1, <1>5, <1>6

LEMMA ReportFacts ==
    ASSUME project' = project,
           \A r \in diagnostics' :
              /\ r.code = "L0397" => /\ r.file \in Reached
                                     /\ Text(r.file).state \in {"absent", "unreadable"}
              /\ r.code = "syntax" => r.file \in Reached /\ Text(r.file).state = "broken"
              /\ r.code = "L0393" => Circular
    PROVE  ReportsAreTrue'
<1>1. Reached' = Reached /\ (Circular' <=> Circular)
  BY SameProject
<1> QED
  BY <1>1 DEF ReportsAreTrue, Text

LEMMA NextReports ==
    ASSUME TypeOK, LoadingInvariant, WalkIsReached, StackClimbs, ReportsAreTrue, [Next]_vars
    PROVE  ReportsAreTrue'
<1>1. CASE Unreadable
  <2>1. /\ call \in Reached /\ Text(call).state \in {"absent", "unreadable"}
        /\ project' = project
    BY <1>1 DEF Unreadable, Called, WalkIsReached
  <2>2. \A r \in diagnostics' : r \in diagnostics \/ (r.code = "L0397" /\ r.file = call)
    BY <1>1 DEF Unreadable, Complain
  <2> QED
    BY <2>1, <2>2, ReportFacts DEF ReportsAreTrue
<1>2. CASE SyntaxErrors
  <2>1. call \in Reached /\ Text(call).state = "broken" /\ project' = project
    BY <1>2 DEF SyntaxErrors, Called, WalkIsReached
  <2>2. \A r \in diagnostics' : r \in diagnostics \/ (r.code = "syntax" /\ r.file = call)
    BY <1>2 DEF SyntaxErrors, Complain
  <2> QED
    BY <2>1, <2>2, ReportFacts DEF ReportsAreTrue
<1>3. CASE ImportAgain
  <2>1. Circular /\ project' = project
    BY <1>3, AgainIsCircular DEF ImportAgain
  <2>2. \A r \in diagnostics' : r \in diagnostics \/ r.code = "L0393"
    BY <1>3 DEF ImportAgain, Complain
  <2> QED
    BY <2>1, <2>2, ReportFacts DEF ReportsAreTrue
<1>4. CASE CheckNames
  <2>1. \A r \in diagnostics' : r.code \in {"L0391", "L0392-private", "L0392-not-imported"}
    BY <1>4 DEF CheckNames, DuplicateNames, InvisibleNames, WhyInvisible
  <2> QED
    BY <1>4, <2>1, ReportFacts DEF CheckNames
<1>5. CASE NextRoot \/ SkipLoaded \/ Enter \/ Import \/ Leave \/ FinishLoading \/ UNCHANGED vars
  <2>1. UNCHANGED <<project, diagnostics>>
    BY <1>5 DEF NextRoot, SkipLoaded, Enter, Import, Leave, FinishLoading, vars
  <2> QED
    BY <2>1, ReportFacts DEF ReportsAreTrue
<1> QED
  BY <1>1, <1>2, <1>3, <1>4, <1>5 DEF Next, LoadModule, FollowImports, Ended

(***************************************************************************)
(* Nothing the walk comes to is forgotten.                                   *)
(***************************************************************************)
LEMMA ForgottenFacts ==
    ASSUME project' = project,
           \A f \in Roots : f \in Handled' \cup roots' \/ call' = f,
           \A f \in Range(modules') : \A g \in Targets(f) : g \in Handled' \/ Ahead(f, g)'
    PROVE  NothingForgotten'
<1>1. Roots' = Roots /\ \A f : Targets(f)' = Targets(f)
  BY SameProject
<1> QED
  BY <1>1 DEF NothingForgotten

LEMMA HandledGrows ==
    ASSUME diagnostics \subseteq diagnostics', Range(modules) \subseteq Range(modules')
    PROVE  Handled \subseteq Handled'
<1>1. ASSUME NEW code PROVE Reports(code) \subseteq Reports(code)'
  BY DEF Reports
<1> QED
  BY <1>1 DEF Handled

LEMMA RangeOfAppend ==
    ASSUME NEW S, NEW q \in Seq(S), NEW e \in S
    PROVE  Range(Append(q, e)) = Range(q) \cup {e}
<1> DEFINE t == Append(q, e)
<1>1. /\ t \in Seq(S) /\ Len(q) \in Nat /\ Len(t) = Len(q) + 1
      /\ \A k \in 1..Len(q) : t[k] = q[k]
      /\ t[Len(q) + 1] = e
  BY AppendFacts
<1> HIDE DEF t
<1>2. ASSUME NEW x \in Range(t) PROVE x \in Range(q) \cup {e}
  <2>1. PICK k \in 1..Len(t) : t[k] = x
    BY <1>1, <1>2, RangeFacts
  <2>2. CASE k \in 1..Len(q)
    BY <1>1, <2>1, <2>2, RangeFacts
  <2>3. CASE k = Len(q) + 1
    BY <1>1, <2>1, <2>3
  <2> QED
    BY <1>1, <2>2, <2>3
<1>3. ASSUME NEW x \in Range(q) PROVE x \in Range(t)
  <2>1. PICK k \in 1..Len(q) : q[k] = x
    BY <1>3, RangeFacts
  <2>2. k \in 1..Len(t) /\ t[k] = x
    BY <1>1, <2>1
  <2> QED
    BY <1>1, <2>2, RangeFacts
<1>4. e \in Range(t)
  <2>1. Len(q) + 1 \in 1..Len(t)
    BY <1>1
  <2> QED
    BY <1>1, <2>1, RangeFacts
<1> QED
  BY <1>2, <1>3, <1>4 DEF t

(* In a plain project the module of a name is the file that is called for.      *)
LEMMA CallIsLoaded ==
    ASSUME TypeOK, Plain, WalkIsReached, call \in Files, Name(call) \in Loaded
    PROVE  call \in Range(modules)
<1>1. PICK k \in 1..Len(modules) : Name(modules[k]) = Name(call)
  BY DEF Loaded
<1> DEFINE m == modules[k]
<1>2. m \in Files /\ m \in Range(modules) /\ Exists(m) /\ modules # <<>>
  <2>1. modules \in Seq(Files)
    BY DEF TypeOK
  <2> QED
    BY <1>1, <2>1, RangeFacts DEF WalkIsReached, Exists
<1>3. m = <<Dir(m), Name(m)>> /\ Dir(m) \in Dirs /\ call # Nothing
  BY <1>2, FileIsPair, FileParts
<1>4. Exists(call)
  BY <1>1, <1>2, <1>3 DEF WalkIsReached
<1>5. call = m
  BY <1>1, <1>2, <1>4, PlainNames
<1> QED
  BY <1>2, <1>5

(* A file that is imported under the name of a module on the stack is it.       *)
LEMMA SameAsStack ==
    ASSUME TypeOK, LoadingInvariant, Plain, WalkIsReached,
           NEW f \in Files, NEW g \in Files, Leads(f, g), Name(g) \in visiting
    PROVE  g \in Range(modules)
<1>1. PICK j \in 1..Len(stack) : Name(stack[j].file) = Name(g)
  BY DEF LoadingInvariant, VisitingIsStack
<1> DEFINE h == stack[j].file
<1>2. h \in Files /\ h \in Range(modules) /\ Exists(h)
  BY StackIsGood DEF Exists
<1>3. h = <<Dir(h), Name(h)>> /\ Dir(h) \in Dirs
  BY <1>2, FileIsPair, FileParts
<1>4. Exists(g)
  BY <1>1, <1>2, <1>3 DEF Leads
<1> QED
  BY <1>1, <1>2, <1>4, PlainNames

(* The call is taken back, for a file that is loaded or reported by now.        *)
LEMMA CallForgotten ==
    ASSUME NothingForgotten, UNCHANGED <<project, roots, stack, modules>>,
           call' = Nothing, call \in Handled', Handled \subseteq Handled'
    PROVE  NothingForgotten'
<1>1. \A f \in Roots : f \in Handled' \cup roots' \/ call' = f
  BY DEF NothingForgotten
<1>2. ASSUME NEW f \in Range(modules), NEW g \in Targets(f)
      PROVE  g \in Handled' \/ Ahead(f, g)'
  <2>1. g \in Handled \/ Ahead(f, g)
    BY DEF NothingForgotten
  <2>2. Ahead(f, g) => call = g \/ Ahead(f, g)'
    BY DEF Ahead, Name
  <2> QED
    BY <2>1, <2>2
<1> QED
  BY <1>1, <1>2, ForgottenFacts

LEMMA ComplaintHandled ==
    ASSUME NEW code \in {"L0397", "syntax"}, NEW f, NEW name, Complain(code, f, name),
           modules' = modules
    PROVE  f \in Handled' /\ Handled \subseteq Handled'
<1>1. diagnostics' = diagnostics \cup {[code |-> code, file |-> f, name |-> name]}
  BY DEF Complain
<1> DEFINE r == [code |-> code, file |-> f, name |-> name]
<1>2. f \in Reports(code)'
  <2>1. r \in diagnostics' /\ r.code = code /\ r.file = f
    BY <1>1
  <2> HIDE DEF r
  <2> QED
    BY <2>1 DEF Reports
<1> QED
  BY <1>1, <1>2, HandledGrows DEF Handled

LEMMA EnterForgotten ==
    ASSUME TypeOK, NothingForgotten, Enter
    PROVE  NothingForgotten'
<1> DEFINE n == Len(stack)
           e == [file |-> call, todo |-> Text(call).imports]
<1>1. /\ call \in Files /\ call # Nothing /\ call' = Nothing
      /\ UNCHANGED <<project, roots, diagnostics>> /\ modules' = Append(modules, call)
  BY CallType DEF Enter, Called
<1>2. /\ Len(stack') = n + 1 /\ n \in Nat
      /\ \A k \in 1..n : stack'[k] = stack[k]
      /\ stack'[n + 1].file = call /\ stack'[n + 1].todo = Text(call).imports
  <2>1. /\ stack' = Append(stack, e) /\ e \in Frame /\ stack \in Seq(Frame)
        /\ e.file = call /\ e.todo = Text(call).imports
    BY <1>1, TextType DEF Enter, Frame, TypeOK
  <2> HIDE DEF e
  <2> QED
    BY <2>1, AppendFacts
<1>3. Range(modules') = Range(modules) \cup {call}
  BY <1>1, RangeOfAppend DEF TypeOK
<1>4. Handled \subseteq Handled' /\ call \in Handled'
  BY <1>1, <1>3, HandledGrows DEF Handled
<1>5. \A f \in Roots : f \in Handled' \cup roots' \/ call' = f
  BY <1>1, <1>4 DEF NothingForgotten
<1>6. ASSUME NEW f \in Range(modules'), NEW g \in Targets(f)
      PROVE  g \in Handled' \/ Ahead(f, g)'
  <2>1. CASE f = call
    <3>1. Name(g) \in Range(stack'[n + 1].todo) /\ n + 1 \in 1..Len(stack')
      BY <1>2, <1>6, <2>1 DEF Targets, Leads
    <3> QED
      BY <1>2, <2>1, <3>1 DEF Ahead, Name
  <2>2. CASE f \in Range(modules) /\ Ahead(f, g)
    <3>1. PICK j \in 1..n : /\ stack[j].file = f
                            /\ Name(g) \in Range(stack[j].todo) \/ (j = n /\ call = g)
      BY <2>2 DEF Ahead
    <3>2. CASE call = g
      BY <1>4, <3>2
    <3>3. CASE Name(g) \in Range(stack[j].todo)
      <4>1. j \in 1..Len(stack') /\ stack'[j] = stack[j]
        BY <1>2
      <4> QED
        BY <3>1, <3>3, <4>1 DEF Ahead, Name
    <3> QED
      BY <3>1, <3>2, <3>3
  <2>3. f \in Range(modules) => g \in Handled \/ Ahead(f, g)
    BY <1>6 DEF NothingForgotten
  <2> QED
    BY <1>3, <1>4, <1>6, <2>1, <2>2, <2>3
<1> QED
  BY <1>1, <1>5, <1>6, ForgottenFacts

LEMMA ImportForgotten ==
    ASSUME TypeOK, LoadingInvariant, Plain, WalkIsReached, NothingForgotten,
           ImportAgain \/ Import
    PROVE  NothingForgotten'
<1> DEFINE n == Len(stack)
<1>1. /\ Busy /\ Top.todo # <<>> /\ stack' = ImportDone /\ call = Nothing
      /\ UNCHANGED <<project, roots, modules>> /\ diagnostics \subseteq diagnostics'
  BY DEF ImportAgain, Import, Busy, Complain
<1>2. /\ n \in 1..n /\ n \in Nat /\ Top = stack[n] /\ Len(stack') = n
      /\ \A k \in 1..n : stack'[k].file = stack[k].file
      /\ \A k \in 1..(n - 1) : stack'[k] = stack[k]
      /\ stack'[n].todo = Tail(Top.todo)
      /\ Range(Top.todo) \subseteq {NextImport} \cup Range(Tail(Top.todo))
  BY <1>1, TopFacts, ImportDoneFacts, RangeOfTail DEF Top, NextImport
<1>3. Handled \subseteq Handled'
  BY <1>1, HandledGrows
<1>4. \A f \in Roots : f \in Handled' \cup roots' \/ call' = f
  BY <1>1, <1>3, RootsAreFiles, FileParts DEF NothingForgotten
<1>5. ASSUME NEW f \in Range(modules), NEW g \in Targets(f), f = Top.file, Name(g) = NextImport
      PROVE  g \in Handled' \/ call' = g
  <2>1. f \in Files /\ g \in Files /\ Leads(f, g)
    BY <1>1, <1>5, TopFacts DEF Targets
  <2>2. CASE ImportAgain
    <3>1. Name(g) \in visiting
      BY <1>5, <2>2 DEF ImportAgain, Cyclic
    <3>2. g \in Range(modules)
      BY <2>1, <3>1, SameAsStack
    <3> QED
      BY <1>3, <3>2 DEF Handled
  <2>3. CASE Import
    <3>1. call' \in Files /\ Name(call') = NextImport /\ Leads(f, call')
      BY <1>5, <2>3, ImportWalk
    <3> QED
      BY <1>5, <2>1, <3>1, LeadsByName
  <2> QED
    BY <2>2, <2>3
<1>6. ASSUME NEW f \in Range(modules), NEW g \in Targets(f)
      PROVE  g \in Handled' \/ Ahead(f, g)'
  <2>1. CASE Ahead(f, g)
    <3>1. PICK j \in 1..n : /\ stack[j].file = f
                            /\ Name(g) \in Range(stack[j].todo) \/ (j = n /\ call = g)
      BY <2>1 DEF Ahead
    <3>2. g # Nothing
      BY <1>6, FileParts DEF Targets
    <3>3. Name(g) \in Range(stack[j].todo)
      BY <1>1, <3>1, <3>2
    <3>4. j \in 1..Len(stack') /\ stack'[j].file = f
      BY <1>2, <3>1
    <3>5. CASE Name(g) \in Range(stack'[j].todo)
      BY <3>4, <3>5 DEF Ahead, Name
    <3>6. CASE Name(g) \notin Range(stack'[j].todo)
      <4>1. j = n
        BY <1>2, <3>3, <3>6
      <4>2. Name(g) = NextImport /\ f = Top.file
        BY <1>2, <3>1, <3>3, <3>6, <4>1
      <4>3. g \in Handled' \/ call' = g
        BY <1>5, <4>2
      <4> QED
        BY <1>2, <3>4, <4>1, <4>3 DEF Ahead
    <3> QED
      BY <3>5, <3>6
  <2>2. g \in Handled \/ Ahead(f, g)
    BY <1>6 DEF NothingForgotten
  <2> QED
    BY <1>3, <2>1, <2>2
<1> QED
  BY <1>1, <1>4, <1>6, ForgottenFacts

LEMMA LeaveForgotten ==
    ASSUME TypeOK, NothingForgotten, Leave
    PROVE  NothingForgotten'
<1> DEFINE n == Len(stack)
<1>1. /\ Busy /\ Top.todo = <<>> /\ call = Nothing
      /\ UNCHANGED <<project, roots, call, modules, diagnostics>>
  BY DEF Leave, Busy
<1>2. /\ n \in Nat \ {0} /\ Len(stack') = n - 1 /\ Top = stack[n]
      /\ \A k \in 1..(n - 1) : stack'[k] = stack[k]
  BY <1>1, TopFacts, LeaveFacts DEF Leave, Top
<1>3. Handled' = Handled
  BY <1>1 DEF Handled, Reports
<1>4. ASSUME NEW f \in Range(modules), NEW g \in Targets(f)
      PROVE  g \in Handled' \/ Ahead(f, g)'
  <2>1. CASE Ahead(f, g)
    <3>1. PICK j \in 1..n : /\ stack[j].file = f
                            /\ Name(g) \in Range(stack[j].todo) \/ (j = n /\ call = g)
      BY <2>1 DEF Ahead
    <3>2. g # Nothing
      BY <1>4, FileParts DEF Targets
    <3>3. Name(g) \in Range(stack[j].todo)
      BY <1>1, <3>1, <3>2
    <3>4. j # n
      BY <1>1, <1>2, <3>3 DEF Range
    <3>5. j \in 1..Len(stack') /\ stack'[j] = stack[j]
      BY <1>2, <3>4
    <3> QED
      BY <3>1, <3>3, <3>5 DEF Ahead, Name
  <2>2. g \in Handled \/ Ahead(f, g)
    BY <1>4 DEF NothingForgotten
  <2> QED
    BY <1>3, <2>1, <2>2
<1>5. \A f \in Roots : f \in Handled' \cup roots' \/ call' = f
  BY <1>1, <1>3 DEF NothingForgotten
<1> QED
  BY <1>1, <1>4, <1>5, ForgottenFacts

LEMMA RestForgotten ==
    ASSUME TypeOK, NothingForgotten, call = Nothing, stack = <<>>,
           UNCHANGED <<project, stack, modules>>, Handled \subseteq Handled',
           roots \subseteq roots' \cup {call'}
    PROVE  NothingForgotten'
<1>1. \A f, g : ~Ahead(f, g)
  BY DEF Ahead
<1>2. \A f \in Roots : f \in Handled' \cup roots' \/ call' = f
  BY RootsAreFiles, FileParts DEF NothingForgotten
<1>3. \A f \in Range(modules') : \A g \in Targets(f) : g \in Handled' \/ Ahead(f, g)'
  BY <1>1 DEF NothingForgotten
<1> QED
  BY <1>2, <1>3, ForgottenFacts

LEMMA NextForgotten ==
    ASSUME TypeOK, LoadingInvariant, Plain, WalkIsReached, NothingForgotten, [Next]_vars
    PROVE  NothingForgotten'
<1>1. CASE NextRoot
  <2>1. PICK f \in roots : call' = f /\ roots' = roots \ {f}
    BY <1>1 DEF NextRoot
  <2>2. /\ UNCHANGED <<project, stack, modules, diagnostics>> /\ call = Nothing
        /\ stack = <<>> /\ roots \subseteq roots' \cup {call'}
    BY <1>1, <2>1 DEF NextRoot
  <2> QED
    BY <2>2, HandledGrows, RestForgotten
<1>2. CASE SkipLoaded
  <2>1. /\ UNCHANGED <<project, roots, stack, modules, diagnostics>>
        /\ call' = Nothing /\ call \in Files /\ Name(call) \in Loaded
    BY <1>2, CallType DEF SkipLoaded, Already
  <2>2. call \in Range(modules) /\ Handled \subseteq Handled'
    BY <2>1, CallIsLoaded, HandledGrows
  <2>3. call \in Handled'
    BY <2>2 DEF Handled
  <2> QED
    BY <2>1, <2>2, <2>3, CallForgotten
<1>3. CASE Unreadable \/ SyntaxErrors
  <2>1. UNCHANGED <<project, roots, stack, modules>> /\ call' = Nothing
    BY <1>3 DEF Unreadable, SyntaxErrors, Called
  <2>2. call \in Handled' /\ Handled \subseteq Handled'
    BY <1>3, <2>1, ComplaintHandled DEF Unreadable, SyntaxErrors
  <2> QED
    BY <2>1, <2>2, CallForgotten
<1>4. CASE Enter
  BY <1>4, EnterForgotten
<1>5. CASE ImportAgain \/ Import
  BY <1>5, ImportForgotten
<1>6. CASE Leave
  BY <1>6, LeaveForgotten
<1>7. CASE FinishLoading \/ CheckNames
  <2>1. /\ UNCHANGED <<project, roots, call, stack, modules>>
        /\ call = Nothing /\ stack = <<>>
    BY <1>7 DEF FinishLoading, CheckNames, LoadingInvariant, PhaseEnds
  <2>2. diagnostics \subseteq diagnostics'
    BY <1>7 DEF FinishLoading, CheckNames, LoadingInvariant, PhaseEnds
  <2> QED
    BY <2>1, <2>2, HandledGrows, RestForgotten
<1>8. CASE UNCHANGED vars
  <2>1. /\ UNCHANGED <<project, roots, call, stack, modules, diagnostics>>
        /\ \A f, g : Ahead(f, g) => Ahead(f, g)'
    BY <1>8 DEF vars, Ahead, Name
  <2>2. Handled \subseteq Handled'
    BY <2>1, HandledGrows
  <2> QED
    BY <2>1, <2>2, ForgottenFacts DEF NothingForgotten
<1> QED
  BY <1>1, <1>2, <1>3, <1>4, <1>5, <1>6, <1>7, <1>8
     DEF Next, LoadModule, FollowImports, Ended

(***************************************************************************)
(* A module is left once.                                                   *)
(***************************************************************************)
LEMMA NextLeftOnce ==
    ASSUME TypeOK, LoadingInvariant, LeftOnce, [Next]_vars
    PROVE  LeftOnce'
<1>1. CASE Enter
  <2>1. /\ visiting' = visiting \cup {Name(call)} /\ left' = left
        /\ modules' = Append(modules, call) /\ Name(call) \notin Loaded /\ call \in Files
    BY <1>1, CallType DEF Enter, Already
  <2>2. /\ Len(modules') = Len(modules) + 1 /\ Len(modules) \in Nat
        /\ \A k \in 1..Len(modules) : modules'[k] = modules[k]
    BY <2>1, AppendFacts DEF TypeOK
  <2>3. Loaded \subseteq Loaded'
    <3> SUFFICES ASSUME NEW k \in 1..Len(modules)
                 PROVE  \E i \in 1..Len(modules') : modules'[i][2] = Name(modules[k])
      BY DEF Loaded, Name
    <3>1. k \in 1..Len(modules') /\ modules'[k] = modules[k]
      BY <2>2
    <3> QED
      BY <3>1 DEF Name
  <2>4. \A p \in 1..Len(left) : left[p] \in Loaded' \ visiting'
    BY <2>1, <2>3 DEF LeftOnce
  <2> QED
    BY <2>1, <2>4 DEF LeftOnce
<1>2. CASE Leave
  <2> DEFINE name == Name(Top.file)
             n == Len(left)
  <2>1. /\ Busy /\ visiting' = visiting \ {name} /\ left' = Append(left, name)
        /\ modules' = modules
    BY <1>2 DEF Leave, Unvisited
  <2>2. /\ name \in Names /\ Len(stack) \in 1..Len(stack) /\ Top = stack[Len(stack)]
    BY <2>1, TopFacts, FileParts DEF Top
  <2>3. name \in visiting /\ name \in Loaded
    <3>1. PICK j \in 1..Len(modules) : modules[j] = Top.file
      BY <2>2 DEF LoadingInvariant, VisitingIsStack
    <3> QED
      BY <2>2, <3>1 DEF LoadingInvariant, VisitingIsStack, Loaded
  <2>4. Loaded' = Loaded
    BY <2>1 DEF Loaded, Name
  <2> HIDE DEF name
  <2>5. /\ n \in Nat /\ Len(left') = n + 1 /\ left'[n + 1] = name
        /\ \A k \in 1..n : left'[k] = left[k]
    BY <2>1, <2>2, AppendFacts DEF TypeOK
  <2>6. \A k \in 1..n : left[k] # name /\ left[k] \in Loaded \ visiting
    BY <2>3 DEF LeftOnce
  <2>7. ASSUME NEW p \in 1..Len(left'), NEW q \in 1..Len(left'), left'[p] = left'[q]
        PROVE  p = q
    <3>1. CASE p \in 1..n /\ q \in 1..n
      BY <2>5, <2>7, <3>1 DEF LeftOnce
    <3>2. CASE p = n + 1 /\ q \in 1..n
      BY <2>5, <2>6, <2>7, <3>2
    <3>3. CASE q = n + 1 /\ p \in 1..n
      BY <2>5, <2>6, <2>7, <3>3
    <3> QED
      BY <2>5, <3>1, <3>2, <3>3
  <2>8. ASSUME NEW p \in 1..Len(left')
        PROVE  left'[p] \in Loaded' \ visiting'
    <3>1. CASE p \in 1..n
      BY <2>1, <2>4, <2>5, <2>6, <3>1
    <3>2. CASE p = n + 1
      BY <2>1, <2>3, <2>4, <2>5, <3>2
    <3> QED
      BY <2>5, <2>8, <3>1, <3>2
  <2> QED
    BY <2>7, <2>8 DEF LeftOnce
<1>3. CASE NextRoot \/ SkipLoaded \/ Unreadable \/ SyntaxErrors \/ ImportAgain \/ Import
             \/ FinishLoading \/ CheckNames \/ UNCHANGED vars
  <2>1. UNCHANGED <<modules, visiting, left>>
    BY <1>3 DEF NextRoot, SkipLoaded, Unreadable, SyntaxErrors, ImportAgain, Import,
                FinishLoading, CheckNames, vars
  <2>2. Loaded' = Loaded
    BY <2>1 DEF Loaded, Name
  <2> QED
    BY <2>1, <2>2 DEF LeftOnce
<1> QED
  BY <1>1, <1>2, <1>3 DEF Next, LoadModule, FollowImports, Ended

(***************************************************************************)
(* As long as no cycle is reported, modules are left in the order of the        *)
(* imports that can be loaded.                                              *)
(***************************************************************************)
LEMMA CyclesFacts ==
    ASSUME project' = project, Reports("L0393")' = {} =>
              /\ \A f \in Range(modules') : Name(f) \notin visiting' =>
                    /\ Among(left', Name(f))
                    /\ \A g \in GoodTargets(f) : Before(left', Name(g), Name(f))
              /\ \A f \in Files : \A g \in GoodTargets(f), k \in 1..Len(stack') :
                    stack'[k].file = f =>
                       Among(left', Name(g))
                          \/ Name(g) \in Range(stack'[k].todo) \cup Underway(k)'
    PROVE  CyclesAreSeen'
<1>1. \A f : GoodTargets(f)' = GoodTargets(f)
  BY SameProject
<1> QED
  BY <1>1 DEF CyclesAreSeen, Name

LEMMA GoodTargetsAreFiles ==
    ASSUME NEW f, NEW g \in GoodTargets(f)
    PROVE  g \in Files /\ g \in Targets(f) /\ Leads(f, g) /\ Text(g).state = "good"
  BY DEF GoodTargets, Targets

LEMMA StackFile ==
    ASSUME TypeOK, LoadingInvariant, NEW f \in Range(modules), NEW j \in 1..Len(stack),
           Name(f) = Name(stack[j].file)
    PROVE  f = stack[j].file
<1>1. PICK k \in 1..Len(modules) : modules[k] = f
  BY RangeFacts DEF TypeOK
<1> QED
  BY <1>1, StackModule

LEMMA LeaveCycles ==
    ASSUME TypeOK, LoadingInvariant, CyclesAreSeen, Leave
    PROVE  CyclesAreSeen'
<1> DEFINE n == Len(stack)
           h == Top.file
<1> SUFFICES ASSUME Reports("L0393")' = {}
             PROVE  /\ \A f \in Range(modules') : Name(f) \notin visiting' =>
                          /\ Among(left', Name(f))
                          /\ \A g \in GoodTargets(f) : Before(left', Name(g), Name(f))
                    /\ \A f \in Files : \A g \in GoodTargets(f), k \in 1..Len(stack') :
                          stack'[k].file = f =>
                             Among(left', Name(g))
                                \/ Name(g) \in Range(stack'[k].todo) \cup Underway(k)'
  BY CyclesFacts DEF Leave
<1>1. Reports("L0393") = {}
  BY DEF Leave, Reports
<1>2. /\ Busy /\ Top.todo = <<>> /\ modules' = modules
      /\ visiting' = visiting \ {Name(h)} /\ call' = Nothing /\ call = Nothing
      /\ left' = Append(left, Name(h))
  BY DEF Leave, Busy, Unvisited
<1>3. /\ n \in Nat \ {0} /\ n \in 1..n /\ Len(stack') = n - 1 /\ Top = stack[n]
      /\ \A k \in 1..(n - 1) : stack'[k] = stack[k]
      /\ h \in Files /\ Name(h) \in Names
  BY <1>2, TopFacts, FileParts, LeaveFacts DEF Leave, Top
<1>4. /\ \A i : Among(left, i) => Among(left', i) /\ Before(left', i, Name(h))
      /\ \A i, j : Before(left, i, j) => Before(left', i, j)
      /\ Among(left', Name(h))
  BY <1>2, <1>3, OrderGrows DEF TypeOK
<1>5. ASSUME NEW g \in GoodTargets(h) PROVE Among(left, Name(g))
  <2>1. Among(left, Name(g)) \/ Name(g) \in Range(Top.todo) \cup Underway(n)
    BY <1>1, <1>3, <1>5 DEF CyclesAreSeen
  <2>2. Underway(n) = {}
    BY <1>2, <1>3 DEF Underway
  <2>3. Range(Top.todo) = {}
    BY <1>2 DEF Range
  <2> QED
    BY <2>1, <2>2, <2>3
<1>6. ASSUME NEW f \in Range(modules'), Name(f) \notin visiting'
      PROVE  /\ Among(left', Name(f))
             /\ \A g \in GoodTargets(f) : Before(left', Name(g), Name(f))
  <2>1. CASE Name(f) \notin visiting
    BY <1>1, <1>2, <1>4, <1>6, <2>1 DEF CyclesAreSeen
  <2>2. CASE Name(f) = Name(h)
    <3>1. f = h
      BY <1>2, <1>3, <1>6, <2>2, StackFile
    <3> QED
      BY <1>4, <1>5, <3>1
  <2> QED
    BY <1>2, <1>6, <2>1, <2>2
<1>7. ASSUME NEW f \in Files, NEW g \in GoodTargets(f), NEW k \in 1..Len(stack'),
             stack'[k].file = f
      PROVE  Among(left', Name(g)) \/ Name(g) \in Range(stack'[k].todo) \cup Underway(k)'
  <2>1. k \in 1..(n - 1) /\ k \in 1..n /\ stack'[k] = stack[k]
    BY <1>3
  <2>2. Among(left, Name(g)) \/ Name(g) \in Range(stack[k].todo) \cup Underway(k)
    BY <1>1, <1>7, <2>1 DEF CyclesAreSeen
  <2>3. CASE Name(g) \in Underway(k)
    <3>1. Name(g) = Name(stack[k + 1].file)
      BY <1>2, <1>3, <2>3 DEF Underway
    <3>2. CASE k = n - 1
      BY <1>3, <1>4, <3>1, <3>2
    <3>3. CASE k + 1 \in 1..(n - 1)
      BY <1>3, <3>1, <3>3 DEF Underway, Name
    <3> QED
      BY <1>3, <2>1, <3>2, <3>3
  <2> QED
    BY <1>4, <2>1, <2>2, <2>3
<1> QED
  BY <1>6, <1>7

LEMMA EnterCycles ==
    ASSUME TypeOK, LoadingInvariant, CyclesAreSeen, Enter
    PROVE  CyclesAreSeen'
<1> DEFINE n == Len(stack)
           e == [file |-> call, todo |-> Text(call).imports]
<1> SUFFICES ASSUME Reports("L0393")' = {}
             PROVE  /\ \A f \in Range(modules') : Name(f) \notin visiting' =>
                          /\ Among(left', Name(f))
                          /\ \A g \in GoodTargets(f) : Before(left', Name(g), Name(f))
                    /\ \A f \in Files : \A g \in GoodTargets(f), k \in 1..Len(stack') :
                          stack'[k].file = f =>
                             Among(left', Name(g))
                                \/ Name(g) \in Range(stack'[k].todo) \cup Underway(k)'
  BY CyclesFacts DEF Enter
<1>1. Reports("L0393") = {}
  BY DEF Enter, Reports
<1>2. /\ call \in Files /\ call' = Nothing /\ call # Nothing
      /\ left' = left /\ visiting' = visiting \cup {Name(call)}
      /\ modules' = Append(modules, call)
  BY CallType DEF Enter, Called
<1>3. /\ Len(stack') = n + 1 /\ n \in Nat
      /\ \A k \in 1..n : stack'[k] = stack[k]
      /\ stack'[n + 1].file = call /\ stack'[n + 1].todo = Text(call).imports
  <2>1. /\ stack' = Append(stack, e) /\ e \in Frame /\ stack \in Seq(Frame)
        /\ e.file = call /\ e.todo = Text(call).imports
    BY <1>2, TextType DEF Enter, Frame, TypeOK
  <2> HIDE DEF e
  <2> QED
    BY <2>1, AppendFacts
<1>4. Range(modules') = Range(modules) \cup {call}
  BY <1>2, RangeOfAppend DEF TypeOK
<1>5. ASSUME NEW f \in Range(modules'), Name(f) \notin visiting'
      PROVE  /\ Among(left', Name(f))
             /\ \A g \in GoodTargets(f) : Before(left', Name(g), Name(f))
  <2>1. f \in Range(modules) /\ Name(f) \notin visiting
    BY <1>2, <1>4, <1>5
  <2> QED
    BY <1>1, <1>2, <2>1 DEF CyclesAreSeen
<1>6. ASSUME NEW f \in Files, NEW g \in GoodTargets(f), NEW k \in 1..Len(stack'),
             stack'[k].file = f
      PROVE  Among(left', Name(g)) \/ Name(g) \in Range(stack'[k].todo) \cup Underway(k)'
  <2>1. CASE k \in 1..n
    <3>1. Among(left, Name(g)) \/ Name(g) \in Range(stack[k].todo) \cup Underway(k)
      BY <1>1, <1>3, <1>6, <2>1 DEF CyclesAreSeen
    <3>2. Underway(k) \subseteq Underway(k)'
      <4>1. CASE k = n
        BY <1>2, <1>3, <4>1 DEF Underway, Name
      <4>2. CASE k + 1 \in 1..n
        BY <1>2, <1>3, <4>2 DEF Underway, Name
      <4> QED
        BY <1>3, <2>1, <4>1, <4>2
    <3> QED
      BY <1>2, <1>3, <2>1, <3>1, <3>2
  <2>2. CASE k = n + 1
    <3>1. f = call /\ stack'[k].todo = Text(f).imports
      BY <1>3, <1>6, <2>2
    <3>2. Name(g) \in Range(Text(f).imports)
      BY <1>6, GoodTargetsAreFiles DEF Leads
    <3> QED
      BY <3>1, <3>2
  <2> QED
    BY <1>3, <1>6, <2>1, <2>2
<1> QED
  BY <1>5, <1>6

LEMMA ImportCycles ==
    ASSUME TypeOK, LoadingInvariant, Plain, WalkIsReached, CyclesAreSeen, Import
    PROVE  CyclesAreSeen'
<1> DEFINE n == Len(stack)
<1> SUFFICES ASSUME Reports("L0393")' = {}
             PROVE  /\ \A f \in Range(modules') : Name(f) \notin visiting' =>
                          /\ Among(left', Name(f))
                          /\ \A g \in GoodTargets(f) : Before(left', Name(g), Name(f))
                    /\ \A f \in Files : \A g \in GoodTargets(f), k \in 1..Len(stack') :
                          stack'[k].file = f =>
                             Among(left', Name(g))
                                \/ Name(g) \in Range(stack'[k].todo) \cup Underway(k)'
  BY CyclesFacts DEF Import
<1>1. Reports("L0393") = {}
  BY DEF Import, Reports
<1>2. /\ Busy /\ Top.todo # <<>> /\ stack' = ImportDone
      /\ modules' = modules /\ visiting' = visiting /\ left' = left /\ call = Nothing
  BY DEF Import, Busy
<1>3. /\ n \in Nat \ {0} /\ Len(stack') = n
      /\ \A k \in 1..n : stack'[k].file = stack[k].file
      /\ \A k \in 1..(n - 1) : stack'[k] = stack[k]
      /\ stack'[n].todo = Tail(Top.todo)
  BY <1>2, TopFacts, ImportDoneFacts
<1>4. Range(Top.todo) \subseteq {NextImport} \cup Range(Tail(Top.todo)) /\ Top = stack[n]
  BY <1>2, TopFacts, RangeOfTail DEF NextImport, Top
<1>5. Name(call') = NextImport /\ call' # Nothing
  BY ImportWalk, FileParts
<1>6. ASSUME NEW f \in Files, NEW g \in GoodTargets(f), NEW k \in 1..Len(stack'),
             stack'[k].file = f
      PROVE  Among(left', Name(g)) \/ Name(g) \in Range(stack'[k].todo) \cup Underway(k)'
  <2>1. Among(left, Name(g)) \/ Name(g) \in Range(stack[k].todo) \cup Underway(k)
    BY <1>1, <1>3, <1>6 DEF CyclesAreSeen
  <2>2. CASE k = n
    <3>1. Underway(n) = {}
      BY <1>2, <1>3 DEF Underway
    <3>2. NextImport \in Underway(k)'
      BY <1>3, <1>5, <2>2 DEF Underway, Name
    <3> QED
      BY <1>2, <1>3, <1>4, <2>1, <2>2, <3>1, <3>2
  <2>3. CASE k \in 1..(n - 1)
    <3>1. k + 1 \in 1..n /\ k < n
      BY <1>3, <2>3
    <3>2. Underway(k)' = Underway(k)
      BY <1>3, <3>1, <2>3 DEF Underway, Name
    <3> QED
      BY <1>2, <1>3, <2>1, <2>3, <3>2
  <2> QED
    BY <1>3, <2>2, <2>3
<1> QED
  BY <1>1, <1>2, <1>6 DEF CyclesAreSeen

(* Steps that leave the stack, the modules and the order as they are: a call    *)
(* that is taken back is of a module left before, or of no good file.          *)
LEMMA QuietCycles ==
    ASSUME TypeOK, LoadingInvariant, Plain, WalkIsReached, CyclesAreSeen,
           UNCHANGED <<project, stack, modules, visiting, left>>,
           Reports("L0393")' = {} => Reports("L0393") = {},
           \/ stack = <<>> \/ call' = call
           \/ /\ call' = Nothing /\ call \in Files
              /\ Name(call) \in Loaded \/ Text(call).state # "good"
    PROVE  CyclesAreSeen'
<1> SUFFICES ASSUME Reports("L0393")' = {}
             PROVE  /\ \A f \in Range(modules') : Name(f) \notin visiting' =>
                          /\ Among(left', Name(f))
                          /\ \A g \in GoodTargets(f) : Before(left', Name(g), Name(f))
                    /\ \A f \in Files : \A g \in GoodTargets(f), k \in 1..Len(stack') :
                          stack'[k].file = f =>
                             Among(left', Name(g))
                                \/ Name(g) \in Range(stack'[k].todo) \cup Underway(k)'
  BY CyclesFacts
<1>1. ASSUME NEW f \in Files, NEW g \in GoodTargets(f), NEW k \in 1..Len(stack),
             stack[k].file = f
      PROVE  Among(left, Name(g)) \/ Name(g) \in Range(stack[k].todo) \cup Underway(k)'
  <2>1. Among(left, Name(g)) \/ Name(g) \in Range(stack[k].todo) \cup Underway(k)
    BY <1>1 DEF CyclesAreSeen
  <2>2. CASE call' = call
    <3>1. Underway(k)' = Underway(k)
      BY <2>2 DEF Underway, Name
    <3> QED
      BY <2>1, <3>1
  <2>3. CASE call' = Nothing /\ call \in Files
    <3>1. /\ call # Nothing /\ Name(call) \notin visiting
          /\ Underway(k) \subseteq Underway(k)' \cup {Name(call)}
      BY <2>3, FileParts DEF LoadingInvariant, VisitingIsStack, Underway, Name
    <3>2. CASE Name(call) \in Loaded
      <4>1. call \in Range(modules)
        BY <2>3, <3>2, CallIsLoaded
      <4>2. Among(left, Name(call))
        BY <3>1, <4>1 DEF CyclesAreSeen
      <4> QED
        BY <2>1, <3>1, <4>2
    <3>3. CASE Text(call).state # "good"
      <4>1. CASE k < Len(stack)
        <5>1. Underway(k)' = Underway(k)
          BY <4>1 DEF Underway, Name
        <5> QED
          BY <2>1, <5>1
      <4>2. CASE k = Len(stack)
        <5>1. Leads(f, call)
          BY <1>1, <3>1, <4>2 DEF WalkIsReached, Top
        <5>2. Name(g) # Name(call)
          BY <1>1, <2>3, <3>3, <5>1, GoodTargetsAreFiles, LeadsByName
        <5> QED
          BY <2>1, <3>1, <5>2
      <4> QED
        BY <4>1, <4>2, StackType
    <3> QED
      BY <1>1, <2>2, <2>3, <3>2, <3>3, StackType
  <2> QED
    BY <1>1, <2>2, <2>3, StackType
<1> QED
  BY <1>1 DEF CyclesAreSeen

LEMMA NextCycles ==
    ASSUME TypeOK, LoadingInvariant, Plain, WalkIsReached, CyclesAreSeen, [Next]_vars
    PROVE  CyclesAreSeen'
<1>1. CASE NextRoot
  <2>1. UNCHANGED <<project, stack, modules, visiting, left, diagnostics>> /\ stack = <<>>
    BY <1>1 DEF NextRoot
  <2> QED
    BY <2>1, QuietCycles DEF Reports
<1>2. CASE SkipLoaded
  <2>1. /\ UNCHANGED <<project, stack, modules, visiting, left, diagnostics>>
        /\ call' = Nothing /\ call \in Files /\ Name(call) \in Loaded
    BY <1>2, CallType DEF SkipLoaded, Already
  <2> QED
    BY <2>1, QuietCycles DEF Reports
<1>3. CASE Unreadable \/ SyntaxErrors
  <2>1. /\ UNCHANGED <<project, stack, modules, visiting, left>>
        /\ call' = Nothing /\ call \in Files /\ Text(call).state # "good"
        /\ diagnostics \subseteq diagnostics'
    BY <1>3, CallType DEF Unreadable, SyntaxErrors, Complain
  <2>2. Reports("L0393") \subseteq Reports("L0393")'
    BY <2>1 DEF Reports
  <2> QED
    BY <2>1, <2>2, QuietCycles
<1>4. CASE Enter
  BY <1>4, EnterCycles
<1>5. CASE ImportAgain
  <2> DEFINE r == [code |-> "L0393", file |-> Top.file, name |-> NextImport]
  <2>1. r \in diagnostics' /\ r.code = "L0393" /\ project' = project
    BY <1>5 DEF ImportAgain, Complain
  <2> HIDE DEF r
  <2>2. Reports("L0393")' # {}
    BY <2>1 DEF Reports
  <2> QED
    BY <2>1, <2>2, CyclesFacts
<1>6. CASE Import
  BY <1>6, ImportCycles
<1>7. CASE Leave
  BY <1>7, LeaveCycles
<1>8. CASE FinishLoading \/ CheckNames \/ UNCHANGED vars
  <2>1. /\ UNCHANGED <<project, stack, modules, visiting, left, call>>
        /\ diagnostics \subseteq diagnostics'
    BY <1>8 DEF FinishLoading, CheckNames, vars, LoadingInvariant, PhaseEnds
  <2>2. Reports("L0393") \subseteq Reports("L0393")'
    BY <2>1 DEF Reports
  <2> QED
    BY <2>1, <2>2, QuietCycles
<1> QED
  BY <1>1, <1>2, <1>3, <1>4, <1>5, <1>6, <1>7, <1>8
     DEF Next, LoadModule, FollowImports, Ended

(***************************************************************************)
(* The names decide only if the walk found nothing wrong.                     *)
(***************************************************************************)
LEMMA SameNames ==
    ASSUME UNCHANGED <<project, modules>>
    PROVE  NamesPass' <=> NamesPass
  BY DEF NamesPass, Duplicates, Invisible, Declares, Collected, Visible, Imports, Text, Name

LEMMA NextNames ==
    ASSUME TypeOK, LoadingInvariant, NamesDecide, [Next]_vars
    PROVE  NamesDecide'
<1>1. CASE FinishLoading
  <2>1. /\ phase = "load" /\ UNCHANGED <<project, modules, diagnostics>>
        /\ phase' = IF diagnostics = {} THEN "check" ELSE "rejected"
    BY <1>1 DEF FinishLoading
  <2> QED
    BY <2>1 DEF NamesDecide
<1>2. CASE CheckNames
  <2>1. /\ UNCHANGED <<project, modules>>
        /\ phase' = IF diagnostics' = {} THEN "accepted" ELSE "rejected"
        /\ diagnostics' = UNION {DuplicateNames(k) \cup InvisibleNames(k) : k \in 1..Len(modules)}
    BY <1>2 DEF CheckNames
  <2>2. NamesPass' <=> NamesPass
    BY <2>1, SameNames
  <2>3. ASSUME diagnostics' = {}, NEW k \in 1..Len(modules)
        PROVE  Duplicates(k) = {} /\ Invisible(k) = {}
    <3>1. DuplicateNames(k) = {} /\ InvisibleNames(k) = {}
      BY <2>1, <2>3
    <3> QED
      BY <3>1 DEF DuplicateNames, InvisibleNames
  <2>4. ASSUME NamesPass, NEW r \in diagnostics' PROVE FALSE
    <3>1. PICK k \in 1..Len(modules) : r \in DuplicateNames(k) \cup InvisibleNames(k)
      BY <2>1, <2>4
    <3>2. Duplicates(k) = {} /\ Invisible(k) = {}
      BY <2>4 DEF NamesPass
    <3> QED
      BY <3>1, <3>2 DEF DuplicateNames, InvisibleNames
  <2>5. phase' = "accepted" => NamesPass
    BY <2>1, <2>3 DEF NamesPass
  <2>6. ~(phase' = "rejected" /\ NamesPass)
    BY <2>1, <2>4
  <2> QED
    BY <2>1, <2>2, <2>5, <2>6 DEF NamesDecide
<1>3. CASE Unreadable \/ SyntaxErrors \/ ImportAgain
  <2>1. phase = "load" /\ phase' = "load"
    BY <1>3 DEF Unreadable, SyntaxErrors, ImportAgain, Called, Busy
  <2>2. \A r \in diagnostics' : r \in diagnostics \/ r.code \in Structural
    BY <1>3 DEF Unreadable, SyntaxErrors, ImportAgain, Complain, Structural
  <2> QED
    BY <2>1, <2>2 DEF NamesDecide, Structural
<1>4. CASE NextRoot \/ SkipLoaded \/ Enter \/ Import \/ Leave
  <2>1. phase = "load" /\ phase' = "load" /\ diagnostics' = diagnostics
    BY <1>4 DEF NextRoot, SkipLoaded, Enter, Import, Leave, Called, Busy
  <2> QED
    BY <2>1 DEF NamesDecide, Structural
<1>5. CASE UNCHANGED vars
  <2>1. UNCHANGED <<project, modules, phase, diagnostics>>
    BY <1>5 DEF vars
  <2>2. NamesPass' <=> NamesPass
    BY <2>1, SameNames
  <2> QED
    BY <2>1, <2>2 DEF NamesDecide, Structural
<1> QED
  BY <1>1, <1>2, <1>3, <1>4, <1>5 DEF Next, LoadModule, FollowImports, Ended

(***************************************************************************)
(* The invariant                                                           *)
(***************************************************************************)
LEMMA InitVerdict == Init /\ TypeOK => VerdictInvariant
<1> SUFFICES ASSUME Init, TypeOK PROVE VerdictInvariant
  OBVIOUS
<1>1. /\ roots = Roots /\ call = Nothing /\ stack = <<>> /\ modules = <<>> /\ visiting = {}
      /\ diagnostics = {} /\ phase = "load" /\ left = <<>>
      /\ Len(stack) = 0 /\ Len(modules) = 0 /\ Len(left) = 0 /\ Range(modules) = {}
  BY DEF Init, Range
<1>2. LeftOnce /\ NamesDecide
  BY <1>1 DEF LeftOnce, NamesDecide
<1>3. WalkIsReached
  BY <1>1 DEF WalkIsReached
<1>4. ReportsAreTrue /\ StackClimbs
  BY <1>1 DEF ReportsAreTrue, StackClimbs
<1>5. NothingForgotten /\ CyclesAreSeen
  BY <1>1 DEF NothingForgotten, CyclesAreSeen
<1> QED
  BY <1>2, <1>3, <1>4, <1>5 DEF VerdictInvariant

LEMMA NextVerdict ==
    ASSUME TypeOK, LoadingInvariant, VerdictInvariant, [Next]_vars
    PROVE  VerdictInvariant'
<1>1. project' = project
  BY DEF Next, NextRoot, LoadModule, SkipLoaded, Unreadable, SyntaxErrors, Enter,
         FollowImports, ImportAgain, Import, Leave, FinishLoading, CheckNames, Ended, vars
<1>2. Plain' <=> Plain
  BY <1>1, SameProject
<1>3. LeftOnce' /\ NamesDecide'
  BY NextLeftOnce, NextNames DEF VerdictInvariant
<1>4. ASSUME Plain
      PROVE  /\ WalkIsReached' /\ ReportsAreTrue' /\ StackClimbs'
             /\ NothingForgotten' /\ CyclesAreSeen'
  <2>1. WalkIsReached /\ ReportsAreTrue /\ StackClimbs /\ NothingForgotten /\ CyclesAreSeen
    BY <1>4 DEF VerdictInvariant
  <2> QED
    BY <1>4, <2>1, NextWalk, NextReports, NextClimbs, NextForgotten, NextCycles
<1> QED
  BY <1>2, <1>3, <1>4 DEF VerdictInvariant

(* At every moment of the load of a plain project the walk has come to reached  *)
(* files only, has forgotten none, and has reported only what is so.           *)
THEOREM WalkIsExact == Spec => []VerdictInvariant
<1>1. Init => TypeOK /\ LoadingInvariant /\ VerdictInvariant
  BY InitTypeOK, InitLoading, InitVerdict
<1>2. TypeOK /\ LoadingInvariant /\ VerdictInvariant /\ [Next]_vars
          => (TypeOK /\ LoadingInvariant /\ VerdictInvariant)'
  BY NextTypeOK, NextLoading, NextVerdict
<1> QED
  BY <1>1, <1>2, PTL DEF Spec

(***************************************************************************)
(* The end of a load                                                        *)
(***************************************************************************)
LEMMA OnlyGoodLead == \A f : Text(f).state # "good" => Targets(f) = {}
  BY DEF Targets, Leads

LEMMA EndIsReached ==
    ASSUME TypeOK, LoadingInvariant, VerdictInvariant, Plain, phase # "load"
    PROVE  /\ Reached = Handled
           /\ \A f \in Range(modules) : Text(f).state = "good"
           /\ \A f \in Reports("L0397") : Text(f).state \in {"absent", "unreadable"}
           /\ \A f \in Reports("syntax") : Text(f).state = "broken"
<1>1. stack = <<>> /\ call = Nothing /\ roots = {}
  BY DEF LoadingInvariant, PhaseEnds
<1>2. WalkIsReached /\ ReportsAreTrue /\ NothingForgotten
  BY DEF VerdictInvariant
<1>3. \A f \in Range(modules) : f \in Reached /\ Text(f).state = "good"
  <2> SUFFICES ASSUME NEW f \in Range(modules)
               PROVE  f \in Reached /\ Text(f).state = "good"
    OBVIOUS
  <2>1. PICK k \in 1..Len(modules) : modules[k] = f
    BY RangeFacts DEF TypeOK
  <2> QED
    BY <1>2, <2>1 DEF WalkIsReached
<1>4. \A f \in Reports("L0397") : f \in Reached /\ Text(f).state \in {"absent", "unreadable"}
  BY <1>2 DEF Reports, ReportsAreTrue
<1>5. \A f \in Reports("syntax") : f \in Reached /\ Text(f).state = "broken"
  BY <1>2 DEF Reports, ReportsAreTrue
<1>6. Handled \subseteq Reached /\ Reached \subseteq Files
  BY <1>3, <1>4, <1>5, ReachedFacts DEF Handled
<1>7. \A f \in Handled : Targets(f) \subseteq Handled
  <2> SUFFICES ASSUME NEW f \in Handled, NEW g \in Targets(f) PROVE g \in Handled
    OBVIOUS
  <2>1. Text(f).state = "good"
    BY OnlyGoodLead
  <2>2. f \in Range(modules)
    BY <1>4, <1>5, <2>1 DEF Handled
  <2>3. ~Ahead(f, g)
    BY <1>1 DEF Ahead
  <2> QED
    BY <1>2, <2>2, <2>3 DEF NothingForgotten
<1>8. Roots \subseteq Handled
  <2>1. \A f \in Roots : f # Nothing
    BY RootsAreFiles, FileParts
  <2> QED
    BY <1>1, <1>2, <2>1 DEF NothingForgotten
<1>9. Reached \subseteq Handled
  BY <1>6, <1>7, <1>8, ReachedFacts
<1> QED
  BY <1>3, <1>4, <1>5, <1>6, <1>9

LEMMA BeforeAgain ==
    ASSUME NEW s \in Seq(Names), \A p, q \in 1..Len(s) : s[p] = s[q] => p = q
    PROVE  /\ \A i : ~Before(s, i, i)
           /\ \A h, i, j : Before(s, h, i) /\ Before(s, i, j) => Before(s, h, j)
<1>1. ASSUME NEW i, Before(s, i, i) PROVE FALSE
  <2>1. PICK p \in 1..Len(s), q \in 1..Len(s) : p < q /\ s[p] = i /\ s[q] = i
    BY <1>1 DEF Before
  <2> QED
    BY <2>1
<1>2. ASSUME NEW h, NEW i, NEW j, Before(s, h, i), Before(s, i, j) PROVE Before(s, h, j)
  <2>1. PICK p \in 1..Len(s), q \in 1..Len(s) : p < q /\ s[p] = h /\ s[q] = i
    BY <1>2 DEF Before
  <2>2. PICK x \in 1..Len(s), y \in 1..Len(s) : x < y /\ s[x] = i /\ s[y] = j
    BY <1>2 DEF Before
  <2>3. q = x /\ p < y
    BY <2>1, <2>2
  <2> QED
    BY <2>1, <2>2, <2>3 DEF Before
<1> QED
  BY <1>1, <1>2

(* If no cycle was reported, the order in which the modules were left shows     *)
(* that there is none.                                                      *)
LEMMA UnreportedIsAcyclic ==
    ASSUME TypeOK, LoadingInvariant, VerdictInvariant, Plain, phase # "load",
           Reports("L0393") = {}
    PROVE  ~Circular
<1> SUFFICES ASSUME NEW f \in Reached, f \in Closure(Targets(f)) PROVE FALSE
  BY DEF Circular
<1>1. stack = <<>> /\ visiting = {}
  BY DEF LoadingInvariant, PhaseEnds, VisitingIsStack
<1>2. \A g \in Range(modules) : \A h \in GoodTargets(g) : Before(left, Name(h), Name(g))
  BY <1>1 DEF VerdictInvariant, CyclesAreSeen
<1>3. /\ \A i : ~Before(left, i, i)
      /\ \A h, i, j : Before(left, h, i) /\ Before(left, i, j) => Before(left, h, j)
  BY BeforeAgain DEF VerdictInvariant, LeftOnce, TypeOK
<1>4. \A g \in Reached : Text(g).state = "good" => g \in Range(modules)
  BY EndIsReached DEF Handled
<1>5. /\ Reached \subseteq Files /\ f \in Files
      /\ \A g \in Reached : Targets(g) \subseteq Reached
  BY ReachedFacts
<1> DEFINE S == {g \in Reached : Text(g).state = "good" => Before(left, Name(g), Name(f))}
<1>6. ASSUME NEW g \in Reached, NEW h \in Targets(g),
             Text(g).state = "good" => g = f \/ Before(left, Name(g), Name(f))
      PROVE  h \in S
  <2>1. Text(g).state = "good" /\ g \in Range(modules)
    BY <1>4, <1>6, OnlyGoodLead
  <2>2. h \in Reached
    BY <1>5, <1>6
  <2>3. ASSUME Text(h).state = "good" PROVE Before(left, Name(h), Name(f))
    <3>1. h \in GoodTargets(g)
      BY <1>6, <2>3 DEF GoodTargets
    <3>2. Before(left, Name(h), Name(g))
      BY <1>2, <2>1, <3>1
    <3> QED
      BY <1>3, <1>6, <2>1, <3>2
  <2> QED
    BY <2>2, <2>3
<1>7. S \in SUBSET Files
  BY <1>5
<1>8. Targets(f) \subseteq S
  BY <1>6
<1>9. \A g \in S : Targets(g) \subseteq S
  <2> SUFFICES ASSUME NEW g \in S, NEW h \in Targets(g) PROVE h \in S
    OBVIOUS
  <2>1. g \in Reached /\ (Text(g).state = "good" => Before(left, Name(g), Name(f)))
    OBVIOUS
  <2> QED
    BY <1>6, <2>1
<1>10. f \in S
  <2> HIDE DEF S
  <2>1. Targets(f) \in SUBSET Files
    BY TargetsAreFiles
  <2> QED
    BY <1>7, <1>8, <1>9, <2>1, ClosureFacts
<1>11. Targets(f) # {}
  <2> SUFFICES ASSUME Targets(f) = {} PROVE FALSE
    OBVIOUS
  <2>1. Closure({}) \subseteq {}
    BY ClosureFacts
  <2> QED
    BY <2>1
<1>12. Text(f).state = "good"
  BY <1>11, OnlyGoodLead
<1> QED
  BY <1>3, <1>10, <1>12

(* The checks of names are the definition of good names.                      *)
LEMMA NamesPassIsGood ==
    ASSUME TypeOK, LoadingInvariant, WalkIsReached, Reached = Range(modules)
    PROVE  NamesPass <=> NamesAreGood
<1>1. /\ modules \in Seq(Files)
      /\ \A k \in 1..Len(modules) : modules[k] \in Files /\ modules[k] \in Reached
      /\ \A f \in Reached : \E k \in 1..Len(modules) : modules[k] = f
  BY StackType, RangeFacts DEF TypeOK
<1>2. \A k \in 1..Len(modules) : Text(modules[k]).state = "good" /\ Exists(modules[k])
  BY DEF WalkIsReached, Exists
<1>3. \A j, k \in 1..Len(modules) :
         modules[j] \in Targets(modules[k]) <=> Name(modules[j]) \in Imports(k)
  BY <1>1, <1>2 DEF Targets, Leads, Imports
<1>4. ASSUME NamesPass PROVE NamesAreGood
  <2>1. /\ \A j, k \in 1..Len(modules) : j # k => Declares(j) \cap Declares(k) = {}
        /\ \A j, k \in 1..Len(modules) : \A d \in Collected(k) \cap Declares(j) :
              j = k \/ (d \in Text(modules[j]).exports /\ Name(modules[j]) \in Imports(k))
    BY <1>4, PassedNames
  <2>2. ASSUME NEW f \in Reached, NEW g \in Reached, f # g
        PROVE  Text(f).declares \cap Text(g).declares = {}
    <3>1. PICK j \in 1..Len(modules) : modules[j] = f
      BY <1>1
    <3>2. PICK k \in 1..Len(modules) : modules[k] = g
      BY <1>1
    <3> QED
      BY <2>1, <2>2, <3>1, <3>2 DEF Declares
  <2>3. ASSUME NEW f \in Reached, NEW g \in Reached, NEW d \in Text(g).declares,
               <<"call", d>> \in Text(f).uses
        PROVE  f = g \/ (d \in Text(g).exports /\ g \in Targets(f))
    <3>1. PICK k \in 1..Len(modules) : modules[k] = f
      BY <1>1
    <3>2. PICK j \in 1..Len(modules) : modules[j] = g
      BY <1>1
    <3>3. d \in Collected(k) \cap Declares(j)
      BY <1>1, <2>3, <3>1, <3>2, TextType DEF Collected, Declares
    <3> QED
      BY <1>3, <2>1, <3>1, <3>2, <3>3
  <2> QED
    BY <2>2, <2>3 DEF NamesAreGood
<1>5. ASSUME NamesAreGood PROVE NamesPass
  <2> SUFFICES ASSUME NEW k \in 1..Len(modules)
               PROVE  Duplicates(k) = {} /\ Invisible(k) = {}
    BY DEF NamesPass
  <2>1. ASSUME NEW d \in Duplicates(k) PROVE FALSE
    <3>1. PICK j \in 1..(k - 1) : d \in Declares(j) /\ d \in Declares(k)
      BY <2>1 DEF Duplicates
    <3>2. j \in 1..Len(modules) /\ j # k
      BY StackType
    <3>3. modules[j] # modules[k]
      BY <3>2 DEF LoadingInvariant, LoadedOnce
    <3> QED
      BY <1>1, <1>5, <3>1, <3>2, <3>3 DEF NamesAreGood, Declares
  <2>2. ASSUME NEW d \in Invisible(k) PROVE FALSE
    <3>1. /\ d \in Decls /\ <<"call", d>> \in Text(modules[k]).uses /\ d \notin Visible(k)
          /\ \E j \in 1..Len(modules) : d \in Declares(j)
      BY <2>2 DEF Invisible, Collected
    <3>2. PICK j \in 1..Len(modules) : d \in Declares(j)
      BY <3>1
    <3>3. \/ modules[k] = modules[j]
          \/ d \in Text(modules[j]).exports /\ modules[j] \in Targets(modules[k])
      BY <1>1, <1>5, <3>1, <3>2 DEF NamesAreGood, Declares
    <3>4. CASE modules[k] = modules[j]
      BY <3>1, <3>2, <3>4 DEF Visible, Declares
    <3>5. CASE d \in Text(modules[j]).exports /\ modules[j] \in Targets(modules[k])
      BY <1>3, <3>1, <3>2, <3>5 DEF Visible
    <3> QED
      BY <3>3, <3>4, <3>5
  <2> QED
    BY <2>1, <2>2
<1> QED
  BY <1>4, <1>5

LEMMA VerdictAtEnd ==
    ASSUME TypeOK, LoadingInvariant, VerdictInvariant, Plain, phase \in {"accepted", "rejected"}
    PROVE  /\ Reports("L0397") = {f \in Reached : Text(f).state \in {"absent", "unreadable"}}
           /\ Reports("syntax") = {f \in Reached : Text(f).state \in {"broken"}}
           /\ Reports("L0393") # {} <=> Circular
           /\ {f \in Reached : Text(f).state \in {"good"}} = Range(modules)
           /\ Reached = Range(modules) /\ ~Circular => (phase = "accepted" <=> NamesAreGood)
<1>1. /\ Reached = Range(modules) \cup Reports("L0397") \cup Reports("syntax")
      /\ \A f \in Range(modules) : Text(f).state = "good"
      /\ \A f \in Reports("L0397") : Text(f).state \in {"absent", "unreadable"}
      /\ \A f \in Reports("syntax") : Text(f).state = "broken"
  BY EndIsReached DEF Handled
<1>2. WalkIsReached /\ ReportsAreTrue /\ NamesDecide
  BY DEF VerdictInvariant
<1>3. Reports("L0393") # {} <=> Circular
  <2>1. Reports("L0393") # {} => Circular
    BY <1>2 DEF Reports, ReportsAreTrue
  <2> QED
    BY <2>1, UnreportedIsAcyclic
<1>4. ASSUME Reached = Range(modules), ~Circular
      PROVE  phase = "accepted" <=> NamesAreGood
  <2>1. NamesPass <=> NamesAreGood
    BY <1>2, <1>4, NamesPassIsGood
  <2>2. \A r \in diagnostics : r.code \notin Structural
    <3> SUFFICES ASSUME NEW r \in diagnostics, r.code \in Structural PROVE FALSE
      OBVIOUS
    <3>1. r.file \in Reports(r.code)
      BY DEF Reports
    <3> QED
      BY <1>1, <1>3, <1>4, <3>1 DEF Structural
  <2> QED
    BY <1>2, <2>1, <2>2 DEF NamesDecide
<1>5. /\ Reports("L0397") = {f \in Reached : Text(f).state \in {"absent", "unreadable"}}
      /\ Reports("syntax") = {f \in Reached : Text(f).state \in {"broken"}}
      /\ {f \in Reached : Text(f).state \in {"good"}} = Range(modules)
  BY <1>1
<1> QED
  BY <1>3, <1>4, <1>5

(* The verdict on a plain project is exact: missing and broken files, cycles,   *)
(* the modules of the program and the names are as the definition of a good     *)
(* program says.                                                            *)
THEOREM VerdictCorrect == Spec => []VerdictIsExact
<1>1. TypeOK /\ LoadingInvariant /\ VerdictInvariant => VerdictIsExact
  BY VerdictAtEnd DEF VerdictIsExact
<1> QED
  BY <1>1, TypeCorrect, StackIsVisiting, WalkIsExact, PTL

(***************************************************************************)
(* Why every load ends: it is never stuck, and every step uses something up. *)
(***************************************************************************)
RootsLeft == roots \subseteq Roots

LEMMA RootsLeftCorrect == Spec => []RootsLeft
<1>1. Init => RootsLeft
  BY DEF Init, RootsLeft
<1>2. RootsLeft /\ [Next]_vars => RootsLeft'
  <2> SUFFICES ASSUME RootsLeft, [Next]_vars PROVE RootsLeft'
    OBVIOUS
  <2>1. project' = project
    BY DEF Next, LoadModule, FollowImports, NextRoot, SkipLoaded, Unreadable, SyntaxErrors,
       Enter, ImportAgain, Import, Leave, FinishLoading, CheckNames, Ended, vars
  <2>2. Roots' = Roots
    BY <2>1 DEF Roots, Exists, Text
  <2>3. roots' \subseteq roots
    BY DEF Next, LoadModule, FollowImports, NextRoot, SkipLoaded, Unreadable, SyntaxErrors,
       Enter, ImportAgain, Import, Leave, FinishLoading, CheckNames, Ended, vars
  <2> QED
    BY <2>2, <2>3 DEF RootsLeft
<1> QED
  BY <1>1, <1>2, PTL DEF Spec

(* Among any of a project's roots there is a first: in the first of the search *)
(* directories that has one, the one with the least name.                    *)
LEMMA FirstRoot ==
    ASSUME TypeOK, RootsLeft, roots # {}
    PROVE  \E f \in roots : IsNextRoot(f)
<1> DEFINE search == project.search
<1>1. /\ project.search \in Seq(Dirs) /\ DOMAIN project.search \subseteq Nat
      /\ \A k \in DOMAIN project.search : k \in Nat /\ k >= 1
  BY DEF TypeOK, Project
<1>2. \A f \in roots : f \in Files /\ Name(f) \in Nat
  BY NamesAssumption, FileParts DEF TypeOK
<1>3. ASSUME NEW f \in roots, NEW k \in DOMAIN search, search[k] = Dir(f),
             \A j \in DOMAIN search : \A g \in roots : search[j] = Dir(g) => k <= j,
             \A g \in roots : Dir(g) = Dir(f) => Name(f) <= Name(g)
      PROVE  IsNextRoot(f)
  <2>1. ASSUME NEW g \in roots, Earlier(g, f) PROVE FALSE
    <3>1. ASSUME NEW j \in DOMAIN search, search[j] = Dir(g),
                 \A i \in 1..j : search[i] # Dir(f)
          PROVE  FALSE
      <4>1. k \in 1..j
        BY <1>1, <1>3, <3>1
      <4> QED
        BY <1>3, <3>1, <4>1
    <3>2. ASSUME Dir(g) = Dir(f), Name(g) < Name(f) PROVE FALSE
      BY <1>2, <1>3, <3>2
    <3> QED
      BY <2>1, <3>1, <3>2 DEF Earlier
  <2> QED
    BY <1>3, <2>1 DEF IsNextRoot
<1>4. CASE project.entry = Library
  <2> DEFINE T == {k \in DOMAIN search : \E f \in roots : search[k] = Dir(f)}
  <2>1. PICK f0 \in roots : TRUE
    OBVIOUS
  <2>2. \E k \in DOMAIN search : search[k] = Dir(f0)
    BY <1>4, <2>1 DEF RootsLeft, Roots, Range
  <2>3. T \in SUBSET Nat /\ T # {}
    BY <1>1, <2>2
  <2>4. PICK k \in T : \A j \in T : k <= j
    BY <2>3, LeastOfNat
  <2> DEFINE N == {Name(f) : f \in {g \in roots : search[k] = Dir(g)}}
  <2>5. N \in SUBSET Nat /\ N # {}
    BY <1>2, <2>4
  <2>6. PICK n \in N : \A m \in N : n <= m
    BY <2>5, LeastOfNat
  <2>7. PICK f \in roots : search[k] = Dir(f) /\ Name(f) = n
    BY <2>6
  <2>8. \A g \in roots : Dir(g) = Dir(f) => Name(f) <= Name(g)
    BY <2>6, <2>7
  <2>9. \A j \in DOMAIN search : \A g \in roots : search[j] = Dir(g) => k <= j
    BY <2>4
  <2> QED
    BY <1>3, <2>4, <2>7, <2>8, <2>9
<1>5. CASE project.entry # Library
  <2>1. PICK f \in roots : roots = {f}
    BY <1>5 DEF RootsLeft, Roots
  <2>2. ~ Earlier(f, f)
    <3>1. ASSUME NEW k \in DOMAIN search, search[k] = Dir(f),
                 \A j \in 1..k : search[j] # Dir(f)
          PROVE  FALSE
      <4>1. k \in 1..k
        BY <1>1, <3>1
      <4> QED
        BY <3>1, <4>1
    <3> QED
      BY <1>2, <3>1 DEF Earlier
  <2> QED
    BY <2>1, <2>2 DEF IsNextRoot
<1> QED
  BY <1>4, <1>5

(* Until it has ended, the loader has a next step: whatever directories are     *)
(* listed, and however often, a root that no other comes before is among those   *)
(* that are left.                                                           *)
THEOREM NeverStuckCorrect == Spec => []NeverStuck
<1>1. TypeOK /\ RootsLeft => NeverStuck
  BY FirstRoot DEF NeverStuck
<1> QED
  BY <1>1, TypeCorrect, RootsLeftCorrect, PTL

LEMMA LessAt ==
    ASSUME NEW x, NEW y, \A j \in 1..6 : x[j] \in Nat /\ y[j] \in Nat,
           NEW k \in 1..6, x[k] < y[k], \A j \in 1..(k - 1) : x[j] <= y[j]
    PROVE  Less(x, y)
<1> DEFINE T == {j \in 1..6 : x[j] # y[j]}
<1>1. T \in SUBSET Nat /\ k \in T
  OBVIOUS
<1>2. PICK m \in T : \A j \in T : m <= j
  BY <1>1, LeastOfNat
<1>3. m \in 1..6 /\ x[m] # y[m] /\ m <= k
  BY <1>1, <1>2
<1>4. x[m] < y[m]
  <2>1. CASE m = k
    BY <2>1
  <2>2. CASE m # k
    <3>1. m \in 1..(k - 1)
      BY <1>3, <2>2
    <3> QED
      BY <1>3, <3>1
  <2> QED
    BY <2>1, <2>2
<1>5. ASSUME NEW j \in 1..(m - 1) PROVE x[j] = y[j]
  <2>1. j \in 1..6 /\ ~ (m <= j)
    BY <1>3
  <2> QED
    BY <1>2, <2>1
<1> QED
  BY <1>3, <1>4, <1>5 DEF Less

LEMMA FewerIn ==
    ASSUME NEW S, IsFiniteSet(S), NEW T \in SUBSET S
    PROVE  /\ Cardinality(S) \in Nat /\ Cardinality(T) \in Nat
           /\ Cardinality(T) <= Cardinality(S)
           /\ T # S => Cardinality(T) < Cardinality(S)
<1>1. /\ IsFiniteSet(T) /\ Cardinality(T) <= Cardinality(S)
      /\ Cardinality(S) = Cardinality(T) => S = T
  BY FS_Subset
<1>2. Cardinality(S) \in Nat /\ Cardinality(T) \in Nat
  BY <1>1, FS_CardinalityType
<1> QED
  BY <1>1, <1>2

LEMMA FilesAreFinite == IsFiniteSet(Files) /\ IsFiniteSet(Names)
BY NamesAssumption, FS_Product DEF Files

LEMMA RemainingIs ==
    /\ Remaining[1] = PhasesLeft(phase)
    /\ Remaining[2] = Cardinality(Names \ Loaded)
    /\ Remaining[3] = Cardinality(roots)
    /\ Remaining[4] = Len(stack)
    /\ Remaining[5] = IF stack = <<>> THEN 0 ELSE Len(Top.todo)
    /\ Remaining[6] = IF call = Nothing THEN 0 ELSE 1
BY DEF Remaining

LEMMA RemainingIsNext ==
    /\ Remaining'[1] = PhasesLeft(phase')
    /\ Remaining'[2] = Cardinality(Names \ Loaded')
    /\ Remaining'[3] = Cardinality(roots')
    /\ Remaining'[4] = Len(stack')
    /\ Remaining'[5] = IF stack' = <<>> THEN 0 ELSE Len(Top'.todo)
    /\ Remaining'[6] = IF call' = Nothing THEN 0 ELSE 1
BY DEF Remaining, PhasesLeft

LEMMA RemainingType == TypeOK => \A j \in 1..6 : Remaining[j] \in Nat
<1> SUFFICES ASSUME TypeOK PROVE \A j \in 1..6 : Remaining[j] \in Nat
  OBVIOUS
<1>1. Remaining[1] \in Nat /\ Remaining[6] \in Nat
  BY RemainingIs DEF PhasesLeft
<1>2. Remaining[2] \in Nat
  <2>1. Names \ Loaded \in SUBSET Names
    OBVIOUS
  <2> QED
    BY <2>1, FilesAreFinite, FewerIn, RemainingIs
<1>3. Remaining[3] \in Nat
  <2>1. roots \in SUBSET Files
    BY DEF TypeOK
  <2> QED
    BY <2>1, FilesAreFinite, FewerIn, RemainingIs
<1>4. Remaining[4] \in Nat
  BY RemainingIs DEF TypeOK
<1>5. Remaining[5] \in Nat
  <2>1. ASSUME stack # <<>> PROVE Len(Top.todo) \in Nat
    <3>1. stack \in Seq(Frame)
      BY DEF TypeOK, Frame
    <3>2. Len(stack) \in Nat \ {0} /\ stack[Len(stack)] \in Frame
      BY <2>1, <3>1
    <3>3. Top.todo \in Seq(Names)
      BY <3>2 DEF Top, Frame
    <3> QED
      BY <3>3
  <2> QED
    BY <2>1, RemainingIs
<1> QED
  BY <1>1, <1>2, <1>3, <1>4, <1>5

LEMMA StepLess ==
    ASSUME TypeOK, TypeOK', NEW k \in 1..6, Remaining'[k] < Remaining[k],
           \A j \in 1..(k - 1) : Remaining'[j] <= Remaining[j]
    PROVE  Less(Remaining', Remaining)
<1>1. (TypeOK => \A j \in 1..6 : Remaining[j] \in Nat)'
  BY RemainingType, PTL
<1>2. \A j \in 1..6 : Remaining'[j] \in Nat /\ Remaining[j] \in Nat
  BY <1>1, RemainingType
<1> QED
  BY <1>2, LessAt

(* What a step leaves alone it does not add to.                              *)
LEMMA Stays ==
    ASSUME TypeOK, TypeOK'
    PROVE  /\ phase' = phase => Remaining'[1] <= Remaining[1]
           /\ modules' = modules => Remaining'[2] <= Remaining[2]
           /\ roots' = roots => Remaining'[3] <= Remaining[3]
           /\ stack' = stack => Remaining'[4] <= Remaining[4] /\ Remaining'[5] <= Remaining[5]
<1>1. (TypeOK => \A j \in 1..6 : Remaining[j] \in Nat)'
  BY RemainingType, PTL
<1>2. \A j \in 1..6 : Remaining'[j] \in Nat /\ Remaining[j] \in Nat
  BY <1>1, RemainingType
<1>3. phase' = phase => Remaining'[1] = Remaining[1]
  BY RemainingIs, RemainingIsNext
<1>4. modules' = modules => Remaining'[2] = Remaining[2]
  BY RemainingIs, RemainingIsNext DEF Loaded
<1>5. roots' = roots => Remaining'[3] = Remaining[3]
  BY RemainingIs, RemainingIsNext
<1>6. stack' = stack => Remaining'[4] = Remaining[4] /\ Remaining'[5] = Remaining[5]
  BY RemainingIs, RemainingIsNext DEF Top
<1> QED
  BY <1>2, <1>3, <1>4, <1>5, <1>6

(* A call is answered, by a module that is loaded or by a complaint.           *)
LEMMA LessByAnswer ==
    ASSUME TypeOK, TypeOK', SkipLoaded \/ Unreadable \/ SyntaxErrors
    PROVE  Less(Remaining', Remaining)
<1>1. /\ phase' = phase /\ modules' = modules /\ roots' = roots /\ stack' = stack
      /\ call # Nothing /\ call' = Nothing
  BY DEF SkipLoaded, Unreadable, SyntaxErrors, Called
<1>2. Remaining'[6] < Remaining[6]
  BY <1>1, RemainingIs, RemainingIsNext
<1>3. \A j \in 1..(6 - 1) : Remaining'[j] <= Remaining[j]
  BY <1>1, Stays
<1> QED
  BY <1>2, <1>3, StepLess

(* A module that was not loaded is.                                          *)
LEMMA LessByEnter ==
    ASSUME TypeOK, TypeOK', Enter
    PROVE  Less(Remaining', Remaining)
<1>1. /\ phase' = phase /\ modules' = Append(modules, call) /\ Name(call) \notin Loaded
      /\ call \in Files /\ Name(call) \in Names
  BY CallType DEF Enter, Called, Already
<1>2. modules \in Seq(Files)
  BY DEF TypeOK
<1>3. /\ Len(modules) \in Nat /\ Len(modules') = Len(modules) + 1
      /\ \A k \in 1..Len(modules) : modules'[k] = modules[k]
      /\ modules'[Len(modules) + 1] = call
  BY <1>1, <1>2, AppendFacts
<1>4. Loaded \subseteq Loaded'
  <2> SUFFICES ASSUME NEW k \in 1..Len(modules) PROVE Name(modules[k]) \in Loaded'
    BY DEF Loaded
  <2>1. k \in 1..Len(modules') /\ modules'[k] = modules[k]
    BY <1>3
  <2> QED
    BY <2>1 DEF Loaded
<1>5. Name(call) \in Loaded'
  <2>1. Len(modules) + 1 \in 1..Len(modules')
    BY <1>3
  <2> QED
    BY <1>3, <2>1 DEF Loaded
<1>6. /\ Names \ Loaded \in SUBSET Names /\ Names \ Loaded' \in SUBSET (Names \ Loaded)
      /\ Names \ Loaded' # Names \ Loaded
  BY <1>1, <1>4, <1>5
<1>7. IsFiniteSet(Names \ Loaded)
  BY <1>6, FilesAreFinite, FS_Subset
<1>8. Remaining'[2] < Remaining[2]
  BY <1>6, <1>7, FewerIn, RemainingIs, RemainingIsNext
<1>9. \A j \in 1..(2 - 1) : Remaining'[j] <= Remaining[j]
  BY <1>1, Stays
<1> QED
  BY <1>8, <1>9, StepLess

(* A root is taken.                                                        *)
LEMMA LessByRoot ==
    ASSUME TypeOK, TypeOK', NextRoot
    PROVE  Less(Remaining', Remaining)
<1>1. phase' = phase /\ modules' = modules /\ roots' \in SUBSET roots /\ roots' # roots
  BY DEF NextRoot
<1>2. roots \in SUBSET Files
  BY DEF TypeOK
<1>3. IsFiniteSet(roots)
  BY <1>2, FilesAreFinite, FS_Subset
<1>4. Remaining'[3] < Remaining[3]
  BY <1>1, <1>3, FewerIn, RemainingIs, RemainingIsNext
<1>5. \A j \in 1..(3 - 1) : Remaining'[j] <= Remaining[j]
  BY <1>1, Stays
<1> QED
  BY <1>4, <1>5, StepLess

(* A module is left.                                                       *)
LEMMA LessByLeave ==
    ASSUME TypeOK, TypeOK', Leave
    PROVE  Less(Remaining', Remaining)
<1>1. /\ phase' = phase /\ modules' = modules /\ roots' = roots /\ Busy
      /\ stack' = SubSeq(stack, 1, Len(stack) - 1)
  BY DEF Leave
<1>2. Len(stack) \in Nat \ {0} /\ Len(stack') = Len(stack) - 1
  BY <1>1, TopFacts, LeaveFacts
<1>3. Remaining'[4] < Remaining[4]
  BY <1>2, RemainingIs, RemainingIsNext
<1>4. \A j \in 1..(4 - 1) : Remaining'[j] <= Remaining[j]
  BY <1>1, Stays
<1> QED
  BY <1>3, <1>4, StepLess

(* An import is done.                                                      *)
LEMMA LessByImport ==
    ASSUME TypeOK, TypeOK', ImportAgain \/ Import
    PROVE  Less(Remaining', Remaining)
<1>1. /\ phase' = phase /\ modules' = modules /\ roots' = roots /\ Busy
      /\ Top.todo # <<>> /\ stack' = ImportDone
  BY DEF ImportAgain, Import
<1>2. /\ Len(stack) \in Nat \ {0} /\ Top.todo \in Seq(Names)
  BY <1>1, TopFacts
<1>3. Len(stack') = Len(stack) /\ stack'[Len(stack)].todo = Tail(Top.todo)
  BY <1>1, ImportDoneFacts
<1>4. Top'.todo = Tail(Top.todo)
  BY <1>3 DEF Top
<1>5. Len(Top.todo) \in Nat \ {0} /\ Len(Tail(Top.todo)) = Len(Top.todo) - 1
  BY <1>1, <1>2, TailFacts
<1>6. stack # <<>> /\ stack' # <<>>
  BY <1>2, <1>3
<1>7. Remaining'[5] < Remaining[5]
  BY <1>4, <1>5, <1>6, RemainingIs, RemainingIsNext
<1>8. Remaining'[4] <= Remaining[4]
  BY <1>2, <1>3, RemainingIs, RemainingIsNext
<1>9. \A j \in 1..(5 - 1) : Remaining'[j] <= Remaining[j]
  BY <1>1, <1>8, Stays
<1> QED
  BY <1>7, <1>9, StepLess

(* A phase ends.                                                           *)
LEMMA LessByPhase ==
    ASSUME TypeOK, TypeOK', FinishLoading \/ CheckNames
    PROVE  Less(Remaining', Remaining)
<1>1. PhasesLeft(phase') < PhasesLeft(phase)
  BY DEF FinishLoading, CheckNames, PhasesLeft
<1>2. Remaining'[1] < Remaining[1]
  BY <1>1, RemainingIs, RemainingIsNext
<1>3. \A j \in 1..(1 - 1) : Remaining'[j] <= Remaining[j]
  OBVIOUS
<1> QED
  BY <1>2, <1>3, StepLess

(* Every step of the loader uses something up, whatever imports what: a root,   *)
(* a module that is not loaded, an import, an activation, a call or a phase.   *)
THEOREM EveryStepUsesUpCorrect == Spec => EveryStepUsesUp
<1>1. TypeOK /\ TypeOK' /\ [Next]_vars => [Less(Remaining', Remaining)]_vars
  <2> SUFFICES ASSUME TypeOK, TypeOK', Next, ~ (UNCHANGED vars)
               PROVE  Less(Remaining', Remaining)
    OBVIOUS
  <2> QED
    BY LessByAnswer, LessByEnter, LessByRoot, LessByLeave, LessByImport, LessByPhase
       DEF Next, LoadModule, FollowImports, Ended
<1> QED
  BY <1>1, TypeCorrect, PTL DEF Spec, EveryStepUsesUp

(* The values of Remaining are six numbers, and no descent through them is     *)
(* endless: any set of them has one than which none in the set is less.  So    *)
(* a load takes finitely many steps, and the recursion of load_module is not   *)
(* endless.                                                                 *)
THEOREM NoEndlessDescent ==
    /\ Spec => [](Remaining \in [1..6 -> Nat])
    /\ \A S \in SUBSET [1..6 -> Nat] :
          S # {} => \E x \in S : \A y \in S : ~ Less(y, x)
<1>1. TypeOK => Remaining \in [1..6 -> Nat]
  <2> SUFFICES ASSUME TypeOK PROVE Remaining \in [1..6 -> Nat]
    OBVIOUS
  <2>1. \A j \in 1..6 : Remaining[j] \in Nat
    BY RemainingType
  <2>2. Remaining = [j \in 1..6 |-> Remaining[j]]
    BY DEF Remaining
  <2> QED
    BY <2>1, <2>2
<1>2. Spec => [](Remaining \in [1..6 -> Nat])
  BY <1>1, TypeCorrect, PTL
<1>3. ASSUME NEW S \in SUBSET [1..6 -> Nat], S # {}
      PROVE  \E x \in S : \A y \in S : ~ Less(y, x)
  <2> DEFINE R == OpToRel(<, Nat)
             L == LexProductOrdering(R, Nat, 6)
  <2>1. \A j, k \in Nat : j < k => <<j, k>> \in R
    BY DEF OpToRel
  <2>2. IsWellFoundedOn(R, Nat)
    BY NatLessThanWellFounded
  <2> HIDE DEF R
  <2>3. IsWellFoundedOn(L, [1..6 -> Nat])
    BY <2>2, WFLexProductOrdering
  <2>4. ASSUME NEW x \in S, NEW y \in S, Less(y, x) PROVE <<y, x>> \in L
    <3>1. PICK k \in 1..6 : y[k] < x[k] /\ \A j \in 1..(k - 1) : y[j] = x[j]
      BY <2>4 DEF Less
    <3>2. <<y[k], x[k]>> \in R
      BY <2>1, <3>1
    <3> QED
      BY <3>1, <3>2 DEF LexProductOrdering
  <2> HIDE DEF L
  <2>5. PICK x \in S : \A y \in S : ~ (<<y, x>> \in L)
    BY <1>3, <2>3, WFMin
  <2> QED
    BY <2>4, <2>5
<1> QED
  BY <1>2, <1>3

=============================================================================
