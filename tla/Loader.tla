-------------------------------- MODULE Loader --------------------------------
(***************************************************************************)
(* The module loader (src/crates/lullaby_loader/src/loader.rs): the entry      *)
(* file of a program, or every file of a library project, is read, parsed and  *)
(* followed through its imports depth first; then the names of the modules      *)
(* are checked and the modules are merged into one program.                   *)
(*                                                                         *)
(* A file is a pair <<directory, module name>>; both are numbers, a name's     *)
(* being its place in the order of the file names.  What a file says is kept    *)
(* as far as the loader looks at it: whether it can be read and parsed, its     *)
(* imports, the top-level names it declares and exports, and the names it uses, *)
(* each with how: "call" stands for every place the collectors look at (calls, *)
(* literals, spawned actors, types), "value" for those they do not (a name     *)
(* read as a variable, an actor's handlers, a constant's initialiser).          *)
(* A diagnostic is kept without its wording and its span.                      *)
(*                                                                         *)
(* An operator named Mutant... is a deliberate mistake in the operator that   *)
(* follows it; no action uses it.                                           *)
(***************************************************************************)
EXTENDS Integers, Sequences, Functions, FiniteSets

CONSTANTS
    Dirs, Names,  \* directories and module names
    Decls,        \* names of top-level declarations
    Projects      \* the projects that may be loaded

Files == Dirs \X Names
Library == <<>>    \* no entry: every file of the search directories is loaded
Source == {s \in [state : {"absent", "unreadable", "broken", "good"},
                  imports : Seq(Names),
                  declares : SUBSET Decls, exports : SUBSET Decls,
                  uses : SUBSET ({"call", "value"} \X Decls)] : s.exports \subseteq s.declares}
Project == [source : [Files -> Source],
            search : Seq(Dirs),    \* where imports are searched after the own directory
            entry : Files \cup {Library}]

ASSUME ProjectsAssumption == \A p \in Projects : p \in Project

(* A disk holds finitely many files, and a name is its place in their order.  *)
ASSUME NamesAssumption ==
    IsFiniteSet(Dirs) /\ IsFiniteSet(Names) /\ Names \subseteq Nat

VARIABLES
    project,      \* the files, which do not change during a load
    roots,        \* files load_module has yet to be called with from outside
    call,         \* the file load_module is called with, or Nothing
    stack,        \* activations of load_module: the module, the imports it has left
    modules,      \* the modules loaded, in order
    visiting,     \* names of the modules being loaded, for the detection of cycles
    diagnostics,
    phase,
    left          \* history: the modules whose imports are done, in order

vars == <<project, roots, call, stack, modules, visiting, diagnostics, phase, left>>

Nothing == <<>>
Dir(file)  == file[1]
Name(file) == file[2]
Text(file) == project.source[file]

Codes == {"L0391", "L0392-private", "L0392-not-imported", "L0393", "L0397", "syntax"}

TypeOK ==
    /\ project \in Project
    /\ roots \subseteq Files
    /\ call \in Files \cup {Nothing}
    /\ stack \in Seq([file : Files, todo : Seq(Names)])
    /\ modules \in Seq(Files)
    /\ visiting \subseteq Names
    /\ diagnostics \subseteq [code : Codes, file : Files, name : Names \cup Decls]
    /\ phase \in {"load", "check", "rejected", "accepted"}
    /\ left \in Seq(Names)

Exists(file) == Text(file).state # "absent"

MutantRoots == {project.entry}

(* load_library_project lists the files of each directory (a directory that      *)
(* cannot be listed counts as one without files).                            *)
Roots == IF project.entry # Library
         THEN {project.entry}
         ELSE {f \in Files : Dir(f) \in Range(project.search) /\ Exists(f)}

Init ==
    /\ project \in Projects /\ roots = Roots
    /\ call = Nothing /\ stack = <<>> /\ modules = <<>> /\ visiting = {}
    /\ diagnostics = {} /\ phase = "load" /\ left = <<>>

(***************************************************************************)
(* load_module                                                             *)
(***************************************************************************)
Loaded == {Name(modules[k]) : k \in 1..Len(modules)}

Complain(code, file, name) ==
    diagnostics' = diagnostics \cup {[code |-> code, file |-> file, name |-> name]}

(* Directory by directory, and in each in the order of the names.             *)
Earlier(f, g) ==
    \/ \E k \in DOMAIN project.search :
          /\ project.search[k] = Dir(f)
          /\ \A j \in 1..k : project.search[j] # Dir(g)
    \/ Dir(f) = Dir(g) /\ Name(f) < Name(g)

NextRoot ==
    /\ phase = "load" /\ call = Nothing /\ stack = <<>>
    /\ \E f \in roots :
          /\ \A g \in roots : ~Earlier(g, f)
          /\ call' = f /\ roots' = roots \ {f}
    /\ UNCHANGED <<project, stack, modules, visiting, diagnostics, phase, left>>

Called == phase = "load" /\ call # Nothing /\ call' = Nothing

(* A module is known by its name, whatever directory it was found in.          *)
Already(name) == name \in Loaded

SkipLoaded ==
    /\ Called /\ Already(Name(call))
    /\ UNCHANGED <<project, roots, stack, modules, visiting, diagnostics, phase, left>>

Unreadable ==
    /\ Called /\ ~Already(Name(call))
    /\ Text(call).state \in {"absent", "unreadable"}
    /\ Complain("L0397", call, Name(call))
    /\ UNCHANGED <<project, roots, stack, modules, visiting, phase, left>>

SyntaxErrors ==
    /\ Called /\ ~Already(Name(call)) /\ Text(call).state = "broken"
    /\ Complain("syntax", call, Name(call))
    /\ UNCHANGED <<project, roots, stack, modules, visiting, phase, left>>

Enter ==
    /\ Called /\ ~Already(Name(call)) /\ Text(call).state = "good"
    /\ visiting' = visiting \cup {Name(call)}
    /\ modules' = Append(modules, call)
    /\ stack' = Append(stack, [file |-> call, todo |-> Text(call).imports])
    /\ UNCHANGED <<project, roots, diagnostics, phase, left>>

(* The loop over the imports of the module on top of the stack.               *)
Busy == phase = "load" /\ call = Nothing /\ stack # <<>>
Top == stack[Len(stack)]
NextImport == Head(Top.todo)
MutantImportDone == stack

ImportDone == [stack EXCEPT ![Len(stack)] = [file |-> Top.file, todo |-> Tail(Top.todo)]]

MutantCyclic(name) == name = Name(Top.file)

Cyclic(name) == name \in visiting

ImportAgain ==
    /\ Busy /\ Top.todo # <<>> /\ Cyclic(NextImport)
    /\ Complain("L0393", Top.file, NextImport)
    /\ stack' = ImportDone
    /\ UNCHANGED <<project, roots, call, modules, visiting, phase, left>>

(* The own directory first, then the first search directory that has the       *)
(* module; if none has it, the own directory for the error message.           *)
Resolve(name, dir) ==
    LET found == {k \in DOMAIN project.search : Exists(<<project.search[k], name>>)}
    IN IF Exists(<<dir, name>>) \/ found = {}
       THEN <<dir, name>>
       ELSE <<project.search[CHOOSE k \in found : \A j \in found : k <= j], name>>

Import ==
    /\ Busy /\ Top.todo # <<>> /\ ~Cyclic(NextImport)
    /\ call' = Resolve(NextImport, Dir(Top.file))
    /\ stack' = ImportDone
    /\ UNCHANGED <<project, roots, modules, visiting, diagnostics, phase, left>>

MutantUnvisited(name) == visiting

Unvisited(name) == visiting \ {name}

Leave ==
    /\ Busy /\ Top.todo = <<>>
    /\ visiting' = Unvisited(Name(Top.file))
    /\ stack' = SubSeq(stack, 1, Len(stack) - 1)
    /\ left' = Append(left, Name(Top.file))
    /\ UNCHANGED <<project, roots, call, modules, diagnostics, phase>>

(* Structural errors end the load before the names are looked at.             *)
FinishLoading ==
    /\ phase = "load" /\ call = Nothing /\ stack = <<>> /\ roots = {}
    /\ phase' = IF diagnostics = {} THEN "check" ELSE "rejected"
    /\ UNCHANGED <<project, roots, call, stack, modules, visiting, diagnostics, left>>

(***************************************************************************)
(* check_duplicate_names and check_visibility                               *)
(***************************************************************************)
Declares(k) == Text(modules[k]).declares
Imports(k)  == Range(Text(modules[k]).imports)

(* Names that an earlier module declares as well.                            *)
Duplicates(k) == {d \in Declares(k) : \E j \in 1..(k - 1) : d \in Declares(j)}

MutantVisible(k) == UNION {Declares(j) : j \in 1..Len(modules)}

Visible(k) ==
    Declares(k) \cup {d \in Decls : \E j \in 1..Len(modules) :
                         Name(modules[j]) \in Imports(k) /\ d \in Text(modules[j]).exports}

(* collect_expr_references passes over a name read as a variable.            *)
Collected(k) == {d \in Decls : <<"call", d>> \in Text(modules[k]).uses}

(* Names that are declared somewhere, and not where module k could see them.   *)
Invisible(k) ==
    {d \in Collected(k) \ Visible(k) : \E j \in 1..Len(modules) : d \in Declares(j)}

(* The last module that declares d, whose exports decide on the message.       *)
Owner(d) == CHOOSE k \in 1..Len(modules) :
                d \in Declares(k) /\ \A j \in (k + 1)..Len(modules) : d \notin Declares(j)

WhyInvisible(d) ==
    IF d \in Text(modules[Owner(d)]).exports THEN "L0392-not-imported" ELSE "L0392-private"

DuplicateNames(k) ==
    {[code |-> "L0391", file |-> modules[k], name |-> d] : d \in Duplicates(k)}
InvisibleNames(k) ==
    {[code |-> WhyInvisible(d), file |-> modules[k], name |-> d] : d \in Invisible(k)}

CheckNames ==
    /\ phase = "check"
    /\ diagnostics' = UNION {DuplicateNames(k) \cup InvisibleNames(k) : k \in 1..Len(modules)}
    /\ phase' = IF diagnostics' = {} THEN "accepted" ELSE "rejected"
    /\ UNCHANGED <<project, roots, call, stack, modules, visiting, left>>

(* The command has its program or its diagnostics.                          *)
Ended == phase \in {"accepted", "rejected"} /\ UNCHANGED vars

LoadModule == SkipLoaded \/ Unreadable \/ SyntaxErrors \/ Enter
FollowImports == ImportAgain \/ Import \/ Leave

Next == NextRoot \/ LoadModule \/ FollowImports \/ FinishLoading \/ CheckNames \/ Ended

Spec == Init /\ [][Next]_vars

(* The loader is one loop without waiting.                                  *)
FairSpec == Spec /\ WF_vars(Next)
=============================================================================
