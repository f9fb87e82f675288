------------------------------- MODULE MCLoader -------------------------------
(***************************************************************************)
(* Instances of the loader for TLC: small projects, every one of a kind.      *)
(***************************************************************************)
EXTENDS LoaderProperties, SequencesExt

File(state, imports, declares, exports, uses) ==
    [state |-> state, imports |-> imports,
     declares |-> declares, exports |-> exports, uses |-> uses]

NoFile(state) == File(state, <<>>, {}, {}, {})
Bare(imports) == File("good", imports, {}, {}, {})

(* Projects whose files are chosen among some; the other files are absent.     *)
Projecting(files, choice, searches, entries) ==
    [source : {[f \in Files |-> IF f \in files THEN s[f] ELSE NoFile("absent")] :
                  s \in [files -> choice]},
     search : searches, entry : entries]

(* One directory, every graph of up to two imports a module.                 *)
ImportProjects ==
    Projecting({1} \X {1, 2, 3},
               {NoFile("absent"), NoFile("broken")} \cup {Bare(s) : s \in BoundedSeq({1, 2, 3}, 2)},
               {<<1>>}, {<<1, 1>>, Library})

(* Two directories, where one name may stand for two files.                   *)
HomonymProjects ==
    Projecting({1, 2} \X {1, 2},
               {NoFile("absent"), NoFile("unreadable"),
                Bare(<<>>), Bare(<<1>>), Bare(<<2>>), Bare(<<1, 2>>)},
               {<<>>, <<2, 1>>}, {<<1, 1>>, Library})

(* One directory without cycles, and one name declared, exported and used.    *)
Declaring(imports) ==
    {File("good", s, ds[1], ds[2], u) :
        s \in imports, ds \in {<<{}, {}>>, <<{1}, {}>>, <<{1}, {1}>>},
        u \in SUBSET ({"call", "value"} \X {1})}

NameProjects ==
    [source : {[f \in Files |-> CASE f = <<1, 1>> -> a [] f = <<1, 2>> -> b [] f = <<1, 3>> -> c
                                  [] OTHER -> NoFile("absent")] :
                  a \in Declaring({<<2>>, <<2, 3>>}), b \in Declaring({<<>>, <<3>>}),
                  c \in Declaring({<<>>})},
     search : {<<>>}, entry : {<<1, 1>>}]

AllProjects == ImportProjects \cup HomonymProjects \cup NameProjects
=============================================================================
