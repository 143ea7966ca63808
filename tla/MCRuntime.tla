----------------------------- MODULE MCRuntime ------------------------------
(***************************************************************************)
(* The parts of the runtime system below the program, one of which is at   *)
(* work in a behaviour while the others rest: calls on the stack, large    *)
(* objects, the loader, regions and blocks, the closures the machine makes *)
(* for itself, the reading of instructions.                                *)
(***************************************************************************)
EXTENDS GenericApply, LargeObjects, Loader, Storage, MiscClosures, Instructions

VARIABLE part

\* Programs of a binary function and a thunk: a call passes too few
\* arguments, or too many, which with that of a partial application are more
\* than a mask has bits.
MCArity == [g |-> 2]

\* Pointers and a word that is none.
MCArgList == LET t == <<"thunk", "t">> IN
             {<<t>>, <<Unboxed, t, t>>}

\* A call passes too few arguments, or enough.
MCFewArgs == LET t == <<"thunk", "t">> IN {<<t>>, <<Unboxed, t>>}

\* Frames as large as the arguments, and with one register more.
MCFrameSize == [g |-> 2, t |-> 2]
MCLargeFrame == [g |-> 3, t |-> 2]

MCKindOrder == <<"static", "info", "closures">>

InfoItem(n, r) == [kind |-> "info", name |-> n, refs |-> r]
ClosItem(n, i, r) == [kind |-> "clos", name |-> n, info |-> i, refs |-> r]
Data == <<"word", 7>>
InfoRef(n) == <<"info", n>>
ClosRef(n) == <<"clos", n>>

\* Two modules that import each other, with references in every direction.
MCPairs ==
  LET refs == {InfoRef("b1"), ClosRef("a2"), ClosRef("b2"), Data} IN
  {[imports |-> [A |-> <<"B">>, B |-> <<"A">>],
    items |-> [A |-> <<InfoItem("a1", <<p>>), ClosItem("a2", "a1", <<q, Data>>)>>,
               B |-> <<InfoItem("b1", <<r>>), ClosItem("b2", "b1", <<s, t>>)>>]] :
      p \in refs, q \in refs, r \in refs \cup {InfoRef("a1")}, s \in refs,
      t \in {ClosRef("a2"), ClosRef("b2")}}

\* Three modules; several references to one name before it is loaded.
MCTriple ==
  [imports |-> [A |-> <<"B", "C">>, B |-> <<"A">>, C |-> <<"B">>],
   items |-> [A |-> <<InfoItem("a1", <<InfoRef("b1"), ClosRef("c2"), Data>>),
                      InfoItem("a2", <<InfoRef("a2"), ClosRef("a3")>>),
                      ClosItem("a3", "a1", <<ClosRef("a3"), ClosRef("b2")>>)>>,
              B |-> <<InfoItem("b1", <<InfoRef("a1"), InfoRef("a1"), ClosRef("b2")>>),
                      ClosItem("b2", "b1", <<Data, ClosRef("a3")>>)>>,
              C |-> <<InfoItem("c1", <<InfoRef("a2"), InfoRef("b1")>>),
                      ClosItem("c2", "c1", <<ClosRef("a3"), ClosRef("a3")>>)>>]]
MCPrograms == MCPairs \cup {MCTriple}

\* A constructor's info table is in the module that is loaded second.
MCRecursive ==
  {[imports |-> [A |-> <<"B">>, B |-> <<"A">>],
    items |-> [A |-> <<InfoItem("con", << >>)>>,
               B |-> <<InfoItem("b", << >>), ClosItem("x", "con", <<Data>>),
                       ClosItem("y", "b", <<ClosRef("x")>>)>>]]}

allVars == <<part, applyVars, largeVars, loaderVars, storageVars, miscVars, insVars>>

NoProgram == [imports |-> << >>, items |-> << >>]
LoaderIdle ==
  /\ prog = NoProgram /\ loaded = {} /\ calls = << >> /\ itab = << >> /\ ctab = << >>
  /\ mem = << >> /\ loads = << >> /\ ok = FALSE

Rest == ApplyInit /\ LargeInit /\ StorageInit /\ MiscInit /\ InsInit
LoadInit == part = "load" /\ LoaderInit /\ Rest
ApplyOnlyInit == part = "apply" /\ LoaderIdle /\ Rest
LargeOnlyInit == part = "large" /\ LoaderIdle /\ Rest

RuntimeInit ==
  \/ LoadInit
  \/ part \in {"apply", "large", "store", "misc", "read"} /\ LoaderIdle /\ Rest

RuntimeNext ==
  /\ UNCHANGED part
  /\ \/ part = "apply" /\ ApplyNext
        /\ UNCHANGED <<largeVars, loaderVars, storageVars, miscVars, insVars>>
     \/ part = "large" /\ LargeNext
        /\ UNCHANGED <<applyVars, loaderVars, storageVars, miscVars, insVars>>
     \/ part = "load" /\ LoaderNext
        /\ UNCHANGED <<applyVars, largeVars, storageVars, miscVars, insVars>>
     \/ part = "store" /\ StorageNext
        /\ UNCHANGED <<applyVars, largeVars, loaderVars, miscVars, insVars>>
     \/ part = "misc" /\ MiscNext
        /\ UNCHANGED <<applyVars, largeVars, loaderVars, storageVars, insVars>>
     \/ part = "read" /\ InsNext
        /\ UNCHANGED <<applyVars, largeVars, loaderVars, storageVars, miscVars>>

RuntimeSpec == RuntimeInit /\ [][RuntimeNext]_allVars

=============================================================================
