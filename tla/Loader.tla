------------------------------- MODULE Loader -------------------------------
(***************************************************************************)
(* Loading modules and linking what they define (vm/loader.cc).            *)
(*                                                                         *)
(* A program is a set of modules.  A module has imports and a body of info *)
(* tables and static closures, in the order of the file.  An item holds    *)
(* references to others: the literals of the code of an info table, the    *)
(* payload of a closure.  A location <<m, i, s>> is the word of memory of  *)
(* reference s of item i of module m; word 0 of a closure is its info_.    *)
(*                                                                         *)
(* A name that is referred to before it is loaded has a dummy entry in     *)
(* infoTables_ or closures_, from which the locations to be filled in are  *)
(* linked through the locations themselves.  A dummy info table is known   *)
(* by its type, a dummy closure by having NULL for its info_.              *)
(*                                                                         *)
(* Not modelled: the destructor and the printing functions, and lookups    *)
(* of closures between two loads (a lookup of an unknown name leaves a     *)
(* NULL entry that checkNoForwardRefs does not expect).                    *)
(***************************************************************************)
EXTENDS Naturals, Sequences, FiniteSets, SequencesExt

CONSTANTS
  Programs,   \* the programs: records with the fields imports and items,
              \* functions of the module
  MaxLoads    \* bound on the calls of loadModule

\* The program's files are finite, import each other, and no two items of one
\* kind have the same name (names are qualified by the module).
ASSUME LoaderAssumption ==
  \A p \in Programs :
    /\ \A m \in DOMAIN p.items :
         /\ p.imports[m] \in Seq(DOMAIN p.items)
         /\ p.items[m] \in Seq(Range(p.items[m]))
         /\ \A x \in Range(p.items[m]) :
              /\ x.kind \in {"info", "clos"}
              /\ x.refs \in Seq(Range(x.refs))
              /\ \A r \in Range(x.refs) :
                   r = <<r[1], r[2]>> /\ r[1] \in {"info", "clos", "word"}
    /\ \A m1, m2 \in DOMAIN p.items :
         \A i1 \in DOMAIN p.items[m1], i2 \in DOMAIN p.items[m2] :
           /\ p.items[m1][i1].kind = p.items[m2][i2].kind
           /\ p.items[m1][i1].name = p.items[m2][i2].name
           => m1 = m2 /\ i1 = i2

Null == <<"null">>
RealTable == <<"real">>
Addr(k, n) == <<"addr", k, n>>
Loc(m, i, s) == <<"loc", m, i, s>>
IsLoc(w) == w[1] = "loc"

VARIABLES
  prog,       \* the program
  loaded,     \* loadedModules_
  calls,      \* the activations of loadModule, the innermost last: the
              \*   module, the imports done, the items done
  itab,       \* infoTables_: for the names it has, RealTable or the dummy's next
  ctab,       \* closures_: for the names it has, the object: that of a
              \*   dummy or that of the closure, by its address in memory
  mem,        \* the words of memory
  loads,      \* the modules that were asked for
  ok          \* the result of the last loadModule

loaderVars == <<prog, loaded, calls, itab, ctab, mem, loads, ok>>

Item(m, i) == prog.items[m][i]
Modules == DOMAIN prog.items

\* The word at a location set to a value; it may be the first one there.
Store(f, l, w) == [x \in DOMAIN f \cup {l} |-> IF x = l THEN w ELSE f[x]]

Dummy(n) == <<"dummy", n>>
Info(s, cl) == IF cl[1] = "dummy" THEN Null ELSE s.mem[Loc(cl[2], cl[3], 0)]
Payload0(cl) == IF cl[1] = "dummy" THEN cl ELSE Loc(cl[2], cl[3], 1)

-----------------------------------------------------------------------------
(***************************************************************************)
(* References.  s is a record of the tables and the memory.                *)
(***************************************************************************)

loadInfoTableReference(s, n, dest) ==
  IF n \notin DOMAIN s.itab
  THEN [s EXCEPT !.itab = Store(s.itab, n, dest), !.mem = Store(s.mem, dest, Null)]
  ELSE IF s.itab[n] # RealTable
  THEN [s EXCEPT !.itab[n] = dest, !.mem = Store(s.mem, dest, s.itab[n])]
  ELSE [s EXCEPT !.mem = Store(s.mem, dest, Addr("info", n))]

loadClosureReference(s, n, dest) ==
  IF n \notin DOMAIN s.ctab
  THEN [s EXCEPT !.ctab = Store(s.ctab, n, Dummy(n)),
                 !.mem = Store(Store(s.mem, Dummy(n), dest), dest, Null)]
  ELSE LET cl == s.ctab[n] IN
       IF Info(s, cl) = Null
       THEN [s EXCEPT !.mem = Store(Store(s.mem, dest, s.mem[Payload0(cl)]), Payload0(cl), dest)]
       ELSE [s EXCEPT !.mem = Store(s.mem, dest, Addr("clos", n))]

\* A literal or a word of the payload: a reference, or data.
loadLiteral(s, ref, dest) ==
  CASE ref[1] = "info" -> loadInfoTableReference(s, ref[2], dest)
    [] ref[1] = "clos" -> loadClosureReference(s, ref[2], dest)
    [] OTHER -> [s EXCEPT !.mem = Store(s.mem, dest, ref)]

\* The code's literals or the closure's payload, in order.
loadRefs(s, m, i) ==
  LET refs == Item(m, i).refs
      upTo[j \in 0..Len(refs)] ==
        IF j = 0 THEN s ELSE loadLiteral(upTo[j - 1], refs[j], Loc(m, i, j))
  IN upTo[Len(refs)]

\* The locations linked from w on.  No list is longer than memory.
Linked(s, w) ==
  LET walk[n \in 0..Cardinality(DOMAIN s.mem)] ==
        IF n = 0 THEN {w} ELSE {s.mem[l] : l \in {x \in walk[n - 1] : IsLoc(x)}}
  IN {l \in UNION {walk[n] : n \in DOMAIN walk} : IsLoc(l)}

\* Every location of the list is set to the address.
FixFirst(s, w, a) == [s EXCEPT !.mem = [l \in DOMAIN s.mem |-> IF l = w THEN a ELSE s.mem[l]]]
Fix(s, w, a) ==
  LET ls == Linked(s, w) IN
  [s EXCEPT !.mem = [l \in DOMAIN s.mem |-> IF l \in ls THEN a ELSE s.mem[l]]]

fixInfoTableForwardReference(s, n) ==
  IF n \in DOMAIN s.itab THEN Fix(s, s.itab[n], Addr("info", n)) ELSE s

\* The dummy is deleted.
fixClosureForwardReference(s, n) ==
  IF n \in DOMAIN s.ctab
  THEN LET t == Fix(s, s.mem[Payload0(s.ctab[n])], Addr("clos", n))
       IN [t EXCEPT !.mem = [l \in DOMAIN t.mem \ {Dummy(n)} |-> t.mem[l]]]
  ELSE s

\* An info table: the literals of its code first.
loadInfoTable(s, m, i) ==
  LET n == Item(m, i).name
      t == fixInfoTableForwardReference(loadRefs(s, m, i), n)
  IN [t EXCEPT !.itab = Store(t.itab, n, RealTable)]

\* A static closure: its info_, its payload, then the references to it.
loadClosure(s, m, i) ==
  LET n == Item(m, i).name
      t == loadInfoTableReference(s, Item(m, i).info, Loc(m, i, 0))
      u == fixClosureForwardReference(loadRefs(t, m, i), n)
  IN [u EXCEPT !.ctab = Store(u.ctab, n, <<"real", m, i>>)]

\* The two loops of loadModuleBody, one item of the file.
loadItem(s, m, i) ==
  IF Item(m, i).kind = "info" THEN loadInfoTable(s, m, i) ELSE loadClosure(s, m, i)

\* No entry of infoTables_ is a dummy, none of closures_ has a NULL info_.
checkNoForwardRefs(s) ==
  /\ \A n \in DOMAIN s.itab : s.itab[n] = RealTable
  /\ \A n \in DOMAIN s.ctab : Info(s, s.ctab[n]) # Null

-----------------------------------------------------------------------------
(***************************************************************************)
(* loadModule.                                                             *)
(***************************************************************************)

Tables == [itab |-> itab, ctab |-> ctab, mem |-> mem]

LoaderInit ==
  /\ prog \in Programs
  /\ loaded = {} /\ calls = << >>
  /\ itab = << >> /\ ctab = << >> /\ mem = << >>
  /\ loads = << >> /\ ok = FALSE

\* The file of m is found, opened and has a proper header: the module counts
\* as loaded before its imports and its body are.
OpenModule(m, cs) ==
  /\ m \notin loaded
  /\ loaded' = loaded \cup {m}
  /\ calls' = Append(cs, [module |-> m, imports |-> 0, items |-> 0])

Caller == Len(calls)
LastImport(c) == c.imports = Len(prog.imports[c.module])
LastItem(c) == c.items = Len(prog.items[c.module])

\* The program asks for a module; it may already be there, or its file may
\* not be found or not be good, now or at any later attempt.
LoadModule(m) ==
  /\ calls = << >> /\ Len(loads) < MaxLoads
  /\ loads' = Append(loads, m)
  /\ \/ m \in loaded /\ ok' = checkNoForwardRefs(Tables) /\ UNCHANGED <<loaded, calls>>
     \/ OpenModule(m, calls) /\ UNCHANGED ok
     \/ m \notin loaded /\ ok' = FALSE /\ UNCHANGED <<loaded, calls>>
  /\ UNCHANGED <<prog, itab, ctab, mem>>

\* loadModule(imports_[i]): what it returns is ignored.
Import ==
  /\ calls # << >> /\ ~ LastImport(calls[Caller])
  /\ LET c == calls[Caller]
         m == prog.imports[c.module][c.imports + 1]
         next == [calls EXCEPT ![Caller].imports = @ + 1]
     IN \/ OpenModule(m, next)
        \/ UNCHANGED loaded /\ calls' = next
  /\ UNCHANGED <<prog, itab, ctab, mem, loads, ok>>

\* One item of the body.
LoadItem ==
  /\ calls # << >> /\ LastImport(calls[Caller]) /\ ~ LastItem(calls[Caller])
  /\ LET c == calls[Caller]
         s == loadItem(Tables, c.module, c.items + 1)
     IN itab' = s.itab /\ ctab' = s.ctab /\ mem' = s.mem
  /\ calls' = [calls EXCEPT ![Caller].items = @ + 1]
  /\ UNCHANGED <<prog, loaded, loads, ok>>

\* The end of a call, and of the outermost one the check for what is missing.
ReturnModule ==
  /\ calls # << >> /\ LastImport(calls[Caller]) /\ LastItem(calls[Caller])
  /\ calls' = SubSeq(calls, 1, Caller - 1)
  /\ ok' = IF Caller = 1 THEN checkNoForwardRefs(Tables) ELSE ok
  /\ UNCHANGED <<prog, loaded, itab, ctab, mem, loads>>

LoaderNext ==
  \/ \E m \in Modules : LoadModule(m)
  \/ Import
  \/ LoadItem
  \/ ReturnModule

LoaderSpec == LoaderInit /\ [][LoaderNext]_loaderVars

-----------------------------------------------------------------------------
(***************************************************************************)
(* Properties.                                                             *)
(***************************************************************************)

\* The items that are in memory.
Done == {d \in UNION {{m} \X (1..Len(prog.items[m])) : m \in loaded} :
           \A c \in Range(calls) : c.module = d[1] => d[2] <= c.items}
Defined(k, n) == \E d \in Done : Item(d[1], d[2]).kind = k /\ Item(d[1], d[2]).name = n

\* The words of an item by what they are: <<kind, name>>, or data.
Content(x) ==
  IF x.kind = "info" THEN x.refs
  ELSE [j \in 0..Len(x.refs) |-> IF j = 0 THEN <<"info", x.info>> ELSE x.refs[j]]
LoadedWords == UNION {{<<Loc(d[1], d[2], j), Content(Item(d[1], d[2]))[j]>> :
                   j \in DOMAIN Content(Item(d[1], d[2]))} : d \in Done}
Names == {w[2] : w \in {v \in LoadedWords : v[2][1] \in {"info", "clos"}}}
Refs(r) == {w[1] : w \in {v \in LoadedWords : v[2] = r}}

\* "Once we know the real address we have to update all of them": every word
\* that refers to something loaded holds its address; the words that refer
\* to something missing are on the list of its dummy, all of them and no
\* other, and the list ends; words of data keep their value.  When loadModule
\* returns true the module is loaded and nothing it or another one refers to
\* is missing (loader.cc, Forward References and checkNoForwardRefs).
ReferencesExact ==
  /\ \A r \in Names :
       IF Defined(r[1], r[2])
       THEN \A l \in Refs(r) : mem[l] = Addr(r[1], r[2])
       ELSE LET first == IF r[1] = "info" THEN itab[r[2]] ELSE mem[Dummy(r[2])]
            IN /\ Linked(Tables, first) = Refs(r)
               /\ Cardinality({l \in Refs(r) : mem[l] = Null}) = 1
  /\ \A w \in LoadedWords : w[2][1] = "word" => mem[w[1]] = w[2]
  /\ ok /\ calls = << >> => /\ Last(loads) \in loaded
                            /\ \A r \in Names : Defined(r[1], r[2])

\* The same of a load that was successful, for a program whose static closures
\* may be loaded before their info tables: "This can happen when loading
\* recursive groups of modules" (loader.cc, loadClosure).
LoadedExact ==
  ok /\ calls = << >> =>
    \A w \in LoadedWords : mem[w[1]] = IF w[2][1] = "word" THEN w[2] ELSE Addr(w[2][1], w[2][2])
=============================================================================
