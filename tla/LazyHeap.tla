------------------------------ MODULE LazyHeap ------------------------------
(***************************************************************************)
(* What the storage manager promises to the program that runs on it.       *)
(*                                                                         *)
(* The program sees a graph of closures.  A closure is a node with an      *)
(* identity, a kind and pointer fields that name other closures.  The      *)
(* program holds closures in its slots (the live stack slots) and in the   *)
(* CAFs it has evaluated; it builds closures, follows fields, and          *)
(* overwrites a thunk by its value.  There are no addresses, blocks or     *)
(* indirections here, and no collector: the only thing the storage manager *)
(* may do on its own is Collect, which forgets closures that neither the   *)
(* program nor a remaining closure refers to.                              *)
(*                                                                         *)
(* CopyingGC is shown to implement this module.                            *)
(***************************************************************************)
EXTENDS Naturals

CONSTANTS
  Id,       \* identities of dynamic closures
  Slot,     \* the program's slots
  Caf,      \* statically allocated thunks
  Value,    \* statically allocated constructors and functions
  Field,    \* payload positions
  Null      \* no closure (a dead slot, a non-pointer word)

VARIABLES
  root,     \* the closure held by each slot
  caf,      \* the value of each CAF, Null while it is not evaluated
  nodes     \* the closures that exist: records with id, type and fields

vars == <<root, caf, nodes>>

HNF == {"CONSTR", "FUN", "PAP"}
Type == HNF \cup {"THUNK"}
Static == Caf \cup Value
Name == Id \cup Static
Node == [id : Id, type : Type, fields : [Field -> Name \cup {Null}]]

Init ==
  /\ root = [s \in Slot |-> Null]
  /\ caf = [c \in Caf |-> Null]
  /\ nodes = {}

\* A new closure whose fields are taken from slots.
New(s, ty, args) ==
  /\ \A f \in Field : args[f] # Null => root[args[f]] # Null
  /\ \E i \in Id :
       /\ \A n \in nodes : n.id # i
       /\ nodes' = nodes \cup
            {[id |-> i, type |-> ty,
              fields |-> [f \in Field |-> IF args[f] = Null THEN Null
                                          ELSE root[args[f]]]]}
       /\ root' = [root EXCEPT ![s] = i]
  /\ UNCHANGED caf

\* The slot receives the closure in a field of another slot's closure.
Follow(s, t, f) ==
  /\ \E n \in nodes :
       /\ n.id = root[t]
       /\ n.fields[f] # Null
       /\ root' = [root EXCEPT ![s] = n.fields[f]]
  /\ UNCHANGED <<caf, nodes>>

\* A field of a slot's closure is overwritten.
Tie(s, t, f) ==
  /\ root[t] # Null
  /\ \E n \in nodes :
       /\ n.id = root[s]
       /\ n.fields[f] # Null
       /\ nodes' = (nodes \ {n}) \cup {[n EXCEPT !.fields[f] = root[t]]}
  /\ UNCHANGED <<root, caf>>

\* The slot is overwritten by another slot, by a static closure or dies.
Assign(s, x) ==
  /\ x \in Static \cup {Null} \/ \E t \in Slot : x = root[t]
  /\ root' = [root EXCEPT ![s] = x]
  /\ UNCHANGED <<caf, nodes>>

\* The slot receives the value of the evaluated CAF it holds.
Enter(s) ==
  /\ root[s] \in Caf
  /\ caf[root[s]] # Null
  /\ root' = [root EXCEPT ![s] = caf[root[s]]]
  /\ UNCHANGED <<caf, nodes>>

IsValue(x) == x \in Value \/ \E n \in nodes : n.id = x /\ n.type \in HNF

Subst(x, i, v) == IF x = i THEN v ELSE x

\* The thunk i has the value v: every reference to i becomes one to v.
UpdateThunk(i, v) ==
  /\ \E n \in nodes : n.id = i /\ n.type = "THUNK"
  /\ IsValue(v)
  /\ nodes' = {[n EXCEPT !.fields = [f \in Field |-> Subst(@[f], i, v)]] :
                 n \in {m \in nodes : m.id # i}}
  /\ root' = [s \in Slot |-> Subst(root[s], i, v)]
  /\ caf' = [c \in Caf |-> Subst(caf[c], i, v)]

UpdateCaf(c, v) ==
  /\ caf[c] = Null
  /\ IsValue(v)
  /\ caf' = [caf EXCEPT ![c] = v]
  /\ UNCHANGED <<root, nodes>>

\* The storage manager forgets all closures but those in keep.
Collect(keep) ==
  /\ keep \subseteq nodes
  /\ LET kept == {n.id : n \in keep} \cup Static \cup {Null} IN
       /\ \A s \in Slot : root[s] \in kept
       /\ \A c \in Caf : caf[c] \in kept
       /\ \A n \in keep, f \in Field : n.fields[f] \in kept
  /\ nodes' = keep
  /\ UNCHANGED <<root, caf>>

Next ==
  \/ \E s \in Slot, ty \in Type, args \in [Field -> Slot \cup {Null}] :
       New(s, ty, args)
  \/ \E s, t \in Slot, f \in Field : Follow(s, t, f)
  \/ \E s, t \in Slot, f \in Field : Tie(s, t, f)
  \/ \E s \in Slot, x \in Name \cup {Null} : Assign(s, x)
  \/ \E s \in Slot : Enter(s)
  \/ \E i \in Id, v \in Id \cup Value : UpdateThunk(i, v)
  \/ \E c \in Caf, v \in Id \cup Value : UpdateCaf(c, v)
  \/ \E keep \in SUBSET nodes : Collect(keep)

Spec == Init /\ [][Next]_vars
=============================================================================
