------------------------------- MODULE CompSetup --------------------------------
(***************************************************************************)
(* Staff set a competition up (internal/handler/comp.go, comp_events.go,   *)
(* comp_problems.go, comp_categories.go) and people register for it        *)
(* (comp_registration.go); the tables are migrations 000032 and 000033.    *)
(* A PATCH loads the row, merges the fields it was given, validates the    *)
(* merged row and writes every column back; nothing is locked between the  *)
(* load and the write.                                                     *)
(***************************************************************************)
EXTENDS Integers

CONSTANTS
    Directors,     \* head setters and managers with a request in flight
    Entrants,      \* people who register
    Competitions,         \* competitions of one location
    Events,        \* competition events
    Problems,      \* problems of an event
    Labels,        \* names of categories, labels of problems
    Bibs,          \* bib numbers
    MaxTime,       \* bound on the instants a window is made of
    MaxPatches     \* bound on the PATCHes begun

ASSUME SetupAssumption ==
    /\ Competitions \cap Problems = {} /\ Events \cap Problems = {}
    /\ Competitions \cap Events = {}
    /\ MaxTime \in Nat /\ MaxPatches \in Nat

VARIABLES
    tree,          \* item -> its row, or Absent
    categories,    \* rows of competition_categories: <<competition, name>>
    entries,       \* <<competition, person>> -> registration, or Absent
    patching,      \* director -> [item, row]: the row a PATCH has loaded
    patches        \* PATCHes begun so far

setupVars == <<tree, categories, entries, patching, patches>>

-----------------------------------------------------------------------------
Absent == [none |-> TRUE]
Items == Competitions \cup Events \cup Problems
Instants == 1 .. MaxTime

\* Two of the statuses tell the hazards apart.
Statuses == {"draft", "open"}

\* The columns of each kind of row that the hazards turn on.
RowsOf(i) ==
    IF i \in Competitions THEN [starts : Instants, ends : Instants, status : Statuses]
    ELSE IF i \in Events THEN [starts : Instants, ends : Instants, weight : {1, 2}]
    ELSE [label : Labels, points : {1, 2}]

\* What one PATCH sets: a column, or both ends of the window.
PatchBodies(i) ==
    IF i \in Problems THEN [label : Labels] \cup [points : {1, 2}]
    ELSE [starts : Instants] \cup [ends : Instants] \cup [starts : Instants, ends : Instants]
         \cup (IF i \in Competitions THEN [status : Statuses] ELSE [weight : {1, 2}])
NoPatch == [item |-> "none", row |-> Absent]
Bodies == [bib : Bibs \cup {0}, category : Labels]

SetupTypeOK ==
    /\ DOMAIN tree = Items /\ \A i \in Items : tree[i] \in RowsOf(i) \cup {Absent}
    /\ categories \subseteq Competitions \X Labels
    /\ \A e \in Competitions \X Entrants :
          entries[e] \in [bib : Bibs \cup {0}, category : Labels, withdrawn : BOOLEAN] \cup {Absent}
    /\ \A d \in Directors : patching[d] = NoPatch \/ patching[d].row \in RowsOf(patching[d].item)
    /\ patches \in 0 .. MaxPatches

SetupInit ==
    /\ tree = [i \in Items |-> Absent]
    /\ categories = {}
    /\ entries = [e \in Competitions \X Entrants |-> Absent]
    /\ patching = [d \in Directors |-> NoPatch]
    /\ patches = 0

-----------------------------------------------------------------------------
\* validateCreate and the end of applyUpdate; the same two for an event.
Ordered(row) == row.starts < row.ends
Valid(i, row) == i \notin Problems => Ordered(row)

\* UNIQUE (event_id, label); a conflict is answered 409 or 500 and changes nothing.
LabelFree(i, row) ==
    i \in Problems => row.label \notin {tree[p].label : p \in {q \in Problems \ {i} : tree[q] # Absent}}

Inserted(i, row) ==
    /\ tree[i] = Absent /\ Valid(i, row) /\ LabelFree(i, row)
    /\ tree' = [tree EXCEPT ![i] = row]
    /\ UNCHANGED <<categories, entries, patching, patches>>

CreateCompetition(c, row) == Inserted(c, row)
CreateEvent(e, row) == (\E c \in Competitions : tree[c] # Absent) /\ Inserted(e, row)
CreateProblem(p, row) == (\E e \in Events : tree[e] # Absent) /\ Inserted(p, row)

\* The handlers load the row, and through its parents the location whose
\* role they ask for.
LoadForUpdate(d, i) ==
    /\ patching[d] = NoPatch /\ patches < MaxPatches
    /\ tree[i] # Absent
    /\ patching' = [patching EXCEPT ![d] = [item |-> i, row |-> tree[i]]]
    /\ patches' = patches + 1
    /\ UNCHANGED <<tree, categories, entries>>

\* Mutant of Written: only the fields of the body, as PATCH suggests.
WrittenAlone(stored, merged, body) == [f \in DOMAIN stored |-> IF f \in DOMAIN body THEN body[f] ELSE stored[f]]
Written(stored, merged, body) == merged

\* applyUpdate, applyEventUpdate, applyProblemUpdate; then the whole row.
Merged(row, body) == [f \in DOMAIN row |-> IF f \in DOMAIN body THEN body[f] ELSE row[f]]

Patch(d, body) ==
    LET i == patching[d].item
        merged == Merged(patching[d].row, body)
    IN /\ patching[d] # NoPatch
       /\ IF Valid(i, merged) /\ LabelFree(i, merged)
          THEN tree' = [tree EXCEPT ![i] = Written(tree[i], merged, body)]
          ELSE UNCHANGED tree
       /\ patching' = [patching EXCEPT ![d] = NoPatch]
       /\ UNCHANGED <<categories, entries, patches>>

CreateCategory(c, name) ==
    /\ tree[c] # Absent /\ <<c, name>> \notin categories
    /\ categories' = categories \cup {<<c, name>>}
    /\ UNCHANGED <<tree, entries, patching, patches>>

-----------------------------------------------------------------------------
\* The partial unique index on bib numbers, over registrations not withdrawn.
Unwithdrawn(c) == {u \in Entrants : entries[<<c, u>>] # Absent /\ ~entries[<<c, u>>].withdrawn}
BibFree(c, bib) == bib \notin {entries[<<c, u>>].bib : u \in Unwithdrawn(c)} \ {0}

\* By the person, or by a manager for them.  Neither the status nor the
\* registration dates are looked at; a withdrawn person stays registered.
CreateRegistration(c, u, body) ==
    /\ tree[c] # Absent
    /\ entries[<<c, u>>] = Absent /\ BibFree(c, body.bib)
    /\ \E k \in Competitions : <<k, body.category>> \in categories
    /\ entries' = [entries EXCEPT ![<<c, u>>] =
                     [bib |-> body.bib, category |-> body.category, withdrawn |-> FALSE]]
    /\ UNCHANGED <<tree, categories, patching, patches>>

Withdraw(c, u) ==
    /\ u \in Unwithdrawn(c)
    /\ entries' = [entries EXCEPT ![<<c, u>>].withdrawn = TRUE]
    /\ UNCHANGED <<tree, categories, patching, patches>>

SetupNext ==
    \/ \E c \in Competitions : \E row \in RowsOf(c) : CreateCompetition(c, row)
    \/ \E e \in Events : \E row \in RowsOf(e) : CreateEvent(e, row)
    \/ \E p \in Problems : \E row \in RowsOf(p) : CreateProblem(p, row)
    \/ \E d \in Directors : \E i \in Items : LoadForUpdate(d, i)
    \/ \E d \in Directors : patching[d] # NoPatch /\
          \E body \in PatchBodies(patching[d].item) : Patch(d, body)
    \/ \E c \in Competitions : \E name \in Labels : CreateCategory(c, name)
    \/ \E c \in Competitions, u \in Entrants :
          (\E body \in Bodies : CreateRegistration(c, u, body)) \/ Withdraw(c, u)

SetupSpec == SetupInit /\ [][SetupNext]_setupVars

-----------------------------------------------------------------------------
(* Whatever PATCHes interleave, a competition and an event end after they  *)
(* start: each request validates the row it has merged, and writes exactly *)
(* that row.  (Two requests that each move one end, both valid against the *)
(* row they loaded, would otherwise cross.)                                *)
WindowsStayOrdered ==
    \A i \in Competitions \cup Events : tree[i] # Absent => Ordered(tree[i])

(* The comment of CompHandler.Update: "only provided fields are applied".  *)
(* A step that stores a row changes no field its request did not name.     *)
OnlyProvidedFieldsChange ==
    [][\A d \in Directors, i \in Items :
          patching[d].item = i /\ patching'[d] = NoPatch /\ tree'[i] # tree[i] =>
             \E body \in PatchBodies(i) :
                 tree'[i] = Merged(tree[i], body) /\ tree'[i] = Merged(patching[d].row, body)]_setupVars
=============================================================================
