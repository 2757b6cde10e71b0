----------------------- MODULE WorkflowDefinition_proofs -----------------------
(***************************************************************************)
(* What holds of a Workflow under construction, whatever the tasks, the    *)
(* goroutines and their calls: the name index is the inverse of Tasks, the *)
(* dependencies are of tasks that are there and free of circles, what      *)
(* Validate accepts is whole, and BuildDAG's search and the levels of      *)
(* TopologicalSort are right on every graph the calls can build.           *)
(***************************************************************************)
EXTENDS WorkflowDefinition, Dag_proofs, FiniteSetTheorems, TLAPS

-----------------------------------------------------------------------------
(* The inductive invariant.                                                *)

\* Where a call of each kind may be.
AddPlaces    == {"add", "index", "lookup", "undo", "undoboth", "undoname"}
SubPlaces    == {"addsub", "parent", "index", "store", "append", "undo"}
UpdatePlaces == {"update", "checkname", "unname", "rename", "replace", "lookup"}
DeletePlaces == {"delete", "scan", "deltask", "delname", "deldeps", "sweep"}
CheckPlaces  == {"validate", "valnames", "valdeps"}

\* Maps as Validate builds them.
NameMaps == UNION {[D -> Id] : D \in SUBSET Names(Object)}

\* The records of calls...
CallSet ==
  [pc: AddPlaces \cup SubPlaces \cup UpdatePlaces \cup DeletePlaces \cup CheckPlaces,
   kind: {"add", "addsub", "update", "delete", "validate"},
   object: Object \cup {None}, id: Id \cup {None}, parent: Id \cup {None},
   todo: SUBSET Names(Object), ids: SUBSET Id, old: Object \cup {None},
   names: NameMaps, alone: BOOLEAN]

\* ...and what their fields have to do with one another.
Fits(k) ==
  /\ \/ k.kind = "add" /\ k.pc \in AddPlaces
     \/ k.kind = "addsub" /\ k.pc \in SubPlaces
     \/ k.kind = "update" /\ k.pc \in UpdatePlaces
     \/ k.kind = "delete" /\ k.pc \in DeletePlaces
     \/ k.kind = "validate" /\ k.pc \in CheckPlaces
  /\ k.kind # "validate" => k.id \in Id
  /\ k.kind \in {"add", "addsub", "update"} => k.object \in Object /\ IdOf[k.object] = k.id
  /\ k.kind = "addsub" => k.parent \in Id

HistSet ==
  [calls: Nat, overlap: BOOLEAN, torn: BOOLEAN, stale: BOOLEAN, circular: BOOLEAN, valid: BOOLEAN]

\* A map as the code has it.
MapsOK ==
  /\ Tasks \in [DOMAIN Tasks -> Object]
  /\ \A i \in DOMAIN Tasks : IdOf[Tasks[i]] = i
  /\ TaskNameIndex \in [DOMAIN TaskNameIndex -> Id]
  /\ DOMAIN TaskNameIndex \subseteq Names(Object)
  /\ Dependencies \in [DOMAIN Dependencies -> SUBSET Id]

CallsOK ==
  /\ call \in [Goroutine -> {Idle} \cup CallSet]
  /\ \A g \in Goroutine : call[g].pc # "idle" => Fits(call[g])
  /\ hist \in HistSet

DefTypeOK == MapsOK /\ CallsOK

\* A call is on.
On(g) == call[g].pc # "idle"

\* What the flags say of the calls that are on.
FlagsInv ==
  /\ hist.torn => hist.overlap
  /\ \A g, h \in Goroutine : g # h /\ On(g) /\ On(h) =>
       /\ hist.overlap
       /\ Changes(call[g].kind) => hist.torn
       /\ ~call[g].alone
  /\ \A g \in Goroutine : On(g) =>
       /\ ~hist.valid
       /\ call[g].kind = "update" => hist.circular
       /\ call[g].kind = "addsub" /\ call[g].parent = call[g].id => hist.circular

-----------------------------------------------------------------------------
\* Where a call has its task in Tasks, without its name...
Unnamed(g) == call[g].pc \in {"parent", "index", "undo", "rename", "replace"}

\* ...and with it, its own doing.
Named(g) == call[g].pc \in {"lookup", "store", "append", "undoboth"} /\ call[g].kind # "update"

\* Where a name in the index has no task of that name, and the name.
Unbacked(g) == call[g].pc \in {"undoname", "replace", "delname"}
UnbackedName(g) == TaskNameOf[IF call[g].pc = "delname" THEN call[g].old ELSE call[g].object]

\* The tasks and the names no call is in between with.
Settled == {i \in DOMAIN Tasks : \A g \in Goroutine : Unnamed(g) => call[g].id # i}
Kept == {n \in DOMAIN TaskNameIndex : \A g \in Goroutine : Unbacked(g) => UnbackedName(g) # n}

\* These are each other's inverse...
InverseInv ==
  /\ \A n \in Kept : TaskNameIndex[n] \in Settled /\ TaskNameOf[Tasks[TaskNameIndex[n]]] = n
  /\ \A i \in Settled : TaskNameOf[Tasks[i]] \in Kept /\ TaskNameIndex[TaskNameOf[Tasks[i]]] = i

\* ...and what is in between belongs to one call.
OwnersInv ==
  /\ \A g \in Goroutine :
       /\ Unnamed(g) \/ Named(g) => call[g].id \in DOMAIN Tasks
       /\ (Unnamed(g) \/ Named(g)) /\ call[g].kind # "update" => Tasks[call[g].id] = call[g].object
       /\ Unbacked(g) => /\ UnbackedName(g) \in DOMAIN TaskNameIndex
                         /\ TaskNameIndex[UnbackedName(g)] = call[g].id
  /\ \A g, h \in Goroutine : g # h =>
       /\ (Unnamed(g) \/ Named(g)) /\ (Unnamed(h) \/ Named(h)) => call[g].id # call[h].id
       /\ Unbacked(g) /\ Unbacked(h) => UnbackedName(g) # UnbackedName(h)

\* What UpdateTask and DeleteTask know of the task they change.
ChangersInv ==
  \A g \in Goroutine :
    /\ call[g].pc \in {"checkname", "unname", "scan", "deltask"} =>
         call[g].id \in DOMAIN Tasks /\ call[g].old = Tasks[call[g].id]
    /\ call[g].pc \in {"checkname", "unname"} =>
         TaskNameOf[call[g].old] # TaskNameOf[call[g].object]
    /\ call[g].pc \in {"unname", "rename"} =>
         TaskNameOf[call[g].object] \notin DOMAIN TaskNameIndex
    /\ call[g].pc = "delname" => call[g].old \in Object
    /\ call[g].pc \in {"delname", "deldeps", "sweep"} => call[g].id \notin DOMAIN Tasks

IndexInv == ~hist.torn => InverseInv /\ OwnersInv /\ ChangersInv

-----------------------------------------------------------------------------
\* A task that is being added: nothing depends on it yet.
Fresh(g) ==
  \/ call[g].pc \in {"parent", "index", "undo", "undoboth", "undoname", "store", "append"}
  \/ call[g].pc = "lookup" /\ call[g].kind = "add"

\* A task that is being deleted: nothing depends on it any more.
Going(g) == call[g].pc \in {"deltask", "delname", "deldeps", "sweep"}

Acyclic == \A S \in (SUBSET DOMAIN Dependencies) \ {{}} : \E t \in S : Dependencies[t] \cap S = {}

\* The dependencies, one call at a time.
WholeInv ==
  /\ \A t \in DOMAIN Dependencies : Dependencies[t] \subseteq DOMAIN Tasks
  /\ \A t \in DOMAIN Dependencies \ DOMAIN Tasks :
       \E g \in Goroutine : call[g].pc \in {"delname", "deldeps"} /\ call[g].id = t
  /\ ~hist.circular => Acyclic

\* What a call that is on knows of them.
KnownInv ==
  \A g \in Goroutine :
    /\ Fresh(g) \/ Going(g) =>
         \A t \in DOMAIN Dependencies : call[g].id \notin Dependencies[t]
    /\ Fresh(g) /\ call[g].id \in DOMAIN Dependencies =>
         call[g].pc = "append" /\ Dependencies[call[g].id] = {}
    /\ call[g].pc = "lookup" =>
         /\ call[g].id \in DOMAIN Tasks /\ Tasks[call[g].id] = call[g].object
         /\ call[g].ids \subseteq DOMAIN Tasks \ {call[g].id}
    /\ call[g].pc \in {"index", "store", "append"} /\ call[g].kind = "addsub" =>
         call[g].parent \in DOMAIN Tasks
    /\ call[g].pc = "append" => call[g].ids = {call[g].parent}

\* The names the task depends on are among its dependencies.
Follows(i) ==
  \A n \in NamesOf[Tasks[i]] :
    /\ n \in DOMAIN TaskNameIndex /\ i \in DOMAIN Dependencies
    /\ TaskNameIndex[n] \in Dependencies[i]

\* So it is for all tasks but the one a call is storing...
Storing(g) == call[g].pc # "undoname" /\ (Fresh(g) \/ call[g].pc = "lookup")

\* ...and what that call has found so far is right.
FollowsInv ==
  ~hist.stale =>
    /\ \A i \in DOMAIN Tasks : Follows(i) \/ \E g \in Goroutine : Storing(g) /\ call[g].id = i
    /\ \A g \in Goroutine : call[g].pc = "lookup" =>
         \A n \in NamesOf[call[g].object] \ call[g].todo :
           n \in DOMAIN TaskNameIndex /\ TaskNameIndex[n] \in call[g].ids
    /\ \A g \in Goroutine : call[g].pc = "append" => NamesOf[call[g].object] = {}

DepsInv == ~hist.overlap => WholeInv /\ KnownInv /\ FollowsInv

-----------------------------------------------------------------------------
\* A Validate that runs alone has read the index as it is.
ReadInv ==
  \A g \in Goroutine : ~hist.torn /\ On(g) /\ call[g].alone =>
    /\ call[g].pc = "valnames" => call[g].names = TaskNameIndex
    /\ call[g].pc = "valdeps" => DOMAIN call[g].names \subseteq DOMAIN TaskNameIndex

ValidInv == hist.valid => ValidatedIsWhole /\ \A g \in Goroutine : ~On(g)

DefIInv == DefTypeOK /\ FlagsInv /\ IndexInv /\ DepsInv /\ ReadInv /\ ValidInv

-----------------------------------------------------------------------------
(* What a step does to the records of calls.                               *)

Places == AddPlaces \cup SubPlaces \cup UpdatePlaces \cup DeletePlaces \cup CheckPlaces

\* The fields a step of k to l does not change.
SameBut(k, l) ==
  /\ l.kind = k.kind /\ l.object = k.object /\ l.id = k.id /\ l.parent = k.parent
  /\ l.alone = k.alone

\* The call of g goes to q, or returns; the other calls stay as they are.
Others(g) ==
  /\ call' = [h \in Goroutine |-> call'[h]]
  /\ \A h \in Goroutine \ {g} : call'[h] = call[h]
Goes(g, q) ==
  /\ Others(g) /\ call'[g] \in CallSet /\ call'[g].pc = q
  /\ call'[g].kind = call[g].kind /\ call'[g].object = call[g].object
  /\ call'[g].id = call[g].id /\ call'[g].parent = call[g].parent
  /\ call'[g].alone = call[g].alone
Ends(g) == Others(g) /\ call'[g] = Idle

\* What else a call has.
KeepsTodo(g) == call'[g].todo = call[g].todo
KeepsIds(g) == call'[g].ids = call[g].ids
KeepsOld(g) == call'[g].old = call[g].old
KeepsNames(g) == call'[g].names = call[g].names

\* The record of a call that is on.
LEMMA OnFacts ==
  ASSUME CallsOK, NEW g \in Goroutine, On(g)
  PROVE  call[g] \in CallSet /\ Fits(call[g]) /\ call[g].pc \in Places
BY DEF CallsOK, On, Idle, CallSet, Places

\* Idle is at none of the places.
LEMMA IdleFacts == Idle.pc = "idle" /\ "idle" \notin Places
BY DEF Idle, Places, AddPlaces, SubPlaces, UpdatePlaces, DeletePlaces, CheckPlaces

\* A return leaves the others' calls alone.
LEMMA ReturnForm ==
  ASSUME CallsOK, NEW g \in Goroutine, Return(g)
  PROVE  Ends(g)
BY DEF CallsOK, Return, Ends, Others

GotoRec(k, q) == [k EXCEPT !.pc = q]

\* A record that goes to another place...
LEMMA GotoFormRecord ==
  ASSUME NEW k \in CallSet, NEW q \in Places
  PROVE  /\ GotoRec(k, q) \in CallSet
         /\ LET l == GotoRec(k, q) IN
            /\ SameBut(k, l)
            /\ l.pc = q /\ l.todo = k.todo /\ l.ids = k.ids /\ l.old = k.old /\ l.names = k.names
BY DEF CallSet, Places, SameBut, GotoRec

\* ...and the call.
LEMMA GotoForm ==
  ASSUME CallsOK, NEW g \in Goroutine, On(g), NEW q \in Places,
         Goto(g, q)
  PROVE  /\ Goes(g, q) /\ KeepsTodo(g) /\ KeepsIds(g) /\ KeepsOld(g) /\ KeepsNames(g)
<1>1. call[g] \in CallSet
  BY OnFacts
<1>2. Others(g) /\ call'[g] = GotoRec(call[g], q)
  BY <1>1 DEF CallsOK, Others, GotoRec, Goto
<1> QED
  BY <1>1, <1>2, GotoFormRecord DEF Goes, SameBut, KeepsTodo, KeepsIds, KeepsOld, KeepsNames

\* With what is still to be looked up...
TodoRec(k, q, X) == [k EXCEPT !.pc = q, !.todo = X, !.ids = {}]

\* As a record.
LEMMA TodoFormRecord ==
  ASSUME NEW k \in CallSet, NEW q \in Places, NEW X \in SUBSET Names(Object)
  PROVE  /\ TodoRec(k, q, X) \in CallSet
         /\ LET l == TodoRec(k, q, X) IN
            /\ SameBut(k, l)
            /\ l.pc = q /\ l.todo = X /\ l.ids = {} /\ l.old = k.old /\ l.names = k.names
BY DEF CallSet, Places, SameBut, TodoRec

TodoStep(g, q, X) ==
  call' = [call EXCEPT ![g].pc = q, ![g].todo = X, ![g].ids = {}]

\* As a call.
LEMMA TodoForm ==
  ASSUME CallsOK, NEW g \in Goroutine, On(g), NEW q \in Places, NEW X \in SUBSET Names(Object),
         TodoStep(g, q, X)
  PROVE  /\ Goes(g, q) /\ call'[g].todo = X /\ call'[g].ids = {} /\ KeepsOld(g) /\ KeepsNames(g)
<1>1. call[g] \in CallSet
  BY OnFacts
<1>2. Others(g) /\ call'[g] = TodoRec(call[g], q, X)
  BY <1>1 DEF CallsOK, Others, TodoRec, TodoStep
<1> QED
  BY <1>1, <1>2, TodoFormRecord DEF Goes, SameBut, KeepsOld, KeepsNames

\* ...with what was found...
FoundRec(k, X, Y) == [k EXCEPT !.todo = X, !.ids = Y]

\* As a record.
LEMMA FoundFormRecord ==
  ASSUME NEW k \in CallSet, NEW X \in SUBSET Names(Object), NEW Y \in SUBSET Id
  PROVE  /\ FoundRec(k, X, Y) \in CallSet
         /\ LET l == FoundRec(k, X, Y) IN
            /\ SameBut(k, l)
            /\ l.pc = k.pc /\ l.todo = X /\ l.ids = Y /\ l.old = k.old /\ l.names = k.names
BY DEF CallSet, Places, SameBut, FoundRec

FoundStep(g, X, Y) ==
  call' = [call EXCEPT ![g].todo = X, ![g].ids = Y]

\* As a call.
LEMMA FoundForm ==
  ASSUME CallsOK, NEW g \in Goroutine, On(g), NEW X \in SUBSET Names(Object), NEW Y \in SUBSET Id,
         FoundStep(g, X, Y)
  PROVE  /\ Goes(g, call[g].pc) /\ call'[g].todo = X /\ call'[g].ids = Y /\ KeepsOld(g) /\ KeepsNames(g)
<1>1. call[g] \in CallSet
  BY OnFacts
<1>2. Others(g) /\ call'[g] = FoundRec(call[g], X, Y)
  BY <1>1 DEF CallsOK, Others, FoundRec, FoundStep
<1> QED
  BY <1>1, <1>2, FoundFormRecord DEF Goes, SameBut, KeepsOld, KeepsNames

IdsRec(k, q, Y) == [k EXCEPT !.pc = q, !.ids = Y]

\* As a record.
LEMMA IdsFormRecord ==
  ASSUME NEW k \in CallSet, NEW q \in Places, NEW Y \in SUBSET Id
  PROVE  /\ IdsRec(k, q, Y) \in CallSet
         /\ LET l == IdsRec(k, q, Y) IN
            /\ SameBut(k, l)
            /\ l.pc = q /\ l.todo = k.todo /\ l.ids = Y /\ l.old = k.old /\ l.names = k.names
BY DEF CallSet, Places, SameBut, IdsRec

IdsStep(g, q, Y) ==
  call' = [call EXCEPT ![g].pc = q, ![g].ids = Y]

\* With its dependencies, as a call.
LEMMA IdsForm ==
  ASSUME CallsOK, NEW g \in Goroutine, On(g), NEW q \in Places, NEW Y \in SUBSET Id,
         IdsStep(g, q, Y)
  PROVE  /\ Goes(g, q) /\ call'[g].ids = Y /\ KeepsTodo(g) /\ KeepsOld(g) /\ KeepsNames(g)
<1>1. call[g] \in CallSet
  BY OnFacts
<1>2. Others(g) /\ call'[g] = IdsRec(call[g], q, Y)
  BY <1>1 DEF CallsOK, Others, IdsRec, IdsStep
<1> QED
  BY <1>1, <1>2, IdsFormRecord DEF Goes, SameBut, KeepsTodo, KeepsOld, KeepsNames

\* ...with the task that was there...
OldRec(k, q, o) == [k EXCEPT !.pc = q, !.old = o]

\* As a record.
LEMMA OldFormRecord ==
  ASSUME NEW k \in CallSet, NEW q \in Places, NEW o \in Object
  PROVE  /\ OldRec(k, q, o) \in CallSet
         /\ LET l == OldRec(k, q, o) IN
            /\ SameBut(k, l)
            /\ l.pc = q /\ l.todo = k.todo /\ l.ids = k.ids /\ l.old = o /\ l.names = k.names
BY DEF CallSet, Places, SameBut, OldRec

OldStep(g, q, o) ==
  call' = [call EXCEPT ![g].pc = q, ![g].old = o]

\* With the task it found, as a call.
LEMMA OldForm ==
  ASSUME CallsOK, NEW g \in Goroutine, On(g), NEW q \in Places, NEW o \in Object,
         OldStep(g, q, o)
  PROVE  /\ Goes(g, q) /\ call'[g].old = o /\ KeepsTodo(g) /\ KeepsIds(g) /\ KeepsNames(g)
<1>1. call[g] \in CallSet
  BY OnFacts
<1>2. Others(g) /\ call'[g] = OldRec(call[g], q, o)
  BY <1>1 DEF CallsOK, Others, OldRec, OldStep
<1> QED
  BY <1>1, <1>2, OldFormRecord DEF Goes, SameBut, KeepsTodo, KeepsIds, KeepsNames

\* ...and with a map of names.
NamesRec(k, q, m) == [k EXCEPT !.pc = q, !.names = m]

\* As a record.
LEMMA NamesFormRecord ==
  ASSUME NEW k \in CallSet, NEW q \in Places, NEW m \in NameMaps
  PROVE  /\ NamesRec(k, q, m) \in CallSet
         /\ LET l == NamesRec(k, q, m) IN
            /\ SameBut(k, l)
            /\ l.pc = q /\ l.todo = k.todo /\ l.ids = k.ids /\ l.old = k.old /\ l.names = m
BY DEF CallSet, Places, SameBut, NamesRec

NamesStep(g, q, m) ==
  call' = [call EXCEPT ![g].pc = q, ![g].names = m]

\* With the map of Validate, as a call.
LEMMA NamesForm ==
  ASSUME CallsOK, NEW g \in Goroutine, On(g), NEW q \in Places, NEW m \in NameMaps,
         NamesStep(g, q, m)
  PROVE  /\ Goes(g, q) /\ call'[g].names = m /\ KeepsTodo(g) /\ KeepsIds(g) /\ KeepsOld(g)
<1>1. call[g] \in CallSet
  BY OnFacts
<1>2. Others(g) /\ call'[g] = NamesRec(call[g], q, m)
  BY <1>1 DEF CallsOK, Others, NamesRec, NamesStep
<1> QED
  BY <1>1, <1>2, NamesFormRecord DEF Goes, SameBut, KeepsTodo, KeepsIds, KeepsOld

-----------------------------------------------------------------------------
(* What each step does.                                                    *)

\* Which call is at which place.
LEMMA PlaceFacts ==
  ASSUME CallsOK, NEW g \in Goroutine
  PROVE  /\ call[g].pc \in {"add", "undoboth", "undoname"} => call[g].kind = "add"
         /\ call[g].pc \in {"addsub", "parent", "store", "append"} => call[g].kind = "addsub"
         /\ call[g].pc \in {"index", "undo"} => call[g].kind \in {"add", "addsub"}
         /\ call[g].pc = "lookup" => call[g].kind \in {"add", "update"}
         /\ call[g].pc \in UpdatePlaces \ {"lookup"} => call[g].kind = "update"
         /\ call[g].pc \in DeletePlaces => call[g].kind = "delete"
         /\ call[g].pc \in CheckPlaces => call[g].kind = "validate"
<1>1. CASE call[g].pc = "idle"
  BY <1>1 DEF UpdatePlaces, DeletePlaces, CheckPlaces
<1>2. CASE call[g].pc # "idle"
  BY <1>2 DEF CallsOK, Fits, AddPlaces, SubPlaces, UpdatePlaces, DeletePlaces, CheckPlaces
<1> QED
  BY <1>1, <1>2

\* The arguments of a call that is on.
LEMMA ArgumentFacts ==
  ASSUME CallsOK, NEW g \in Goroutine, On(g)
  PROVE  /\ call[g].kind \in {"add", "addsub", "update"} =>
              /\ call[g].object \in Object /\ IdOf[call[g].object] = call[g].id
              /\ NamesOf[call[g].object] \in SUBSET Names(Object)
              /\ TaskNameOf[call[g].object] \in Names(Object)
         /\ call[g].kind # "validate" => call[g].id \in Id
         /\ call[g].kind = "addsub" => call[g].parent \in Id
         /\ call[g].kind \in {"add", "addsub", "update", "delete", "validate"}
<1>1. call[g] \in CallSet /\ Fits(call[g])
  BY OnFacts
<1>2. call[g].kind \in {"add", "addsub", "update", "delete", "validate"}
  BY <1>1 DEF CallSet
<1> QED
  BY <1>1, <1>2, DefinitionAssumption DEF Fits, Names

\* The places by name.
LEMMA PlacesFacts ==
  \A q \in {"add", "index", "lookup", "undo", "undoboth", "undoname", "addsub", "parent",
            "store", "append", "update", "checkname", "unname", "rename", "replace", "delete",
            "scan", "deltask", "delname", "deldeps", "sweep", "validate", "valnames", "valdeps"} :
    q \in Places /\ q # "idle"
BY DEF Places, AddPlaces, SubPlaces, UpdatePlaces, DeletePlaces, CheckPlaces

HistStays == hist' = hist

\* A step that may set hist.stale.
Stales(b) ==
  /\ hist' \in HistSet /\ hist'.stale = b /\ hist'.overlap = hist.overlap /\ hist'.torn = hist.torn
  /\ hist'.circular = hist.circular /\ hist'.valid = hist.valid

\* hist.stale is set, and nothing else of hist.
LEMMA StaleForm ==
  ASSUME CallsOK, NEW b \in BOOLEAN, hist' = [hist EXCEPT !.stale = b]
  PROVE  Stales(b)
BY DEF CallsOK, HistSet, Stales

\* What Tasks.LoadOrStore does.
LEMMA StoreTaskEffect ==
  ASSUME CallsOK, NEW g \in Goroutine, StoreTask(g)
  PROVE  /\ UNCHANGED <<TaskNameIndex, Dependencies, hist>>
         /\ call[g].pc \in {"add", "addsub"} /\ On(g)
         /\ \/ Tasks' = Tasks /\ Ends(g)
            \/ /\ call[g].id \notin DOMAIN Tasks
               /\ Tasks' = Put(Tasks, call[g].id, call[g].object)
               /\ Goes(g, IF call[g].kind = "add" THEN "index" ELSE "parent")
<1>1. On(g)
  BY DEF StoreTask, On
<1>2. "index" \in Places /\ "parent" \in Places
  BY PlacesFacts
<1> QED
  BY <1>1, <1>2, GotoForm, ReturnForm DEF StoreTask

\* What AddSubTask's check of the parent does.
LEMMA CheckParentEffect ==
  ASSUME CallsOK, NEW g \in Goroutine, CheckParent(g)
  PROVE  /\ UNCHANGED <<Tasks, TaskNameIndex, Dependencies, hist>>
         /\ call[g].pc = "parent" /\ On(g)
         /\ \/ Goes(g, "index") /\ call[g].parent \in DOMAIN Tasks
            \/ Goes(g, "undo")
<1>1. On(g)
  BY DEF CheckParent, On
<1>2. "index" \in Places /\ "undo" \in Places
  BY PlacesFacts
<1> QED
  BY <1>1, <1>2, GotoForm DEF CheckParent

\* What TaskNameIndex.LoadOrStore does.
LEMMA StoreNameEffect ==
  ASSUME CallsOK, NEW g \in Goroutine, StoreName(g)
  PROVE  /\ UNCHANGED <<Tasks, Dependencies, hist>>
         /\ call[g].pc = "index" /\ On(g)
         /\ \/ Goes(g, "undo") /\ UNCHANGED TaskNameIndex
            \/ /\ TaskNameOf[call[g].object] \notin DOMAIN TaskNameIndex
               /\ TaskNameIndex' = Put(TaskNameIndex, TaskNameOf[call[g].object], call[g].id)
               /\ Goes(g, IF call[g].kind = "add" THEN "lookup" ELSE "store")
               /\ call'[g].todo = NamesOf[call[g].object] /\ call'[g].ids = {}
<1>1. On(g) /\ call[g].kind \in {"add", "addsub"}
  BY PlaceFacts DEF StoreName, On
<1>2. "undo" \in Places /\ "lookup" \in Places /\ "store" \in Places
  BY PlacesFacts
<1>3. NamesOf[call[g].object] \in SUBSET Names(Object)
  BY <1>1, ArgumentFacts
<1> DEFINE q == IF call[g].kind = "add" THEN "lookup" ELSE "store"
<1>4. CASE Goto(g, "undo") /\ UNCHANGED TaskNameIndex
  BY <1>1, <1>2, <1>4, GotoForm DEF StoreName
<1>5. CASE TodoStep(g, q, NamesOf[call[g].object])
           /\ TaskNameOf[call[g].object] \notin DOMAIN TaskNameIndex
           /\ TaskNameIndex' = Put(TaskNameIndex, TaskNameOf[call[g].object], call[g].id)
  BY <1>1, <1>2, <1>3, <1>5, TodoForm DEF StoreName
<1> QED
  BY <1>4, <1>5 DEF StoreName, TodoStep

\* What looking up one dependency does.
LEMMA LookUpEffect ==
  ASSUME MapsOK, CallsOK, NEW g \in Goroutine, LookUp(g)
  PROVE  /\ UNCHANGED <<Tasks, TaskNameIndex, Dependencies>>
         /\ call[g].pc = "lookup" /\ On(g)
         /\ \/ \E n \in call[g].todo :
                 /\ n \in DOMAIN TaskNameIndex /\ TaskNameIndex[n] # call[g].id
                 /\ Goes(g, "lookup") /\ call'[g].todo = call[g].todo \ {n}
                 /\ call'[g].ids = call[g].ids \cup {TaskNameIndex[n]} /\ HistStays
            \/ call[g].kind = "add" /\ Goes(g, "undoboth") /\ HistStays
            \/ call[g].kind = "update" /\ Ends(g) /\ Stales(TRUE)
<1>1. On(g) /\ call[g] \in CallSet
  BY OnFacts DEF LookUp, On
<1>2. "undoboth" \in Places
  BY PlacesFacts
<1>3. call[g].todo \in SUBSET Names(Object) /\ call[g].ids \in SUBSET Id
  BY <1>1 DEF CallSet
<1>4. PICK n \in call[g].todo :
        \/ /\ n \in DOMAIN TaskNameIndex /\ TaskNameIndex[n] # call[g].id
           /\ FoundStep(g, call[g].todo \ {n}, call[g].ids \cup {TaskNameIndex[n]})
           /\ HistStays
        \/ call[g].kind = "add" /\ Goto(g, "undoboth") /\ HistStays
        \/ call[g].kind = "update" /\ Return(g) /\ hist' = [hist EXCEPT !.stale = TRUE]
  BY <1>1 DEF LookUp, FoundStep, HistStays, CallsOK
<1>5. UNCHANGED <<Tasks, TaskNameIndex, Dependencies>> /\ call[g].pc = "lookup"
  BY DEF LookUp
<1>6. CASE /\ n \in DOMAIN TaskNameIndex /\ TaskNameIndex[n] # call[g].id
           /\ FoundStep(g, call[g].todo \ {n}, call[g].ids \cup {TaskNameIndex[n]})
           /\ HistStays
  <2>1. call[g].todo \ {n} \in SUBSET Names(Object)
    BY <1>3
  <2>2. call[g].ids \cup {TaskNameIndex[n]} \in SUBSET Id
    BY <1>3, <1>6 DEF MapsOK
  <2>3. /\ Goes(g, call[g].pc) /\ call'[g].todo = call[g].todo \ {n}
        /\ call'[g].ids = call[g].ids \cup {TaskNameIndex[n]}
    BY <1>1, <1>6, <2>1, <2>2, FoundForm
  <2> QED
    BY <1>1, <1>5, <1>6, <2>3
<1>7. CASE call[g].kind = "add" /\ Goto(g, "undoboth") /\ HistStays
  BY <1>1, <1>2, <1>5, <1>7, GotoForm
<1>8. CASE call[g].kind = "update" /\ Return(g) /\ hist' = [hist EXCEPT !.stale = TRUE]
  BY <1>1, <1>5, <1>8, ReturnForm, StaleForm
<1> QED
  BY <1>4, <1>6, <1>7, <1>8

\* What storing the dependencies does.
LEMMA StoreDependenciesEffect ==
  ASSUME CallsOK, NEW g \in Goroutine, StoreDependencies(g)
  PROVE  /\ UNCHANGED <<Tasks, TaskNameIndex, hist>>
         /\ call[g].pc = "append" \/ (call[g].pc = "lookup" /\ call[g].todo = {})
         /\ On(g) /\ Ends(g)
         /\ \/ call[g].ids # {} /\ Dependencies' = Put(Dependencies, call[g].id, call[g].ids)
            \/ /\ call[g].ids = {} /\ call[g].kind = "update"
               /\ Dependencies' = Without(Dependencies, call[g].id)
            \/ call[g].ids = {} /\ call[g].kind # "update" /\ UNCHANGED Dependencies
BY ReturnForm DEF StoreDependencies, On

\* The dependencies AddSubTask finds.
There(g) == IF call[g].id \in DOMAIN Dependencies THEN Dependencies[call[g].id] ELSE {}

\* What looking whether there are any does.
LEMMA LoadDependenciesEffect ==
  ASSUME MapsOK, CallsOK, NEW g \in Goroutine, LoadDependencies(g)
  PROVE  /\ UNCHANGED <<Tasks, TaskNameIndex>>
         /\ call[g].pc = "store" /\ On(g)
         /\ Dependencies' = Put(Dependencies, call[g].id, There(g))
         /\ \/ call[g].parent \in There(g) /\ Ends(g)
            \/ Goes(g, "append") /\ call'[g].ids = There(g) \cup {call[g].parent}
         /\ Stales(hist.stale \/ NamesOf[call[g].object] # {})
<1>1. On(g) /\ call[g].kind = "addsub"
  BY PlaceFacts DEF LoadDependencies, On
<1>2. "append" \in Places
  BY PlacesFacts
<1>3. There(g) \cup {call[g].parent} \in SUBSET Id
  BY <1>1, ArgumentFacts DEF There, MapsOK
<1>4. \/ call[g].parent \in There(g) /\ Return(g)
      \/ IdsStep(g, "append", There(g) \cup {call[g].parent})
  BY DEF LoadDependencies, There, IdsStep
<1>5. /\ UNCHANGED <<Tasks, TaskNameIndex>> /\ call[g].pc = "store"
      /\ Dependencies' = Put(Dependencies, call[g].id, There(g))
  BY DEF LoadDependencies, There
<1>6. Stales(hist.stale \/ NamesOf[call[g].object] # {})
  <2>1. hist.stale \in BOOLEAN
    BY DEF CallsOK, HistSet
  <2>2. hist' = [hist EXCEPT !.stale = hist.stale \/ NamesOf[call[g].object] # {}]
    BY DEF LoadDependencies, CallsOK, HistSet
  <2> QED
    BY <2>1, <2>2, StaleForm
<1> QED
  BY <1>1, <1>2, <1>3, <1>4, <1>5, <1>6, ReturnForm, IdsForm

\* What taking the task back does.
LEMMA UndoTaskEffect ==
  ASSUME CallsOK, NEW g \in Goroutine, UndoTask(g)
  PROVE  /\ UNCHANGED <<TaskNameIndex, Dependencies, hist>> /\ On(g)
         /\ Tasks' = Without(Tasks, call[g].id)
         /\ \/ call[g].pc = "undo" /\ Ends(g)
            \/ call[g].pc = "undoboth" /\ Goes(g, "undoname")
<1>1. On(g)
  BY DEF UndoTask, On
<1>2. "undoname" \in Places
  BY PlacesFacts
<1> QED
  BY <1>1, <1>2, GotoForm, ReturnForm DEF UndoTask

\* What taking the name back does.
LEMMA UndoNameEffect ==
  ASSUME CallsOK, NEW g \in Goroutine, UndoName(g)
  PROVE  /\ UNCHANGED <<Tasks, Dependencies, hist>> /\ On(g)
         /\ TaskNameIndex' = Without(TaskNameIndex, TaskNameOf[call[g].object])
         /\ call[g].pc = "undoname" /\ Ends(g)
BY ReturnForm DEF UndoName, On

\* What UpdateTask's load of the task does.
LEMMA LoadOldEffect ==
  ASSUME MapsOK, CallsOK, NEW g \in Goroutine, LoadOld(g)
  PROVE  /\ UNCHANGED <<Tasks, TaskNameIndex, Dependencies, hist>>
         /\ call[g].pc = "update" /\ On(g)
         /\ \/ Ends(g)
            \/ /\ call[g].id \in DOMAIN Tasks /\ call'[g].old = Tasks[call[g].id]
               /\ \/ /\ TaskNameOf[Tasks[call[g].id]] = TaskNameOf[call[g].object]
                     /\ Goes(g, "replace")
                  \/ /\ TaskNameOf[Tasks[call[g].id]] # TaskNameOf[call[g].object]
                     /\ Goes(g, "checkname")
<1>1. On(g)
  BY DEF LoadOld, On
<1> DEFINE o == Tasks[call[g].id]
           q == IF TaskNameOf[o] = TaskNameOf[call[g].object] THEN "replace" ELSE "checkname"
<1>2. q \in Places
  BY PlacesFacts
<1>3. \/ Return(g)
      \/ call[g].id \in DOMAIN Tasks /\ OldStep(g, q, o)
  BY DEF LoadOld, OldStep
<1>4. UNCHANGED <<Tasks, TaskNameIndex, Dependencies, hist>> /\ call[g].pc = "update"
  BY DEF LoadOld
<1>5. CASE call[g].id \in DOMAIN Tasks /\ OldStep(g, q, o)
  <2>1. o \in Object
    BY <1>5 DEF MapsOK
  <2>2. Goes(g, q) /\ call'[g].old = o
    BY <1>1, <1>2, <1>5, <2>1, OldForm
  <2> QED
    BY <1>1, <1>4, <1>5, <2>2
<1> QED
  BY <1>1, <1>3, <1>4, <1>5, ReturnForm

\* What UpdateTask's check of the name does.
LEMMA CheckNameEffect ==
  ASSUME CallsOK, NEW g \in Goroutine, CheckName(g)
  PROVE  /\ UNCHANGED <<Tasks, TaskNameIndex, Dependencies, hist>>
         /\ call[g].pc = "checkname" /\ On(g)
         /\ \/ Ends(g)
            \/ /\ TaskNameOf[call[g].object] \in DOMAIN TaskNameIndex =>
                    TaskNameIndex[TaskNameOf[call[g].object]] = call[g].id
               /\ Goes(g, "unname") /\ KeepsOld(g)
<1>1. On(g)
  BY DEF CheckName, On
<1>2. "unname" \in Places
  BY PlacesFacts
<1> QED
  BY <1>1, <1>2, GotoForm, ReturnForm DEF CheckName

\* What deleting the old name does.
LEMMA UnnameEffect ==
  ASSUME CallsOK, NEW g \in Goroutine, Unname(g)
  PROVE  /\ UNCHANGED <<Tasks, Dependencies>>
         /\ call[g].pc = "unname" /\ On(g)
         /\ TaskNameIndex' = Without(TaskNameIndex, TaskNameOf[call[g].old])
         /\ Goes(g, "rename")
         /\ Stales(hist.stale \/ \E t \in DOMAIN Dependencies : call[g].id \in Dependencies[t])
<1>1. On(g)
  BY DEF Unname, On
<1>2. "rename" \in Places
  BY PlacesFacts
<1> DEFINE b == hist.stale \/ \E t \in DOMAIN Dependencies : call[g].id \in Dependencies[t]
<1>3. b \in BOOLEAN
  BY DEF CallsOK, HistSet
<1>4. hist' = [hist EXCEPT !.stale = b]
  BY DEF Unname, CallsOK, HistSet
<1>5. Stales(b)
  BY <1>3, <1>4, StaleForm
<1> QED
  BY <1>1, <1>2, <1>5, GotoForm DEF Unname

\* What storing the new name does.
LEMMA RenameEffect ==
  ASSUME CallsOK, NEW g \in Goroutine, Rename(g)
  PROVE  /\ UNCHANGED <<Tasks, Dependencies, hist>>
         /\ call[g].pc = "rename" /\ On(g)
         /\ TaskNameIndex' = Put(TaskNameIndex, TaskNameOf[call[g].object], call[g].id)
         /\ Goes(g, "replace")
<1>1. On(g)
  BY DEF Rename, On
<1>2. "replace" \in Places
  BY PlacesFacts
<1> QED
  BY <1>1, <1>2, GotoForm DEF Rename

\* What storing the new task does.
LEMMA ReplaceEffect ==
  ASSUME CallsOK, NEW g \in Goroutine, Replace(g)
  PROVE  /\ UNCHANGED <<TaskNameIndex, Dependencies, hist>>
         /\ call[g].pc = "replace" /\ On(g)
         /\ Tasks' = Put(Tasks, call[g].id, call[g].object)
         /\ Goes(g, "lookup") /\ call'[g].todo = NamesOf[call[g].object] /\ call'[g].ids = {}
<1>1. On(g) /\ call[g].kind = "update"
  BY PlaceFacts DEF Replace, On, UpdatePlaces
<1>2. "lookup" \in Places
  BY PlacesFacts
<1>3. NamesOf[call[g].object] \in SUBSET Names(Object)
  BY <1>1, ArgumentFacts
<1>4. TodoStep(g, "lookup", NamesOf[call[g].object])
  BY DEF Replace, TodoStep
<1> QED
  BY <1>1, <1>2, <1>3, <1>4, TodoForm DEF Replace

\* What DeleteTask's load of the task does.
LEMMA LoadTaskEffect ==
  ASSUME MapsOK, CallsOK, NEW g \in Goroutine, LoadTask(g)
  PROVE  /\ UNCHANGED <<Tasks, TaskNameIndex, Dependencies, hist>>
         /\ call[g].pc = "delete" /\ On(g)
         /\ \/ Ends(g)
            \/ /\ call[g].id \in DOMAIN Tasks /\ call'[g].old = Tasks[call[g].id]
               /\ Goes(g, "scan")
<1>1. On(g)
  BY DEF LoadTask, On
<1>2. "scan" \in Places
  BY PlacesFacts
<1>3. \/ Return(g)
      \/ call[g].id \in DOMAIN Tasks /\ OldStep(g, "scan", Tasks[call[g].id])
  BY DEF LoadTask, OldStep
<1>4. call[g].id \in DOMAIN Tasks => Tasks[call[g].id] \in Object
  BY DEF MapsOK
<1>5. UNCHANGED <<Tasks, TaskNameIndex, Dependencies, hist>> /\ call[g].pc = "delete"
  BY DEF LoadTask
<1> QED
  BY <1>1, <1>2, <1>3, <1>4, <1>5, OldForm, ReturnForm

\* What the look for a dependent does.
LEMMA ScanDependentsEffect ==
  ASSUME CallsOK, NEW g \in Goroutine, ScanDependents(g)
  PROVE  /\ UNCHANGED <<Tasks, TaskNameIndex, Dependencies, hist>>
         /\ call[g].pc = "scan" /\ On(g)
         /\ \/ Ends(g)
            \/ /\ \A t \in DOMAIN Dependencies : call[g].id \notin Dependencies[t]
               /\ Goes(g, "deltask") /\ KeepsOld(g)
<1>1. On(g)
  BY DEF ScanDependents, On
<1>2. "deltask" \in Places
  BY PlacesFacts
<1> QED
  BY <1>1, <1>2, GotoForm, ReturnForm DEF ScanDependents

\* What deleting the task does.
LEMMA DeleteFromTasksEffect ==
  ASSUME CallsOK, NEW g \in Goroutine, DeleteFromTasks(g)
  PROVE  /\ UNCHANGED <<TaskNameIndex, Dependencies, hist>>
         /\ call[g].pc = "deltask" /\ On(g)
         /\ Tasks' = Without(Tasks, call[g].id)
         /\ Goes(g, "delname") /\ KeepsOld(g)
<1>1. On(g)
  BY DEF DeleteFromTasks, On
<1>2. "delname" \in Places
  BY PlacesFacts
<1> QED
  BY <1>1, <1>2, GotoForm DEF DeleteFromTasks

\* What deleting its name does.
LEMMA DeleteFromIndexEffect ==
  ASSUME CallsOK, NEW g \in Goroutine, DeleteFromIndex(g)
  PROVE  /\ UNCHANGED <<Tasks, Dependencies, hist>>
         /\ call[g].pc = "delname" /\ On(g)
         /\ TaskNameIndex' = Without(TaskNameIndex, TaskNameOf[call[g].old])
         /\ Goes(g, "deldeps")
<1>1. On(g)
  BY DEF DeleteFromIndex, On
<1>2. "deldeps" \in Places
  BY PlacesFacts
<1> QED
  BY <1>1, <1>2, GotoForm DEF DeleteFromIndex

\* What deleting its dependencies does.
LEMMA DeleteFromDependenciesEffect ==
  ASSUME CallsOK, NEW g \in Goroutine, DeleteFromDependencies(g)
  PROVE  /\ UNCHANGED <<Tasks, TaskNameIndex, hist>>
         /\ call[g].pc = "deldeps" /\ On(g)
         /\ Dependencies' = Without(Dependencies, call[g].id)
         /\ Goes(g, "sweep")
<1>1. On(g)
  BY DEF DeleteFromDependencies, On
<1>2. "sweep" \in Places
  BY PlacesFacts
<1> QED
  BY <1>1, <1>2, GotoForm DEF DeleteFromDependencies

\* What is left is less.
LEMMA SweepDependentsEffect ==
  ASSUME CallsOK, NEW g \in Goroutine, SweepDependents(g)
  PROVE  /\ UNCHANGED <<Tasks, TaskNameIndex, hist>>
         /\ call[g].pc = "sweep" /\ On(g) /\ Ends(g)
         /\ Dependencies' = [t \in DOMAIN Dependencies' |-> Dependencies[t] \ {call[g].id}]
         /\ DOMAIN Dependencies' \subseteq DOMAIN Dependencies
         /\ \A t \in DOMAIN Dependencies :
              call[g].id \notin Dependencies[t] => t \in DOMAIN Dependencies'
BY ReturnForm DEF SweepDependents, On

\* What reading the index does.
LEMMA ReadNamesEffect ==
  ASSUME MapsOK, CallsOK, NEW g \in Goroutine, ReadNames(g)
  PROVE  /\ UNCHANGED <<Tasks, TaskNameIndex, Dependencies, hist>>
         /\ call[g].pc = "validate" /\ On(g)
         /\ Goes(g, "valnames") /\ call'[g].names = TaskNameIndex
<1>1. On(g)
  BY DEF ReadNames, On
<1>2. "valnames" \in Places
  BY PlacesFacts
<1>3. TaskNameIndex \in NameMaps
  BY DEF MapsOK, NameMaps
<1>4. NamesStep(g, "valnames", TaskNameIndex)
  BY DEF ReadNames, NamesStep
<1> QED
  BY <1>1, <1>2, <1>3, <1>4, NamesForm DEF ReadNames

\* The names Validate checks the dependencies with.
FirstOf == [n \in {TaskNameOf[Tasks[i]] : i \in DOMAIN Tasks} |->
              CHOOSE i \in DOMAIN Tasks : TaskNameOf[Tasks[i]] = n]

\* A Validate that is over.
LEMMA OverFacts ==
  ASSUME MapsOK, NEW m \in NameMaps
  PROVE  /\ Over(m, FirstOf) \in NameMaps
         /\ DOMAIN Over(m, FirstOf) = DOMAIN m \cup {TaskNameOf[Tasks[i]] : i \in DOMAIN Tasks}
<1>1. PICK D \in SUBSET Names(Object) : m \in [D -> Id]
  BY DEF NameMaps
<1>2. \A i \in DOMAIN Tasks : i \in Id /\ TaskNameOf[Tasks[i]] \in Names(Object)
  BY DEF MapsOK, Id, Names
<1> DEFINE N == {TaskNameOf[Tasks[i]] : i \in DOMAIN Tasks}
<1>3. N \in SUBSET Names(Object)
  BY <1>2
<1>4. \A n \in N : (CHOOSE i \in DOMAIN Tasks : TaskNameOf[Tasks[i]] = n) \in DOMAIN Tasks
  OBVIOUS
<1>5. FirstOf \in [N -> Id]
  BY <1>2, <1>4 DEF FirstOf
<1> HIDE DEF N
<1>6. Over(m, FirstOf) \in [D \cup N -> Id]
  BY <1>1, <1>5 DEF Over
<1>7. D \cup N \in SUBSET Names(Object)
  BY <1>3
<1>8. Over(m, FirstOf) \in NameMaps
  BY <1>6, <1>7 DEF NameMaps
<1> QED
  BY <1>1, <1>6, <1>8 DEF N

\* What the check of the names does.
LEMMA CheckNamesEffect ==
  ASSUME MapsOK, CallsOK, NEW g \in Goroutine, CheckNames(g)
  PROVE  /\ UNCHANGED <<Tasks, TaskNameIndex, Dependencies, hist>>
         /\ call[g].pc = "valnames" /\ On(g)
         /\ \/ Ends(g)
            \/ Goes(g, "valdeps") /\ call'[g].names = Over(call[g].names, FirstOf)
<1>1. On(g) /\ call[g] \in CallSet
  BY OnFacts DEF CheckNames, On
<1>2. "valdeps" \in Places
  BY PlacesFacts
<1>3. call[g].names \in NameMaps
  BY <1>1 DEF CallSet
<1>4. Return(g) \/ NamesStep(g, "valdeps", Over(call[g].names, FirstOf))
  BY <1>1 DEF CheckNames, NamesStep, FirstOf, CallsOK
<1>5. UNCHANGED <<Tasks, TaskNameIndex, Dependencies, hist>> /\ call[g].pc = "valnames"
  BY DEF CheckNames
<1>6. Over(call[g].names, FirstOf) \in NameMaps
  BY <1>3, OverFacts
<1> QED
  BY <1>1, <1>2, <1>4, <1>5, <1>6, ReturnForm, NamesForm

\* No task depends on a name that is not there or is its own.
NamesFit(byName) ==
  \A i \in DOMAIN Tasks : \A n \in NamesOf[Tasks[i]] : n \in DOMAIN byName /\ byName[n] # i

\* What the check of the dependencies does.
LEMMA CheckDependenciesEffect ==
  ASSUME CallsOK, NEW g \in Goroutine, CheckDependencies(g)
  PROVE  /\ UNCHANGED <<Tasks, TaskNameIndex, Dependencies>>
         /\ call[g].pc = "valdeps" /\ On(g) /\ Ends(g)
         /\ hist' \in HistSet /\ hist'.stale = hist.stale /\ hist'.overlap = hist.overlap
         /\ hist'.torn = hist.torn /\ hist'.circular = hist.circular
         /\ hist'.valid => call[g].alone /\ NamesFit(Over(TaskNameIndex, call[g].names))
<1>1. On(g) /\ Ends(g) /\ call[g] \in CallSet
  BY ReturnForm, OnFacts DEF CheckDependencies, On
<1> DEFINE byName == Over(TaskNameIndex, call[g].names)
           b == ~(\E i \in DOMAIN Tasks : \E n \in NamesOf[Tasks[i]] :
                    n \notin DOMAIN byName \/ byName[n] = i) /\ call[g].alone
<1>2. hist' = [hist EXCEPT !.valid = b]
  BY DEF CheckDependencies
<1>3. b => NamesFit(byName) /\ call[g].alone
  BY DEF NamesFit
<1>4. b \in BOOLEAN
  BY <1>1 DEF CallSet
<1> HIDE DEF b
<1>5. /\ hist' \in HistSet /\ hist'.stale = hist.stale /\ hist'.overlap = hist.overlap
      /\ hist'.torn = hist.torn /\ hist'.circular = hist.circular /\ hist'.valid = b
  BY <1>2, <1>4 DEF CallsOK, HistSet
<1> QED
  BY <1>1, <1>3, <1>5 DEF CheckDependencies

\* A call that is on when another begins is no longer alone.
AloneRec(k) == [k EXCEPT !.alone = FALSE]

\* A call that is no longer alone.
LEMMA AloneRecord ==
  ASSUME NEW k \in CallSet
  PROVE  /\ AloneRec(k) \in CallSet
         /\ LET l == AloneRec(k) IN
            /\ l.pc = k.pc /\ l.kind = k.kind /\ l.object = k.object /\ l.id = k.id
            /\ l.parent = k.parent /\ l.todo = k.todo /\ l.ids = k.ids /\ l.old = k.old
            /\ l.names = k.names /\ ~l.alone
BY DEF CallSet, AloneRec

NewRec(kind, object, id, parent, alone) ==
  [pc |-> kind, kind |-> kind, object |-> object, id |-> id, parent |-> parent,
   todo |-> {}, ids |-> {}, old |-> None, names |-> [n \in {} |-> None], alone |-> alone]

\* The map Validate starts with.
LEMMA NoNames == [n \in {} |-> None] \in NameMaps
<1>1. [n \in {} |-> None] \in [{} -> Id]
  OBVIOUS
<1> QED
  BY <1>1 DEF NameMaps

Stays(h) ==
  /\ ~On(h) => call'[h] = call[h]
  /\ On(h) =>
       /\ call'[h] \in CallSet /\ call'[h].pc = call[h].pc /\ call'[h].kind = call[h].kind
       /\ call'[h].object = call[h].object /\ call'[h].id = call[h].id
       /\ call'[h].parent = call[h].parent /\ call'[h].todo = call[h].todo
       /\ call'[h].ids = call[h].ids /\ call'[h].old = call[h].old
       /\ call'[h].names = call[h].names /\ ~call'[h].alone

\* What a call is begun with.
Arguments(kind, object, id, parent) ==
  \/ kind \in {"add", "update"} /\ object \in Object /\ id = IdOf[object] /\ parent = None
  \/ kind = "addsub" /\ object \in Object /\ id = IdOf[object] /\ parent \in Id
  \/ kind = "delete" /\ object = None /\ id \in Id /\ parent = None
  \/ kind = "validate" /\ object = None /\ id = None /\ parent = None

\* A call that begins: what it is, and that all the others are no longer alone.
LEMMA BeginEffect ==
  ASSUME CallsOK, NEW g \in Goroutine, NEW kind, NEW object, NEW id, NEW parent,
         Arguments(kind, object, id, parent), Begin(g, kind, object, id, parent)
  PROVE  /\ UNCHANGED <<Tasks, TaskNameIndex, Dependencies>> /\ ~On(g)
         /\ call' \in [Goroutine -> {Idle} \cup CallSet]
         /\ call'[g] \in CallSet /\ call'[g].pc = kind /\ call'[g].kind = kind
         /\ call'[g].object = object
         /\ call'[g].id = id /\ call'[g].parent = parent
         /\ call'[g].alone => \A h \in Goroutine \ {g} : ~On(h)
         /\ \A h \in Goroutine \ {g} : Stays(h)
         /\ hist' \in HistSet /\ hist'.stale = hist.stale /\ ~hist'.valid
         /\ hist'.overlap = (hist.overlap \/ \E h \in Goroutine \ {g} : On(h))
         /\ hist'.torn = (hist.torn \/ \E h \in Goroutine \ {g} :
              On(h) /\ (Changes(kind) \/ Changes(call[h].kind)))
         /\ hist'.circular = (hist.circular \/ kind = "update" \/ (kind = "addsub" /\ parent = id))
<1> DEFINE others == {h \in Goroutine \ {g} : call[h].pc # "idle"}
<1>0. PICK a \in BOOLEAN : a = (others = {})
  OBVIOUS
<1>a. PICK l : l = NewRec(kind, object, id, parent, a)
  OBVIOUS
<1>1. /\ kind \in {"add", "addsub", "update", "delete", "validate"}
      /\ object \in Object \cup {None} /\ id \in Id \cup {None} /\ parent \in Id \cup {None}
  BY DEF Arguments, Id
<1>2. l \in CallSet /\ l.pc = kind /\ l.kind = kind /\ l.object = object /\ l.id = id
      /\ l.parent = parent /\ l.alone = a
  <2>1. NewRec(kind, object, id, parent, a) \in CallSet
    <3> DEFINE m == [n \in {} |-> None]
    <3>1. m \in NameMaps
      BY NoNames
    <3> HIDE DEF m
    <3>2. [pc |-> kind, kind |-> kind, object |-> object, id |-> id, parent |-> parent,
           todo |-> {}, ids |-> {}, old |-> None, names |-> m, alone |-> a] \in CallSet
      BY <1>1, <3>1 DEF CallSet, AddPlaces, SubPlaces, UpdatePlaces, DeletePlaces, CheckPlaces
    <3> QED
      BY <3>2 DEF NewRec, m
  <2>2. /\ NewRec(kind, object, id, parent, a).pc = kind /\ NewRec(kind, object, id, parent, a).kind = kind
        /\ NewRec(kind, object, id, parent, a).object = object /\ NewRec(kind, object, id, parent, a).id = id
        /\ NewRec(kind, object, id, parent, a).parent = parent /\ NewRec(kind, object, id, parent, a).alone = a
    BY DEF NewRec
  <2> QED
    BY <1>a, <2>1, <2>2
<1>3. call' = [h \in Goroutine |->
                 IF h = g THEN l ELSE IF h \in others THEN AloneRec(call[h]) ELSE call[h]]
  BY <1>0, <1>a DEF Begin, NewRec, AloneRec
<1>4. call'[g] = l
  BY <1>3
<1>5. \A h \in Goroutine \ {g} : Stays(h)
  <2> TAKE h \in Goroutine \ {g}
  <2>1. CASE ~On(h)
    BY <1>3, <2>1 DEF Stays, On
  <2>2. CASE On(h)
    <3>1. call'[h] = AloneRec(call[h]) /\ call[h] \in CallSet
      BY <1>3, <2>2, OnFacts DEF On
    <3> QED
      BY <2>2, <3>1, AloneRecord DEF Stays
  <2> QED
    BY <2>1, <2>2
<1>6. call' \in [Goroutine -> {Idle} \cup CallSet]
  <2>1. \A h \in Goroutine : call'[h] \in {Idle} \cup CallSet
    BY <1>2, <1>4, <1>5 DEF Stays, CallsOK
  <2> QED
    BY <1>3, <2>1
<1>7. \A h \in Goroutine \ {g} : h \in others <=> On(h)
  BY DEF On
<1>8. /\ hist' = [hist EXCEPT
           !.calls = @ + 1,
           !.overlap = @ \/ others # {},
           !.torn = @ \/ \E h \in others : Changes(kind) \/ Changes(call[h].kind),
           !.circular = @ \/ kind = "update" \/ (kind = "addsub" /\ parent = id),
           !.valid = FALSE]
      /\ hist \in HistSet
  BY DEF Begin, CallsOK
<1> DEFINE b1 == hist.overlap \/ others # {}
           b2 == hist.torn \/ \E h \in others : Changes(kind) \/ Changes(call[h].kind)
           b3 == hist.circular \/ kind = "update" \/ (kind = "addsub" /\ parent = id)
<1>9. b1 \in BOOLEAN /\ b2 \in BOOLEAN /\ b3 \in BOOLEAN /\ hist.calls + 1 \in Nat
  BY <1>8 DEF HistSet
<1>10. hist' = [hist EXCEPT !.calls = hist.calls + 1, !.overlap = b1, !.torn = b2,
                            !.circular = b3, !.valid = FALSE]
  BY <1>8 DEF HistSet
<1> HIDE DEF b1, b2, b3
<1>11. /\ hist' \in HistSet /\ hist'.stale = hist.stale /\ ~hist'.valid
       /\ hist'.overlap = b1 /\ hist'.torn = b2 /\ hist'.circular = b3
  BY <1>8, <1>9, <1>10 DEF HistSet
<1>12. b1 = (hist.overlap \/ \E h \in Goroutine \ {g} : On(h))
  BY <1>7, <1>8 DEF b1, HistSet
<1>13. b2 = (hist.torn \/ \E h \in Goroutine \ {g} :
               On(h) /\ (Changes(kind) \/ Changes(call[h].kind)))
  BY <1>7, <1>8 DEF b2, HistSet
<1>14. /\ UNCHANGED <<Tasks, TaskNameIndex, Dependencies>> /\ ~On(g)
  BY DEF Begin, On
<1>15. call'[g].alone => \A h \in Goroutine \ {g} : ~On(h)
  BY <1>0, <1>2, <1>4, <1>7
<1> QED
  BY <1>2, <1>4, <1>5, <1>6, <1>11, <1>12, <1>13, <1>14, <1>15 DEF b3

-----------------------------------------------------------------------------
(* Types.                                                                  *)

\* The steps of a call that is on.
Proceeds(g) == Adding(g) \/ Updating(g) \/ Deleting(g) \/ Validating(g)

\* A step is that of one goroutine, or none.
LEMMA StepCases ==
  ASSUME [DefNext]_defVars
  PROVE  \/ UNCHANGED defVars
         \/ \E g \in Goroutine : Proceeds(g)
         \/ \E g \in Goroutine : \E kind, object, id, parent :
              Arguments(kind, object, id, parent) /\ Begin(g, kind, object, id, parent)
<1>1. ASSUME NEW g \in Goroutine, Calls(g)
      PROVE  \E kind, object, id, parent :
               Arguments(kind, object, id, parent) /\ Begin(g, kind, object, id, parent)
  <2>1. ASSUME NEW o \in Object, Begin(g, "add", o, IdOf[o], None)
        PROVE  Arguments("add", o, IdOf[o], None)
    BY DEF Arguments
  <2>2. ASSUME NEW o \in Object, Begin(g, "update", o, IdOf[o], None)
        PROVE  Arguments("update", o, IdOf[o], None)
    BY DEF Arguments
  <2>3. ASSUME NEW i \in Id, Begin(g, "delete", None, i, None)
        PROVE  Arguments("delete", None, i, None)
    BY DEF Arguments
  <2>4. ASSUME NEW o \in Object, NEW p \in Id, Begin(g, "addsub", o, IdOf[o], p)
        PROVE  Arguments("addsub", o, IdOf[o], p)
    BY DEF Arguments
  <2>5. Arguments("validate", None, None, None)
    BY DEF Arguments
  <2> QED
    BY <1>1, <2>1, <2>2, <2>3, <2>4, <2>5, Zenon DEF Calls
<1> QED
  BY <1>1 DEF DefNext, Proceeds

\* A call that goes to a place of its kind, or returns, leaves the records right.
LEMMA GoesKeepsCalls ==
  ASSUME CallsOK, NEW g \in Goroutine, On(g), NEW q, Goes(g, q), hist' \in HistSet,
         \/ call[g].kind = "add" /\ q \in AddPlaces
         \/ call[g].kind = "addsub" /\ q \in SubPlaces
         \/ call[g].kind = "update" /\ q \in UpdatePlaces
         \/ call[g].kind = "delete" /\ q \in DeletePlaces
         \/ call[g].kind = "validate" /\ q \in CheckPlaces
  PROVE  CallsOK'
<1>1. Fits(call[g])
  BY OnFacts
<1>2. Fits(call'[g])
  BY <1>1 DEF Goes, Fits
<1>3. \A h \in Goroutine : call'[h] \in {Idle} \cup CallSet
  BY DEF Goes, Others, CallsOK
<1>4. call' \in [Goroutine -> {Idle} \cup CallSet]
  BY <1>3 DEF Goes, Others
<1> QED
  BY <1>2, <1>4 DEF Goes, Others, CallsOK

\* A call that ends leaves the records right.
LEMMA EndsKeepsCalls ==
  ASSUME CallsOK, NEW g \in Goroutine, Ends(g), hist' \in HistSet
  PROVE  CallsOK'
<1>1. \A h \in Goroutine : call'[h] \in {Idle} \cup CallSet
  BY DEF Ends, Others, CallsOK
<1>2. call' \in [Goroutine -> {Idle} \cup CallSet]
  BY <1>1 DEF Ends, Others
<1> QED
  BY <1>2, IdleFacts DEF Ends, Others, CallsOK

\* What a step may do to the maps.
LEMMA PutTaskOK ==
  ASSUME MapsOK, NEW o \in Object, Tasks' = Put(Tasks, IdOf[o], o),
         UNCHANGED <<TaskNameIndex, Dependencies>>
  PROVE  MapsOK'
BY DEF MapsOK, Put

\* One task less.
LEMMA WithoutTaskOK ==
  ASSUME MapsOK, NEW i, Tasks' = Without(Tasks, i), UNCHANGED <<TaskNameIndex, Dependencies>>
  PROVE  MapsOK'
BY DEF MapsOK, Without

\* One name more.
LEMMA PutNameOK ==
  ASSUME MapsOK, NEW n \in Names(Object), NEW i \in Id, TaskNameIndex' = Put(TaskNameIndex, n, i),
         UNCHANGED <<Tasks, Dependencies>>
  PROVE  MapsOK'
BY DEF MapsOK, Put

\* One name less.
LEMMA WithoutNameOK ==
  ASSUME MapsOK, NEW n, TaskNameIndex' = Without(TaskNameIndex, n),
         UNCHANGED <<Tasks, Dependencies>>
  PROVE  MapsOK'
BY DEF MapsOK, Without

\* The dependencies of one task.
LEMMA PutDependenciesOK ==
  ASSUME MapsOK, NEW i, NEW D \in SUBSET Id, Dependencies' = Put(Dependencies, i, D),
         UNCHANGED <<Tasks, TaskNameIndex>>
  PROVE  MapsOK'
BY DEF MapsOK, Put

\* The dependencies of one task less.
LEMMA WithoutDependenciesOK ==
  ASSUME MapsOK, NEW i, Dependencies' = Without(Dependencies, i),
         UNCHANGED <<Tasks, TaskNameIndex>>
  PROVE  MapsOK'
BY DEF MapsOK, Without

\* The maps as they were.
LEMMA SameMapsOK ==
  ASSUME MapsOK, UNCHANGED <<Tasks, TaskNameIndex, Dependencies>>
  PROVE  MapsOK'
BY DEF MapsOK

\* hist.stale is a flag.
LEMMA StalesType == ASSUME NEW b, Stales(b) PROVE hist' \in HistSet
BY DEF Stales

\* A step of AddTask or AddSubTask keeps the types.
LEMMA AddingKeepsTypes ==
  ASSUME DefTypeOK, NEW g \in Goroutine, Adding(g)
  PROVE  DefTypeOK'
<1> USE DEF DefTypeOK
<1>0. hist \in HistSet
  BY DEF CallsOK
<1> USE DEF AddPlaces, SubPlaces, UpdatePlaces
<1>1. CASE StoreTask(g)
  <2>1. call[g].kind \in {"add", "addsub"} /\ On(g)
    BY <1>1, StoreTaskEffect, PlaceFacts
  <2>2. CallsOK'
    <3>1. CASE Ends(g)
      BY <1>0, <1>1, <3>1, StoreTaskEffect, EndsKeepsCalls
    <3>2. CASE Goes(g, IF call[g].kind = "add" THEN "index" ELSE "parent")
      BY <1>0, <1>1, <2>1, <3>2, StoreTaskEffect, GoesKeepsCalls
    <3> QED
      BY <1>1, <3>1, <3>2, StoreTaskEffect
  <2>3. MapsOK'
    BY <1>1, <2>1, StoreTaskEffect, ArgumentFacts, PutTaskOK, SameMapsOK
  <2> QED
    BY <2>2, <2>3
<1>2. CASE CheckParent(g)
  <2>1. call[g].kind = "addsub" /\ On(g) /\ (Goes(g, "index") \/ Goes(g, "undo"))
    BY <1>2, CheckParentEffect, PlaceFacts
  <2> QED
    BY <1>0, <1>2, <2>1, CheckParentEffect, GoesKeepsCalls, SameMapsOK
<1>3. CASE StoreName(g)
  <2>1. call[g].kind \in {"add", "addsub"} /\ On(g)
    BY <1>3, StoreNameEffect, PlaceFacts
  <2>2. CallsOK'
    <3>1. CASE Goes(g, "undo")
      BY <1>0, <1>3, <2>1, <3>1, StoreNameEffect, GoesKeepsCalls
    <3>2. CASE Goes(g, IF call[g].kind = "add" THEN "lookup" ELSE "store")
      BY <1>0, <1>3, <2>1, <3>2, StoreNameEffect, GoesKeepsCalls
    <3> QED
      BY <1>3, <3>1, <3>2, StoreNameEffect
  <2>3. MapsOK'
    BY <1>3, <2>1, StoreNameEffect, ArgumentFacts, PutNameOK, SameMapsOK
  <2> QED
    BY <2>2, <2>3
<1>4. CASE LookUp(g)
  <2>1. call[g].kind \in {"add", "update"} /\ On(g) /\ MapsOK'
    BY <1>4, LookUpEffect, PlaceFacts, SameMapsOK
  <2>2. hist' \in HistSet
    BY <1>0, <1>4, LookUpEffect, StalesType DEF HistStays
  <2>3. \/ Goes(g, "lookup") \/ Ends(g) \/ (call[g].kind = "add" /\ Goes(g, "undoboth"))
    BY <1>4, LookUpEffect
  <2> QED
    BY <2>1, <2>2, <2>3, EndsKeepsCalls, GoesKeepsCalls
<1>5. CASE StoreDependencies(g)
  <2>1. On(g) /\ CallsOK'
    BY <1>0, <1>5, StoreDependenciesEffect, EndsKeepsCalls
  <2>2. call[g].ids \in SUBSET Id
    BY <2>1, OnFacts DEF CallSet
  <2> QED
    BY <1>5, <2>1, <2>2, StoreDependenciesEffect, PutDependenciesOK, WithoutDependenciesOK,
       SameMapsOK
<1>6. CASE LoadDependencies(g)
  <2>1. call[g].kind = "addsub" /\ On(g)
    BY <1>6, LoadDependenciesEffect, PlaceFacts
  <2>2. CallsOK'
    BY <1>6, <2>1, LoadDependenciesEffect, StalesType, GoesKeepsCalls, EndsKeepsCalls
  <2>3. There(g) \in SUBSET Id
    BY DEF MapsOK, There
  <2> QED
    BY <1>6, <2>2, <2>3, LoadDependenciesEffect, PutDependenciesOK
<1>7. CASE UndoTask(g)
  <2>1. call[g].pc = "undoboth" => call[g].kind = "add"
    BY PlaceFacts
  <2> QED
    BY <1>0, <1>7, <2>1, UndoTaskEffect, GoesKeepsCalls, EndsKeepsCalls, WithoutTaskOK
<1>8. CASE UndoName(g)
  BY <1>0, <1>8, UndoNameEffect, EndsKeepsCalls, WithoutNameOK
<1> QED
  BY <1>1, <1>2, <1>3, <1>4, <1>5, <1>6, <1>7, <1>8 DEF Adding

\* A step of UpdateTask keeps the types.
LEMMA UpdatingKeepsTypes ==
  ASSUME DefTypeOK, NEW g \in Goroutine, Updating(g)
  PROVE  DefTypeOK'
<1> USE DEF DefTypeOK
<1>0. hist \in HistSet
  BY DEF CallsOK
<1>1. call[g].kind = "update" /\ On(g)
  BY PlaceFacts, LoadOldEffect, CheckNameEffect, UnnameEffect, RenameEffect, ReplaceEffect
     DEF Updating, UpdatePlaces
<1>2. /\ call[g].object \in Object /\ IdOf[call[g].object] = call[g].id
      /\ TaskNameOf[call[g].object] \in Names(Object) /\ call[g].id \in Id
  BY <1>1, ArgumentFacts
<1>3. CASE LoadOld(g)
  BY <1>0, <1>1, <1>3, LoadOldEffect, GoesKeepsCalls, EndsKeepsCalls, SameMapsOK DEF UpdatePlaces
<1>4. CASE CheckName(g)
  BY <1>0, <1>1, <1>4, CheckNameEffect, GoesKeepsCalls, EndsKeepsCalls, SameMapsOK DEF UpdatePlaces
<1>5. CASE Unname(g)
  BY <1>1, <1>5, UnnameEffect, StalesType, GoesKeepsCalls, WithoutNameOK DEF UpdatePlaces
<1>6. CASE Rename(g)
  BY <1>0, <1>1, <1>2, <1>6, RenameEffect, GoesKeepsCalls, PutNameOK DEF UpdatePlaces
<1>7. CASE Replace(g)
  BY <1>0, <1>1, <1>2, <1>7, ReplaceEffect, GoesKeepsCalls, PutTaskOK DEF UpdatePlaces
<1> QED
  BY <1>3, <1>4, <1>5, <1>6, <1>7 DEF Updating

\* A step of DeleteTask keeps the types.
LEMMA DeletingKeepsTypes ==
  ASSUME DefTypeOK, NEW g \in Goroutine, Deleting(g)
  PROVE  DefTypeOK'
<1> USE DEF DefTypeOK
<1>0. hist \in HistSet
  BY DEF CallsOK
<1>1. call[g].kind = "delete" /\ On(g)
  BY PlaceFacts, LoadTaskEffect, ScanDependentsEffect, DeleteFromTasksEffect,
     DeleteFromIndexEffect, DeleteFromDependenciesEffect, SweepDependentsEffect
     DEF Deleting, DeletePlaces
<1>2. CASE LoadTask(g)
  BY <1>0, <1>1, <1>2, LoadTaskEffect, GoesKeepsCalls, EndsKeepsCalls, SameMapsOK DEF DeletePlaces
<1>3. CASE ScanDependents(g)
  BY <1>0, <1>1, <1>3, ScanDependentsEffect, GoesKeepsCalls, EndsKeepsCalls, SameMapsOK
     DEF DeletePlaces
<1>4. CASE DeleteFromTasks(g)
  BY <1>0, <1>1, <1>4, DeleteFromTasksEffect, GoesKeepsCalls, WithoutTaskOK DEF DeletePlaces
<1>5. CASE DeleteFromIndex(g)
  BY <1>0, <1>1, <1>5, DeleteFromIndexEffect, GoesKeepsCalls, WithoutNameOK DEF DeletePlaces
<1>6. CASE DeleteFromDependencies(g)
  BY <1>0, <1>1, <1>6, DeleteFromDependenciesEffect, GoesKeepsCalls, WithoutDependenciesOK
     DEF DeletePlaces
<1>7. CASE SweepDependents(g)
  <2>1. MapsOK'
    <3>1. \A t \in DOMAIN Dependencies' : Dependencies'[t] \in SUBSET Id
      BY <1>7, SweepDependentsEffect DEF MapsOK
    <3>2. Dependencies' \in [DOMAIN Dependencies' -> SUBSET Id]
      BY <1>7, <3>1, SweepDependentsEffect
    <3> QED
      BY <1>7, <3>2, SweepDependentsEffect DEF MapsOK
  <2> QED
    BY <1>0, <1>7, <2>1, SweepDependentsEffect, EndsKeepsCalls
<1> QED
  BY <1>2, <1>3, <1>4, <1>5, <1>6, <1>7 DEF Deleting

\* A step of Validate keeps the types.
LEMMA ValidatingKeepsTypes ==
  ASSUME DefTypeOK, NEW g \in Goroutine, Validating(g)
  PROVE  DefTypeOK'
<1> USE DEF DefTypeOK
<1>0. hist \in HistSet
  BY DEF CallsOK
<1>1. call[g].kind = "validate" /\ On(g)
  BY PlaceFacts, ReadNamesEffect, CheckNamesEffect, CheckDependenciesEffect
     DEF Validating, CheckPlaces
<1>2. CASE ReadNames(g)
  BY <1>0, <1>1, <1>2, ReadNamesEffect, GoesKeepsCalls, SameMapsOK DEF CheckPlaces
<1>3. CASE CheckNames(g)
  BY <1>0, <1>1, <1>3, CheckNamesEffect, GoesKeepsCalls, EndsKeepsCalls, SameMapsOK DEF CheckPlaces
<1>4. CASE CheckDependencies(g)
  BY <1>4, CheckDependenciesEffect, EndsKeepsCalls, SameMapsOK
<1> QED
  BY <1>2, <1>3, <1>4 DEF Validating

\* The start of a call keeps the types.
LEMMA BeginKeepsTypes ==
  ASSUME DefTypeOK, NEW g \in Goroutine, NEW kind, NEW object, NEW id, NEW parent,
         Arguments(kind, object, id, parent), Begin(g, kind, object, id, parent)
  PROVE  DefTypeOK'
<1> USE DEF DefTypeOK
<1>1. Fits(call'[g])
  BY BeginEffect DEF Arguments, Fits, AddPlaces, SubPlaces, UpdatePlaces, DeletePlaces,
     CheckPlaces, Id
<1>2. ASSUME NEW h \in Goroutine \ {g}, call'[h].pc # "idle" PROVE Fits(call'[h])
  <2>1. Stays(h)
    BY BeginEffect
  <2>2. On(h)
    BY <1>2, <2>1 DEF Stays, On
  <2>3. Fits(call[h])
    BY <2>2, OnFacts
  <2> QED
    BY <2>1, <2>2, <2>3 DEF Stays, Fits
<1>3. CallsOK'
  BY <1>1, <1>2, BeginEffect DEF CallsOK
<1> QED
  BY <1>3, BeginEffect, SameMapsOK

\* The workflow at the start, object by object.
StartsWith(S) ==
  /\ S \in Starts /\ S \subseteq Object
  /\ DOMAIN Tasks = {IdOf[o] : o \in S} /\ DOMAIN TaskNameIndex = Names(S)
  /\ Tasks = [i \in DOMAIN Tasks |-> Tasks[i]]
  /\ TaskNameIndex = [n \in DOMAIN TaskNameIndex |-> TaskNameIndex[n]]
  /\ Dependencies = [i \in DOMAIN Dependencies |-> Dependencies[i]]
  /\ \A o \in S : Tasks[IdOf[o]] = o /\ TaskNameIndex[TaskNameOf[o]] = IdOf[o]
  /\ DOMAIN Dependencies = {IdOf[o] : o \in {p \in S : NamesOf[p] # {}}}
  /\ \A o \in S : NamesOf[o] # {} =>
       Dependencies[IdOf[o]] = {TaskNameIndex[n] : n \in NamesOf[o]}

\* What the maps hold at the start is one of Starts.
LEMMA InitMaps ==
  ASSUME DefInit
  PROVE  \E S \in Starts : StartsWith(S) /\ Built(S)
<1>1. PICK S \in Starts :
        /\ Tasks = [i \in {IdOf[o] : o \in S} |-> CHOOSE o \in S : IdOf[o] = i]
        /\ TaskNameIndex = [n \in Names(S) |-> IdOf[CHOOSE o \in S : TaskNameOf[o] = n]]
        /\ Dependencies =
             [i \in {IdOf[o] : o \in {p \in S : NamesOf[p] # {}}} |->
                {IdOf[CHOOSE o \in S : TaskNameOf[o] = n] :
                   n \in NamesOf[CHOOSE o \in S : IdOf[o] = i]}]
  BY DEF DefInit
<1>2. S \subseteq Object /\ Built(S)
  BY DefinitionAssumption DEF Built
<1>3. \A o \in S : (CHOOSE p \in S : IdOf[p] = IdOf[o]) = o
  BY <1>2 DEF Built
<1>4. \A o \in S : (CHOOSE p \in S : TaskNameOf[p] = TaskNameOf[o]) = o
  BY <1>2 DEF Built
<1>5. \A o \in S : Tasks[IdOf[o]] = o
  BY <1>1, <1>3
<1>6. \A o \in S : TaskNameIndex[TaskNameOf[o]] = IdOf[o]
  BY <1>1, <1>4 DEF Names
<1>7. \A o \in S : NamesOf[o] # {} =>
        Dependencies[IdOf[o]] = {TaskNameIndex[n] : n \in NamesOf[o]}
  <2> SUFFICES ASSUME NEW o \in S, NamesOf[o] # {}
               PROVE  Dependencies[IdOf[o]] = {TaskNameIndex[n] : n \in NamesOf[o]}
    OBVIOUS
  <2>1. Dependencies[IdOf[o]] =
          {IdOf[CHOOSE p \in S : TaskNameOf[p] = n] : n \in NamesOf[CHOOSE p \in S : IdOf[p] = IdOf[o]]}
    BY <1>1
  <2>2. Dependencies[IdOf[o]] = {IdOf[CHOOSE p \in S : TaskNameOf[p] = n] : n \in NamesOf[o]}
    BY <1>3, <2>1
  <2>3. \A n \in NamesOf[o] : IdOf[CHOOSE p \in S : TaskNameOf[p] = n] = TaskNameIndex[n]
    BY <1>1, <1>2 DEF Built
  <2> DEFINE f(n) == IdOf[CHOOSE p \in S : TaskNameOf[p] = n]
  <2>4. \A n \in NamesOf[o] : f(n) = TaskNameIndex[n]
    BY <2>3
  <2>5. Dependencies[IdOf[o]] = {f(n) : n \in NamesOf[o]}
    BY <2>2
  <2> HIDE DEF f
  <2> QED
    BY <2>4, <2>5
<1>8. DOMAIN Tasks = {IdOf[o] : o \in S} /\ Tasks = [i \in DOMAIN Tasks |-> Tasks[i]]
  BY <1>1
<1>9. DOMAIN TaskNameIndex = Names(S) /\ TaskNameIndex = [n \in DOMAIN TaskNameIndex |-> TaskNameIndex[n]]
  BY <1>1
<1>10. /\ DOMAIN Dependencies = {IdOf[o] : o \in {p \in S : NamesOf[p] # {}}}
       /\ Dependencies = [i \in DOMAIN Dependencies |-> Dependencies[i]]
  BY <1>1
<1>11. StartsWith(S)
  BY <1>2, <1>5, <1>6, <1>7, <1>8, <1>9, <1>10 DEF StartsWith
<1> QED
  BY <1>2, <1>11

\* So it is at the start.
LEMMA InitTypes ==
  ASSUME DefInit
  PROVE  DefTypeOK
<1>1. PICK S \in Starts : StartsWith(S) /\ Built(S)
  BY InitMaps
<1>2. Tasks \in [DOMAIN Tasks -> Object] /\ \A i \in DOMAIN Tasks : IdOf[Tasks[i]] = i
  <2>1. \A i \in DOMAIN Tasks : Tasks[i] \in Object /\ IdOf[Tasks[i]] = i
    BY <1>1 DEF StartsWith
  <2> QED
    BY <1>1, <2>1 DEF StartsWith
<1>3. TaskNameIndex \in [DOMAIN TaskNameIndex -> Id] /\ DOMAIN TaskNameIndex \subseteq Names(Object)
  <2>1. \A n \in DOMAIN TaskNameIndex : TaskNameIndex[n] \in Id /\ n \in Names(Object)
    BY <1>1 DEF StartsWith, Names, Id
  <2> QED
    BY <1>1, <2>1 DEF StartsWith
<1>4. Dependencies \in [DOMAIN Dependencies -> SUBSET Id]
  <2>1. \A i \in DOMAIN Dependencies : Dependencies[i] \subseteq Id
    <3> SUFFICES ASSUME NEW o \in S, NamesOf[o] # {} PROVE Dependencies[IdOf[o]] \subseteq Id
      BY <1>1 DEF StartsWith
    <3>1. Dependencies[IdOf[o]] = {TaskNameIndex[n] : n \in NamesOf[o]}
      BY <1>1 DEF StartsWith
    <3>2. \A n \in NamesOf[o] : TaskNameIndex[n] \in Id
      BY <1>1, <1>3 DEF StartsWith, Built
    <3> QED
      BY <3>1, <3>2
  <2> QED
    BY <1>1, <2>1 DEF StartsWith
<1>5. CallsOK
  BY IdleFacts DEF DefInit, CallsOK, HistSet
<1> QED
  BY <1>2, <1>3, <1>4, <1>5 DEF DefTypeOK, MapsOK

-----------------------------------------------------------------------------
(* What the flags say.                                                     *)

\* What every step of a call that is on has in common.
Moves(g) ==
  /\ On(g)
  /\ Ends(g) \/ \E q \in Places : Goes(g, q)
  /\ hist'.overlap = hist.overlap /\ hist'.torn = hist.torn /\ hist'.circular = hist.circular
  /\ hist'.valid => hist.valid \/ (CheckDependencies(g) /\ Ends(g) /\ call[g].alone)

\* hist.stale is none of the flags of FlagsInv.
LEMMA StalesFlags ==
  ASSUME NEW b, Stales(b)
  PROVE  /\ hist'.overlap = hist.overlap /\ hist'.torn = hist.torn
         /\ hist'.circular = hist.circular /\ hist'.valid = hist.valid
BY DEF Stales

\* What any step of a call does to the calls and the flags.
LEMMA ProceedsMoves ==
  ASSUME DefTypeOK, NEW g \in Goroutine, Proceeds(g)
  PROVE  Moves(g)
<1> USE DEF DefTypeOK
<1>1. CASE Adding(g)
  <2>1. CASE StoreTask(g)
    BY <2>1, StoreTaskEffect, PlacesFacts DEF Moves
  <2>2. CASE CheckParent(g)
    BY <2>2, CheckParentEffect, PlacesFacts DEF Moves
  <2>3. CASE StoreName(g)
    BY <2>3, StoreNameEffect, PlacesFacts DEF Moves
  <2>4. CASE LookUp(g)
    BY <2>4, LookUpEffect, PlacesFacts, StalesFlags DEF Moves, HistStays
  <2>5. CASE LoadDependencies(g)
    BY <2>5, LoadDependenciesEffect, PlacesFacts, StalesFlags DEF Moves
  <2>6. CASE StoreDependencies(g)
    BY <2>6, StoreDependenciesEffect DEF Moves
  <2>7. CASE UndoTask(g)
    BY <2>7, UndoTaskEffect, PlacesFacts DEF Moves
  <2>8. CASE UndoName(g)
    BY <2>8, UndoNameEffect DEF Moves
  <2> QED
    BY <1>1, <2>1, <2>2, <2>3, <2>4, <2>5, <2>6, <2>7, <2>8 DEF Adding
<1>2. CASE Updating(g)
  <2>1. CASE LoadOld(g)
    BY <2>1, LoadOldEffect, PlacesFacts DEF Moves
  <2>2. CASE CheckName(g)
    BY <2>2, CheckNameEffect, PlacesFacts DEF Moves
  <2>3. CASE Unname(g)
    BY <2>3, UnnameEffect, PlacesFacts, StalesFlags DEF Moves
  <2>4. CASE Rename(g)
    BY <2>4, RenameEffect, PlacesFacts DEF Moves
  <2>5. CASE Replace(g)
    BY <2>5, ReplaceEffect, PlacesFacts DEF Moves
  <2> QED
    BY <1>2, <2>1, <2>2, <2>3, <2>4, <2>5 DEF Updating
<1>3. CASE Deleting(g)
  <2>1. CASE LoadTask(g)
    BY <2>1, LoadTaskEffect, PlacesFacts DEF Moves
  <2>2. CASE ScanDependents(g)
    BY <2>2, ScanDependentsEffect, PlacesFacts DEF Moves
  <2>3. CASE DeleteFromTasks(g)
    BY <2>3, DeleteFromTasksEffect, PlacesFacts DEF Moves
  <2>4. CASE DeleteFromIndex(g)
    BY <2>4, DeleteFromIndexEffect, PlacesFacts DEF Moves
  <2>5. CASE DeleteFromDependencies(g)
    BY <2>5, DeleteFromDependenciesEffect, PlacesFacts DEF Moves
  <2>6. CASE SweepDependents(g)
    BY <2>6, SweepDependentsEffect DEF Moves
  <2> QED
    BY <1>3, <2>1, <2>2, <2>3, <2>4, <2>5, <2>6 DEF Deleting
<1>4. CASE Validating(g)
  <2>1. CASE ReadNames(g)
    BY <2>1, ReadNamesEffect, PlacesFacts DEF Moves
  <2>2. CASE CheckNames(g)
    BY <2>2, CheckNamesEffect, PlacesFacts DEF Moves
  <2>3. CASE CheckDependencies(g)
    BY <2>3, CheckDependenciesEffect DEF Moves
  <2> QED
    BY <1>4, <2>1, <2>2, <2>3 DEF Validating
<1> QED
  BY <1>1, <1>2, <1>3, <1>4 DEF Proceeds

\* The other calls, and what of the one that moves is the same.
LEMMA MovesCalls ==
  ASSUME NEW g \in Goroutine, Moves(g)
  PROVE  /\ \A h \in Goroutine \ {g} : call'[h] = call[h]
         /\ On(g)' => /\ call'[g].kind = call[g].kind /\ call'[g].parent = call[g].parent
                      /\ call'[g].id = call[g].id /\ call'[g].object = call[g].object
                      /\ call'[g].alone = call[g].alone
         /\ On(g)' <=> ~Ends(g)
<1>1. CASE Ends(g)
  BY <1>1, IdleFacts DEF Ends, Others, On
<1>2. ASSUME NEW q \in Places, Goes(g, q) PROVE ~Ends(g)
  BY <1>2, IdleFacts DEF Goes, Ends
<1>3. ASSUME NEW q \in Places, Goes(g, q)
      PROVE  /\ \A h \in Goroutine \ {g} : call'[h] = call[h]
             /\ On(g)'
             /\ call'[g].kind = call[g].kind /\ call'[g].parent = call[g].parent
             /\ call'[g].id = call[g].id /\ call'[g].object = call[g].object
             /\ call'[g].alone = call[g].alone
  BY <1>3, IdleFacts DEF Goes, Others, On
<1> QED
  BY <1>1, <1>2, <1>3 DEF Moves

\* A step of a call keeps the flags right.
LEMMA MovesKeepFlags ==
  ASSUME FlagsInv, NEW g \in Goroutine, Moves(g)
  PROVE  FlagsInv'
<1>1. /\ \A h \in Goroutine \ {g} : call'[h] = call[h]
      /\ On(g)' => /\ call'[g].kind = call[g].kind /\ call'[g].parent = call[g].parent
                   /\ call'[g].id = call[g].id /\ call'[g].alone = call[g].alone
      /\ On(g)' <=> ~Ends(g)
  BY MovesCalls
<1>2. \A h \in Goroutine :
        On(h)' => /\ On(h) /\ call'[h].kind = call[h].kind /\ call'[h].parent = call[h].parent
                  /\ call'[h].id = call[h].id /\ call'[h].alone = call[h].alone
  BY <1>1 DEF Moves, On
<1>3. /\ On(g) /\ hist'.overlap = hist.overlap /\ hist'.torn = hist.torn
      /\ hist'.circular = hist.circular
      /\ hist'.valid => Ends(g) /\ call[g].alone
  BY DEF Moves, FlagsInv
<1>4. ASSUME NEW h \in Goroutine, On(h)' PROVE ~hist'.valid
  BY <1>1, <1>2, <1>3, <1>4 DEF FlagsInv
<1>5. hist'.torn => hist'.overlap
  BY <1>3 DEF FlagsInv
<1>6. ASSUME NEW h \in Goroutine, NEW i \in Goroutine, h # i, On(h)', On(i)'
      PROVE  hist'.overlap /\ (Changes(call'[h].kind) => hist'.torn) /\ ~call'[h].alone
  BY <1>2, <1>3, <1>6 DEF FlagsInv
<1>7. ASSUME NEW h \in Goroutine, On(h)'
      PROVE  /\ call'[h].kind = "update" => hist'.circular
             /\ call'[h].kind = "addsub" /\ call'[h].parent = call'[h].id => hist'.circular
  BY <1>2, <1>3, <1>7 DEF FlagsInv
<1> QED
  BY <1>4, <1>5, <1>6, <1>7 DEF FlagsInv

\* The start of a call keeps the flags right.
LEMMA BeginKeepsFlags ==
  ASSUME CallsOK, FlagsInv, NEW g \in Goroutine, NEW kind, NEW object, NEW id, NEW parent,
         Arguments(kind, object, id, parent), Begin(g, kind, object, id, parent)
  PROVE  FlagsInv'
<1>1. /\ ~On(g) /\ call'[g].kind = kind /\ call'[g].id = id /\ call'[g].parent = parent
      /\ call'[g].alone => \A h \in Goroutine \ {g} : ~On(h)
      /\ \A h \in Goroutine \ {g} : Stays(h)
      /\ ~hist'.valid
      /\ hist'.overlap = (hist.overlap \/ \E h \in Goroutine \ {g} : On(h))
      /\ hist'.torn = (hist.torn \/ \E h \in Goroutine \ {g} :
           On(h) /\ (Changes(kind) \/ Changes(call[h].kind)))
      /\ hist'.circular = (hist.circular \/ kind = "update" \/ (kind = "addsub" /\ parent = id))
  BY BeginEffect
<1>2. \A h \in Goroutine \ {g} :
        /\ On(h)' <=> On(h)
        /\ On(h) => /\ call'[h].kind = call[h].kind /\ call'[h].parent = call[h].parent
                    /\ call'[h].id = call[h].id /\ ~call'[h].alone
  BY <1>1 DEF Stays, On
<1>3. hist'.torn => hist'.overlap
  BY <1>1 DEF FlagsInv
<1>4. ASSUME NEW h \in Goroutine, NEW i \in Goroutine, h # i, On(h)', On(i)'
      PROVE  hist'.overlap /\ (Changes(call'[h].kind) => hist'.torn) /\ ~call'[h].alone
  BY <1>1, <1>2, <1>4 DEF FlagsInv
<1>5. ASSUME NEW h \in Goroutine, On(h)'
      PROVE  /\ call'[h].kind = "update" => hist'.circular
             /\ call'[h].kind = "addsub" /\ call'[h].parent = call'[h].id => hist'.circular
  BY <1>1, <1>2, <1>5 DEF FlagsInv
<1> QED
  BY <1>1, <1>3, <1>4, <1>5 DEF FlagsInv

\* Without torn, who runs with another changes no task that is there.
LEMMA Solo ==
  ASSUME FlagsInv, ~hist.torn, NEW g \in Goroutine, On(g), Changes(call[g].kind)
  PROVE  \A h \in Goroutine \ {g} : ~On(h)
BY DEF FlagsInv

-----------------------------------------------------------------------------
(* The index.                                                              *)

Index == InverseInv /\ OwnersInv /\ ChangersInv

\* What UpdateTask or DeleteTask of g knows.
Knows(g) ==
  /\ call[g].pc \in {"checkname", "unname", "scan", "deltask"} =>
       call[g].id \in DOMAIN Tasks /\ call[g].old = Tasks[call[g].id]
  /\ call[g].pc \in {"checkname", "unname"} =>
       TaskNameOf[call[g].old] # TaskNameOf[call[g].object]
  /\ call[g].pc \in {"unname", "rename"} =>
       TaskNameOf[call[g].object] \notin DOMAIN TaskNameIndex
  /\ call[g].pc = "delname" => call[g].old \in Object
  /\ call[g].pc \in {"delname", "deldeps", "sweep"} => call[g].id \notin DOMAIN Tasks

\* ChangersInv, and OwnersInv, call by call.
LEMMA ChangersKnow ==
  /\ ChangersInv <=> \A g \in Goroutine : Knows(g)
  /\ ChangersInv' <=> \A g \in Goroutine : Knows(g)'
BY DEF ChangersInv, Knows

\* Only UpdateTask and DeleteTask have something to know.
LEMMA KnowsNothing ==
  ASSUME CallsOK', NEW g \in Goroutine, ~On(g)' \/ ~Changes(call'[g].kind)
  PROVE  Knows(g)'
<1>1. CASE ~On(g)'
  BY <1>1 DEF On, Knows
<1>2. CASE On(g)' /\ ~Changes(call'[g].kind)
  BY <1>2 DEF Changes, Knows, CallsOK, Fits, On, AddPlaces, SubPlaces, CheckPlaces
<1> QED
  BY <1>1, <1>2

\* A call that is in between with the same as before, or less.
Alike(h) ==
  /\ Unnamed(h)' <=> Unnamed(h)
  /\ Unbacked(h)' <=> Unbacked(h)
  /\ Named(h)' => Named(h)
  /\ Unnamed(h) \/ Named(h) \/ Unbacked(h) =>
       (On(h)' => /\ call'[h].id = call[h].id /\ call'[h].object = call[h].object
                  /\ call'[h].kind = call[h].kind)
  /\ Unbacked(h) => UnbackedName(h)' = UnbackedName(h)

\* A call that is as it was is alike.
LEMMA SameIsAlike ==
  ASSUME NEW h \in Goroutine, call'[h] = call[h]
  PROVE  Alike(h)
BY DEF Alike, Unnamed, Named, Unbacked, UnbackedName

\* So is one that changed in nothing that matters here.
LEMMA StaysIsAlike ==
  ASSUME NEW h \in Goroutine, Stays(h)
  PROVE  Alike(h)
<1>1. CASE On(h)
  BY <1>1 DEF Stays, Alike, Unnamed, Named, Unbacked, UnbackedName
<1>2. CASE ~On(h)
  BY <1>2, SameIsAlike DEF Stays
<1> QED
  BY <1>1, <1>2

\* What is in between with a task or a name is on.
LEMMA ClassesAreOn ==
  ASSUME NEW h \in Goroutine
  PROVE  Unnamed(h) \/ Named(h) \/ Unbacked(h) => On(h)
BY DEF Unnamed, Named, Unbacked, On

\* A step that leaves Tasks, the index and what is in between alone.
LEMMA NeutralKeepsIndex ==
  ASSUME Index, UNCHANGED <<Tasks, TaskNameIndex>>, \A h \in Goroutine : Alike(h) /\ Knows(h)'
  PROVE  Index'
<1>1. Settled' = Settled
  BY ClassesAreOn DEF Settled, Alike, Unnamed, On
<1>2. Kept' = Kept
  BY DEF Kept, Alike
<1>3. InverseInv'
  BY <1>1, <1>2 DEF InverseInv, Index
<1>4. OwnersInv'
  <2>1. \A h \in Goroutine : (Unnamed(h) \/ Named(h))' =>
          /\ Unnamed(h) \/ Named(h)
          /\ call'[h].id = call[h].id
          /\ call'[h].object = call[h].object /\ call'[h].kind = call[h].kind
    BY DEF Alike, Unnamed, Named, On
  <2>2. \A h \in Goroutine : Unbacked(h)' =>
          Unbacked(h) /\ UnbackedName(h)' = UnbackedName(h) /\ call'[h].id = call[h].id
    BY DEF Alike, Unbacked, On
  <2> HIDE DEF Unnamed, Named, Unbacked, UnbackedName
  <2> QED
    BY <2>1, <2>2 DEF OwnersInv, Index
<1>5. ChangersInv'
  BY DEF Knows, ChangersInv
<1> QED
  BY <1>3, <1>4, <1>5 DEF Index

\* So it is when g moves and what it is in between with stays.
LEMMA NeutralMove ==
  ASSUME Index, NEW g \in Goroutine, Moves(g), UNCHANGED <<Tasks, TaskNameIndex>>,
         Alike(g), Knows(g)'
  PROVE  Index'
<1>1. \A h \in Goroutine \ {g} : call'[h] = call[h]
  BY MovesCalls
<1>2. \A h \in Goroutine : Alike(h)
  BY <1>1, SameIsAlike
<1>3. \A h \in Goroutine : Knows(h)
  BY ChangersKnow DEF Index
<1>4. \A h \in Goroutine \ {g} : Knows(h)'
  BY <1>1, <1>3 DEF Knows
<1> QED
  BY <1>2, <1>4, NeutralKeepsIndex

\* ...and g's call is none of UpdateTask or DeleteTask, or returns.
LEMMA NeutralAdd ==
  ASSUME Index, CallsOK', NEW g \in Goroutine, Moves(g), UNCHANGED <<Tasks, TaskNameIndex>>,
         Alike(g), ~Changes(call[g].kind) \/ Ends(g)
  PROVE  Index'
<1>1. ~On(g)' \/ ~Changes(call'[g].kind)
  BY MovesCalls
<1>2. Knows(g)'
  BY <1>1, KnowsNothing
<1> QED
  BY <1>2, NeutralMove

\* A call that was in between with nothing may end.
LEMMA EndsAlike ==
  ASSUME NEW g \in Goroutine, Ends(g), ~Unnamed(g), ~Unbacked(g)
  PROVE  Alike(g)
BY DEF Ends, Idle, Alike, Unnamed, Named, Unbacked, On

\* A call may go on if it is in between with the same.
LEMMA GoesAlike ==
  ASSUME NEW g \in Goroutine, NEW q, Goes(g, q), ~Unbacked(g),
         q \notin {"undoname", "replace", "delname"},
         q \in {"parent", "index", "undo", "rename", "replace"} <=> Unnamed(g),
         q \in {"lookup", "store", "append", "undoboth"} =>
           call[g].kind = "update" \/ Named(g)
  PROVE  Alike(g)
BY DEF Goes, Alike, Unnamed, Named, Unbacked, On

\* What the other calls know, they still know.
LEMMA OthersKnow ==
  ASSUME CallsOK', FlagsInv, ~hist.torn, NEW g \in Goroutine, Moves(g), NEW h \in Goroutine \ {g}
  PROVE  Knows(h)'
<1>1. call'[h] = call[h]
  BY MovesCalls
<1>2. On(h) => ~Changes(call[h].kind)
  BY DEF FlagsInv, Moves
<1> QED
  BY <1>1, <1>2, KnowsNothing DEF On

\* The tasks and the names that g is in between with.
LEMMA OnlyOthers ==
  ASSUME NEW g \in Goroutine, \A h \in Goroutine \ {g} : ~On(h)
  PROVE  /\ Settled = {i \in DOMAIN Tasks : Unnamed(g) => call[g].id # i}
         /\ Kept = {n \in DOMAIN TaskNameIndex : Unbacked(g) => UnbackedName(g) # n}
<1>1. \A h \in Goroutine \ {g} : ~Unnamed(h) /\ ~Unbacked(h)
  BY ClassesAreOn
<1> HIDE DEF Unnamed, Unbacked, UnbackedName
<1> QED
  BY <1>1 DEF Settled, Kept

\* What the others are in between with stays.
LEMMA OthersSame ==
  ASSUME NEW g \in Goroutine, Moves(g)
  PROVE  \A h \in Goroutine \ {g} :
           /\ Unnamed(h)' = Unnamed(h) /\ Named(h)' = Named(h) /\ Unbacked(h)' = Unbacked(h)
           /\ UnbackedName(h)' = UnbackedName(h) /\ call'[h].id = call[h].id
           /\ call'[h].object = call[h].object /\ call'[h].kind = call[h].kind
<1>1. \A h \in Goroutine \ {g} : call'[h] = call[h]
  BY MovesCalls
<1> QED
  BY <1>1 DEF Unnamed, Named, Unbacked, UnbackedName

\* Tasks.LoadOrStore keeps index and Tasks inverse.
LEMMA StoreTaskKeepsIndex ==
  ASSUME CallsOK, CallsOK', FlagsInv, ~hist.torn, Index, NEW g \in Goroutine, StoreTask(g),
         Moves(g)
  PROVE  Index'
<1>1. call[g].pc \in {"add", "addsub"} /\ call[g].kind \in {"add", "addsub"} /\ On(g)
  BY StoreTaskEffect, PlaceFacts
<1>2. CASE Tasks' = Tasks /\ Ends(g)
  <2>1. Alike(g)
    BY <1>1, <1>2, EndsAlike DEF Unnamed, Unbacked
  <2> QED
    BY <1>2, <2>1, StoreTaskEffect, NeutralAdd
<1>3. CASE /\ call[g].id \notin DOMAIN Tasks
           /\ Tasks' = Put(Tasks, call[g].id, call[g].object)
           /\ Goes(g, IF call[g].kind = "add" THEN "index" ELSE "parent")
  <2>1. /\ \A h \in Goroutine \ {g} : call'[h] = call[h]
        /\ On(g)' /\ call'[g].id = call[g].id /\ call'[g].object = call[g].object
    BY <1>3, MovesCalls, IdleFacts, PlacesFacts DEF Ends, Goes, On
  <2>2. Unnamed(g)' /\ ~Unbacked(g)' /\ ~Named(g)' /\ ~Unnamed(g) /\ ~Unbacked(g) /\ ~Named(g)
    BY <1>1, <1>3 DEF Goes, Unnamed, Unbacked, Named
  <2>3. UNCHANGED TaskNameIndex
    BY StoreTaskEffect
  <2>4. /\ DOMAIN Tasks' = DOMAIN Tasks \cup {call[g].id}
        /\ \A i \in DOMAIN Tasks : Tasks'[i] = Tasks[i]
        /\ Tasks'[call[g].id] = call[g].object
    BY <1>3 DEF Put
  <2>5. \A h \in Goroutine \ {g} :
          /\ Unnamed(h)' = Unnamed(h) /\ Named(h)' = Named(h) /\ Unbacked(h)' = Unbacked(h)
          /\ UnbackedName(h)' = UnbackedName(h) /\ call'[h].id = call[h].id
          /\ call'[h].object = call[h].object /\ call'[h].kind = call[h].kind
    BY OthersSame
  <2> HIDE DEF Unnamed, Named, Unbacked, UnbackedName
  <2>6. Settled' = Settled
    BY <1>3, <2>1, <2>2, <2>4, <2>5 DEF Settled
  <2>7. Kept' = Kept
    BY <2>2, <2>3, <2>5 DEF Kept
  <2>8. Settled \subseteq DOMAIN Tasks
    BY DEF Settled
  <2>9. InverseInv'
    BY <2>3, <2>4, <2>6, <2>7, <2>8 DEF InverseInv, Index
  <2>10. OwnersInv'
    BY <1>3, <2>1, <2>2, <2>3, <2>4, <2>5 DEF OwnersInv, Index
  <2>11. \A h \in Goroutine : Knows(h)'
    BY <1>1, <2>1, OthersKnow, KnowsNothing, MovesCalls DEF Changes
  <2> QED
    BY <2>9, <2>10, <2>11, ChangersKnow DEF Index
<1> QED
  BY <1>2, <1>3, StoreTaskEffect

\* TaskNameIndex.LoadOrStore keeps index and Tasks inverse.
LEMMA StoreNameKeepsIndex ==
  ASSUME CallsOK, CallsOK', FlagsInv, ~hist.torn, Index, NEW g \in Goroutine, StoreName(g),
         Moves(g)
  PROVE  Index'
<1>1. call[g].pc = "index" /\ call[g].kind \in {"add", "addsub"} /\ On(g)
  BY StoreNameEffect, PlaceFacts
<1>2. CASE Goes(g, "undo") /\ UNCHANGED TaskNameIndex
  <2>1. Alike(g)
    BY <1>1, <1>2, GoesAlike DEF Unnamed, Unbacked
  <2> QED
    BY <1>1, <1>2, <2>1, StoreNameEffect, NeutralAdd DEF Changes
<1> DEFINE name == TaskNameOf[call[g].object]
<1>3. CASE /\ name \notin DOMAIN TaskNameIndex
           /\ TaskNameIndex' = Put(TaskNameIndex, name, call[g].id)
           /\ Goes(g, IF call[g].kind = "add" THEN "lookup" ELSE "store")
  <2>1. /\ On(g)' /\ call'[g].id = call[g].id /\ call'[g].object = call[g].object
        /\ call'[g].kind = call[g].kind
    BY <1>3, PlacesFacts DEF Goes, On
  <2>2. Unnamed(g) /\ ~Unbacked(g) /\ ~Named(g) /\ ~Unnamed(g)' /\ ~Unbacked(g)' /\ Named(g)'
    BY <1>1, <1>3 DEF Goes, Unnamed, Unbacked, Named
  <2>3. UNCHANGED Tasks
    BY StoreNameEffect
  <2>4. /\ DOMAIN TaskNameIndex' = DOMAIN TaskNameIndex \cup {name}
        /\ \A n \in DOMAIN TaskNameIndex : TaskNameIndex'[n] = TaskNameIndex[n]
        /\ TaskNameIndex'[name] = call[g].id
    BY <1>3 DEF Put
  <2>5. \A h \in Goroutine \ {g} :
          /\ Unnamed(h)' = Unnamed(h) /\ Named(h)' = Named(h) /\ Unbacked(h)' = Unbacked(h)
          /\ UnbackedName(h)' = UnbackedName(h) /\ call'[h].id = call[h].id
          /\ call'[h].object = call[h].object /\ call'[h].kind = call[h].kind
    BY OthersSame
  <2> HIDE DEF Unnamed, Named, Unbacked, UnbackedName
  <2>6. call[g].id \in DOMAIN Tasks /\ Tasks[call[g].id] = call[g].object
    BY <1>1, <2>2 DEF OwnersInv, Index
  <2>7. Settled' = Settled \cup {call[g].id} /\ call[g].id \notin Settled
    BY <2>1, <2>2, <2>3, <2>5, <2>6 DEF Settled, OwnersInv, Index
  <2>8. Kept' = Kept \cup {name} /\ name \notin Kept
    BY <1>3, <2>2, <2>4, <2>5 DEF Kept, OwnersInv, Index
  <2>9. Kept \subseteq DOMAIN TaskNameIndex
    BY DEF Kept
  <2>10. InverseInv'
    BY <2>3, <2>4, <2>6, <2>7, <2>8, <2>9 DEF InverseInv, Index
  <2>11. OwnersInv'
    BY <1>3, <2>1, <2>2, <2>3, <2>4, <2>5 DEF OwnersInv, Index
  <2>12. \A h \in Goroutine : Knows(h)'
    BY <1>1, <2>1, OthersKnow, KnowsNothing DEF Changes
  <2> QED
    BY <2>10, <2>11, <2>12, ChangersKnow DEF Index
<1> QED
  BY <1>2, <1>3, StoreNameEffect

\* Taking the task back keeps index and Tasks inverse.
LEMMA UndoTaskKeepsIndex ==
  ASSUME CallsOK, CallsOK', FlagsInv, ~hist.torn, Index, NEW g \in Goroutine, UndoTask(g),
         Moves(g)
  PROVE  Index'
<1>1. /\ Tasks' = Without(Tasks, call[g].id) /\ UNCHANGED TaskNameIndex
      /\ On(g) /\ call[g].kind \in {"add", "addsub"}
      /\ \/ call[g].pc = "undo" /\ Ends(g)
         \/ call[g].pc = "undoboth" /\ Goes(g, "undoname")
  BY UndoTaskEffect, PlaceFacts
<1>2. /\ DOMAIN Tasks' = DOMAIN Tasks \ {call[g].id}
      /\ \A i \in DOMAIN Tasks' : Tasks'[i] = Tasks[i]
  BY <1>1 DEF Without
<1>3. \A h \in Goroutine \ {g} :
        /\ Unnamed(h)' = Unnamed(h) /\ Named(h)' = Named(h) /\ Unbacked(h)' = Unbacked(h)
        /\ UnbackedName(h)' = UnbackedName(h) /\ call'[h].id = call[h].id
        /\ call'[h].object = call[h].object /\ call'[h].kind = call[h].kind
  BY OthersSame
<1>4. On(g)' => call'[g].id = call[g].id /\ call'[g].object = call[g].object /\ call'[g].kind = call[g].kind
  BY MovesCalls
<1>5. \A h \in Goroutine : Knows(h)'
  BY <1>1, <1>4, OthersKnow, KnowsNothing DEF Changes
<1>6. CASE call[g].pc = "undo" /\ Ends(g)
  <2>1. Unnamed(g) /\ ~Unbacked(g) /\ ~Named(g) /\ ~Unnamed(g)' /\ ~Unbacked(g)' /\ ~Named(g)'
    BY <1>6, IdleFacts DEF Ends, Idle, Unnamed, Unbacked, Named
  <2> HIDE DEF Unnamed, Named, Unbacked, UnbackedName
  <2>2. Settled' = Settled
    BY <1>2, <1>3, <2>1 DEF Settled
  <2>3. Kept' = Kept
    BY <1>1, <1>3, <2>1 DEF Kept
  <2>4. Settled \subseteq DOMAIN Tasks'
    BY <2>2 DEF Settled
  <2>5. InverseInv'
    BY <1>1, <1>2, <2>2, <2>3, <2>4 DEF InverseInv, Index
  <2>6. OwnersInv'
    BY <1>1, <1>2, <1>3, <2>1 DEF OwnersInv, Index
  <2> QED
    BY <1>5, <2>5, <2>6, ChangersKnow DEF Index
<1>7. CASE call[g].pc = "undoboth" /\ Goes(g, "undoname")
  <2>1. /\ ~Unnamed(g) /\ ~Unbacked(g) /\ Named(g) /\ ~Unnamed(g)' /\ Unbacked(g)' /\ ~Named(g)'
        /\ call'[g].id = call[g].id /\ UnbackedName(g)' = TaskNameOf[call[g].object]
    BY <1>7, PlaceFacts DEF Goes, Unnamed, Unbacked, Named, UnbackedName
  <2> DEFINE name == TaskNameOf[call[g].object]
  <2> HIDE DEF Unnamed, Named, Unbacked, UnbackedName
  <2>2. call[g].id \in DOMAIN Tasks /\ Tasks[call[g].id] = call[g].object
    BY <1>1, <2>1 DEF OwnersInv, Index
  <2>3. call[g].id \in Settled
    BY <2>1, <2>2 DEF Settled, OwnersInv, Index
  <2>4. name \in Kept /\ TaskNameIndex[name] = call[g].id
    BY <2>2, <2>3 DEF InverseInv, Index
  <2>5. Settled' = Settled \ {call[g].id}
    BY <1>2, <1>3, <2>1, <2>3 DEF Settled
  <2>6. Kept' = Kept \ {name}
    BY <1>1, <1>3, <2>1 DEF Kept
  <2>7. Settled \ {call[g].id} \subseteq DOMAIN Tasks'
    BY <1>2 DEF Settled
  <2>8. InverseInv'
    BY <1>1, <1>2, <2>2, <2>4, <2>5, <2>6, <2>7 DEF InverseInv, Index
  <2>9. \A h \in Goroutine \ {g} : Unbacked(h) => UnbackedName(h) # name
    BY <2>4 DEF Kept
  <2>10. name \in DOMAIN TaskNameIndex
    BY <2>4 DEF Kept
  <2>11. OwnersInv'
    BY <1>1, <1>2, <1>3, <2>1, <2>4, <2>9, <2>10 DEF OwnersInv, Index
  <2> QED
    BY <1>5, <2>8, <2>11, ChangersKnow DEF Index
<1> QED
  BY <1>1, <1>6, <1>7

\* Taking the name back keeps index and Tasks inverse.
LEMMA UndoNameKeepsIndex ==
  ASSUME CallsOK, CallsOK', FlagsInv, ~hist.torn, Index, NEW g \in Goroutine, UndoName(g),
         Moves(g)
  PROVE  Index'
<1> DEFINE name == TaskNameOf[call[g].object]
<1>1. /\ TaskNameIndex' = Without(TaskNameIndex, name) /\ UNCHANGED Tasks
      /\ On(g) /\ call[g].pc = "undoname" /\ Ends(g) /\ call[g].kind = "add"
  BY UndoNameEffect, PlaceFacts
<1>2. /\ DOMAIN TaskNameIndex' = DOMAIN TaskNameIndex \ {name}
      /\ \A n \in DOMAIN TaskNameIndex' : TaskNameIndex'[n] = TaskNameIndex[n]
  BY <1>1 DEF Without
<1>3. \A h \in Goroutine \ {g} :
        /\ Unnamed(h)' = Unnamed(h) /\ Named(h)' = Named(h) /\ Unbacked(h)' = Unbacked(h)
        /\ UnbackedName(h)' = UnbackedName(h) /\ call'[h].id = call[h].id
        /\ call'[h].object = call[h].object /\ call'[h].kind = call[h].kind
  BY OthersSame
<1>4. ~On(g)'
  BY <1>1, MovesCalls
<1>5. \A h \in Goroutine : Knows(h)'
  BY <1>4, OthersKnow, KnowsNothing
<1>6. /\ ~Unnamed(g) /\ Unbacked(g) /\ ~Named(g) /\ ~Unnamed(g)' /\ ~Unbacked(g)' /\ ~Named(g)'
      /\ UnbackedName(g) = name
  BY <1>1, IdleFacts DEF Ends, Idle, Unnamed, Unbacked, Named, UnbackedName
<1> HIDE DEF Unnamed, Named, Unbacked, UnbackedName
<1>7. Settled' = Settled
  BY <1>1, <1>3, <1>6 DEF Settled
<1>8. Kept' = Kept
  BY <1>2, <1>3, <1>6 DEF Kept
<1>9. Kept \subseteq DOMAIN TaskNameIndex'
  BY <1>8 DEF Kept
<1>10. InverseInv'
  BY <1>1, <1>2, <1>7, <1>8, <1>9 DEF InverseInv, Index
<1>11. OwnersInv'
  BY <1>1, <1>2, <1>3, <1>6 DEF OwnersInv, Index
<1> QED
  BY <1>5, <1>10, <1>11, ChangersKnow DEF Index

\* A step of AddTask or AddSubTask keeps index and Tasks inverse.
LEMMA AddingKeepsIndex ==
  ASSUME DefTypeOK, CallsOK', FlagsInv, ~hist.torn, Index, NEW g \in Goroutine, Adding(g)
  PROVE  Index'
<1> USE DEF DefTypeOK
<1>1. Moves(g)
  BY ProceedsMoves DEF Proceeds
<1>2. CASE StoreTask(g)
  BY <1>1, <1>2, StoreTaskKeepsIndex
<1>3. CASE CheckParent(g)
  <2>1. call[g].pc = "parent" /\ call[g].kind = "addsub" /\ (Goes(g, "index") \/ Goes(g, "undo"))
    BY <1>3, CheckParentEffect, PlaceFacts
  <2>2. Alike(g)
    BY <2>1, GoesAlike DEF Unnamed, Unbacked
  <2> QED
    BY <1>1, <1>3, <2>1, <2>2, CheckParentEffect, NeutralAdd DEF Changes
<1>4. CASE StoreName(g)
  BY <1>1, <1>4, StoreNameKeepsIndex
<1>5. CASE LookUp(g)
  <2>1. /\ call[g].pc = "lookup" /\ call[g].kind \in {"add", "update"}
        /\ Goes(g, "lookup") \/ Ends(g) \/ (call[g].kind = "add" /\ Goes(g, "undoboth"))
        /\ UNCHANGED <<Tasks, TaskNameIndex>>
    BY <1>5, LookUpEffect, PlaceFacts
  <2>2. Alike(g)
    BY <2>1, GoesAlike, EndsAlike DEF Unnamed, Unbacked, Named
  <2>3. CASE ~Changes(call[g].kind) \/ Ends(g)
    BY <1>1, <2>1, <2>2, <2>3, NeutralAdd
  <2>4. CASE call[g].kind = "update" /\ Goes(g, "lookup")
    <3>1. Knows(g)'
      BY <2>4 DEF Goes, Knows
    <3> QED
      BY <1>1, <2>1, <2>2, <3>1, NeutralMove
  <2> QED
    BY <2>1, <2>3, <2>4 DEF Changes
<1>6. CASE LoadDependencies(g)
  <2>1. /\ call[g].pc = "store" /\ call[g].kind = "addsub" /\ (Goes(g, "append") \/ Ends(g))
        /\ UNCHANGED <<Tasks, TaskNameIndex>>
    BY <1>6, LoadDependenciesEffect, PlaceFacts
  <2>2. Alike(g)
    BY <2>1, GoesAlike, EndsAlike DEF Unnamed, Unbacked, Named
  <2> QED
    BY <1>1, <2>1, <2>2, NeutralAdd DEF Changes
<1>7. CASE StoreDependencies(g)
  <2>1. call[g].pc \in {"append", "lookup"} /\ Ends(g) /\ UNCHANGED <<Tasks, TaskNameIndex>>
    BY <1>7, StoreDependenciesEffect
  <2>2. Alike(g)
    BY <2>1, EndsAlike DEF Unnamed, Unbacked
  <2> QED
    BY <1>1, <2>1, <2>2, NeutralAdd
<1>8. CASE UndoTask(g)
  BY <1>1, <1>8, UndoTaskKeepsIndex
<1>9. CASE UndoName(g)
  BY <1>1, <1>9, UndoNameKeepsIndex
<1> QED
  BY <1>2, <1>3, <1>4, <1>5, <1>6, <1>7, <1>8, <1>9 DEF Adding

\* A step of Validate keeps index and Tasks inverse.
LEMMA ValidatingKeepsIndex ==
  ASSUME DefTypeOK, CallsOK', FlagsInv, ~hist.torn, Index, NEW g \in Goroutine, Validating(g)
  PROVE  Index'
<1> USE DEF DefTypeOK
<1>1. Moves(g)
  BY ProceedsMoves DEF Proceeds
<1>2. /\ call[g].pc \in CheckPlaces /\ UNCHANGED <<Tasks, TaskNameIndex>>
      /\ Goes(g, "valnames") \/ Goes(g, "valdeps") \/ Ends(g)
  BY ReadNamesEffect, CheckNamesEffect, CheckDependenciesEffect DEF Validating, CheckPlaces
<1>3. Alike(g)
  BY <1>2, GoesAlike, EndsAlike DEF Unnamed, Unbacked, CheckPlaces
<1> QED
  BY <1>1, <1>2, <1>3, PlaceFacts, NeutralAdd DEF Changes

\* UpdateTask runs alone, so what is in between is its own.
LEMMA UpdatingKeepsIndex ==
  ASSUME DefTypeOK, FlagsInv, ~hist.torn, Index, NEW g \in Goroutine, Updating(g)
  PROVE  Index'
<1> USE DEF DefTypeOK
<1>1. Moves(g)
  BY ProceedsMoves DEF Proceeds
<1>2. call[g].pc \in UpdatePlaces \ {"lookup"} /\ call[g].kind = "update" /\ On(g)
  BY LoadOldEffect, CheckNameEffect, UnnameEffect, RenameEffect, ReplaceEffect, PlaceFacts
     DEF Updating, UpdatePlaces
<1>3. \A h \in Goroutine \ {g} : ~On(h) /\ ~On(h)'
  BY <1>1, <1>2, Solo, MovesCalls DEF Changes, On
<1>4. \A h \in Goroutine \ {g} :
        /\ ~Unnamed(h) /\ ~Named(h) /\ ~Unbacked(h)
        /\ ~Unnamed(h)' /\ ~Named(h)' /\ ~Unbacked(h)' /\ Knows(h)'
  BY <1>3 DEF On, Unnamed, Named, Unbacked, Knows
<1>5. Knows(g) /\ InverseInv /\ OwnersInv
  BY ChangersKnow DEF Index
<1> DEFINE id == call[g].id
           name == TaskNameOf[call[g].object]
<1>6. CASE LoadOld(g)
  <2>1. CASE Ends(g)
    BY <1>1, <1>6, <2>1, LoadOldEffect, EndsAlike, NeutralMove DEF Knows, Ends, Idle, Unnamed, Unbacked
  <2>2. CASE /\ id \in DOMAIN Tasks /\ TaskNameOf[Tasks[id]] # name
             /\ Goes(g, "checkname") /\ call'[g].old = Tasks[id]
    <3>1. Alike(g)
      BY <1>6, <2>2, LoadOldEffect, GoesAlike DEF Unnamed, Unbacked
    <3>2. Knows(g)'
      BY <1>6, <2>2, LoadOldEffect DEF Goes, Knows
    <3> QED
      BY <1>1, <1>6, <3>1, <3>2, LoadOldEffect, NeutralMove
  <2>3. CASE /\ id \in DOMAIN Tasks /\ TaskNameOf[Tasks[id]] = name /\ Goes(g, "replace")
    <3>1. /\ ~Unnamed(g) /\ ~Unbacked(g) /\ Unnamed(g)' /\ Unbacked(g)' /\ ~Named(g)'
          /\ UnbackedName(g)' = name /\ call'[g].id = id /\ Knows(g)' /\ call'[g].kind = "update"
      BY <1>2, <1>6, <2>3, LoadOldEffect DEF Goes, Unnamed, Unbacked, Named, UnbackedName, Knows
    <3>2. UNCHANGED <<Tasks, TaskNameIndex>>
      BY <1>6, LoadOldEffect
    <3> HIDE DEF Unnamed, Named, Unbacked, UnbackedName
    <3>3. Settled = DOMAIN Tasks /\ Kept = DOMAIN TaskNameIndex
      BY <1>4, <3>1 DEF Settled, Kept
    <3>4. Settled' = Settled \ {id} /\ Kept' = Kept \ {name}
      BY <1>4, <3>1, <3>2, <3>3 DEF Settled, Kept
    <3>5. name \in DOMAIN TaskNameIndex /\ TaskNameIndex[name] = id
      BY <1>5, <2>3, <3>3 DEF InverseInv
    <3>6. InverseInv'
      BY <1>5, <2>3, <3>2, <3>3, <3>4, <3>5 DEF InverseInv
    <3>7. OwnersInv'
      BY <1>4, <2>3, <3>1, <3>2, <3>5 DEF OwnersInv
    <3> QED
      BY <1>4, <3>1, <3>6, <3>7, ChangersKnow DEF Index
  <2> QED
    BY <1>6, <2>1, <2>2, <2>3, LoadOldEffect
<1>7. CASE CheckName(g)
  <2>1. CASE Ends(g)
    BY <1>1, <1>7, <2>1, CheckNameEffect, EndsAlike, NeutralMove DEF Knows, Ends, Idle, Unnamed, Unbacked
  <2>2. CASE /\ name \in DOMAIN TaskNameIndex => TaskNameIndex[name] = id
             /\ Goes(g, "unname") /\ KeepsOld(g)
    <3>1. Alike(g) /\ ~Unnamed(g) /\ ~Unbacked(g) /\ call[g].pc = "checkname"
      BY <1>7, <2>2, CheckNameEffect, GoesAlike DEF Unnamed, Unbacked
    <3>2. id \in DOMAIN Tasks /\ call[g].old = Tasks[id] /\ TaskNameOf[Tasks[id]] # name
      BY <1>5, <3>1 DEF Knows
    <3>3. Kept = DOMAIN TaskNameIndex
      BY <1>4, <3>1 DEF Kept
    <3>4. name \notin DOMAIN TaskNameIndex
      BY <1>5, <2>2, <3>2, <3>3 DEF InverseInv
    <3>5. UNCHANGED <<Tasks, TaskNameIndex>>
      BY <1>7, CheckNameEffect
    <3>6. Knows(g)'
      BY <2>2, <3>2, <3>4, <3>5 DEF Goes, KeepsOld, Knows
    <3> QED
      BY <1>1, <3>1, <3>5, <3>6, NeutralMove
  <2> QED
    BY <1>7, <2>1, <2>2, CheckNameEffect
<1>8. CASE Unname(g)
  <2>1. /\ UNCHANGED Tasks /\ call[g].pc = "unname" /\ Goes(g, "rename")
        /\ TaskNameIndex' = Without(TaskNameIndex, TaskNameOf[call[g].old])
    BY <1>8, UnnameEffect
  <2>2. /\ id \in DOMAIN Tasks /\ call[g].old = Tasks[id] /\ TaskNameOf[Tasks[id]] # name
        /\ name \notin DOMAIN TaskNameIndex
    BY <1>5, <2>1 DEF Knows
  <2> DEFINE was == TaskNameOf[Tasks[id]]
  <2>3. /\ DOMAIN TaskNameIndex' = DOMAIN TaskNameIndex \ {was}
        /\ \A n \in DOMAIN TaskNameIndex' : TaskNameIndex'[n] = TaskNameIndex[n]
    BY <2>1, <2>2 DEF Without
  <2>4. /\ ~Unnamed(g) /\ ~Unbacked(g) /\ Unnamed(g)' /\ ~Unbacked(g)' /\ ~Named(g)'
        /\ call'[g].id = id /\ call'[g].kind = "update" /\ call'[g].object = call[g].object
        /\ call'[g].pc = "rename"
    BY <1>2, <2>1 DEF Goes, Unnamed, Unbacked, Named
  <2>5. Knows(g)'
    BY <2>2, <2>3, <2>4 DEF Knows
  <2> HIDE DEF Unnamed, Named, Unbacked, UnbackedName
  <2>6. Settled = DOMAIN Tasks /\ Kept = DOMAIN TaskNameIndex
    BY <1>4, <2>4 DEF Settled, Kept
  <2>7. Settled' = Settled \ {id} /\ Kept' = Kept \ {was}
    BY <1>4, <2>1, <2>3, <2>4, <2>6 DEF Settled, Kept
  <2>8. was \in DOMAIN TaskNameIndex /\ TaskNameIndex[was] = id
    BY <1>5, <2>2, <2>6 DEF InverseInv
  <2>9. InverseInv'
    BY <1>5, <2>1, <2>3, <2>6, <2>7, <2>8 DEF InverseInv
  <2>10. OwnersInv'
    BY <1>4, <2>1, <2>2, <2>4 DEF OwnersInv
  <2> QED
    BY <1>4, <2>5, <2>9, <2>10, ChangersKnow DEF Index
<1>9. CASE Rename(g)
  <2>1. /\ UNCHANGED Tasks /\ call[g].pc = "rename" /\ Goes(g, "replace")
        /\ TaskNameIndex' = Put(TaskNameIndex, name, id)
    BY <1>9, RenameEffect
  <2>2. name \notin DOMAIN TaskNameIndex
    BY <1>5, <2>1 DEF Knows
  <2>3. /\ DOMAIN TaskNameIndex' = DOMAIN TaskNameIndex \cup {name}
        /\ \A n \in DOMAIN TaskNameIndex : TaskNameIndex'[n] = TaskNameIndex[n]
        /\ TaskNameIndex'[name] = id
    BY <2>1, <2>2 DEF Put
  <2>4. /\ Unnamed(g) /\ ~Unbacked(g) /\ Unnamed(g)' /\ Unbacked(g)' /\ ~Named(g)'
        /\ call'[g].id = id /\ call'[g].kind = "update" /\ UnbackedName(g)' = name
        /\ Knows(g)'
    BY <1>2, <2>1 DEF Goes, Unnamed, Unbacked, Named, UnbackedName, Knows
  <2> HIDE DEF Unnamed, Named, Unbacked, UnbackedName
  <2>5. Settled = DOMAIN Tasks \ {id} /\ Kept = DOMAIN TaskNameIndex
    BY <1>4, <2>4 DEF Settled, Kept
  <2>6. Settled' = Settled /\ Kept' = Kept
    BY <1>4, <2>1, <2>2, <2>3, <2>4, <2>5 DEF Settled, Kept
  <2>7. InverseInv'
    BY <1>5, <2>1, <2>3, <2>5, <2>6 DEF InverseInv
  <2>8. id \in DOMAIN Tasks
    BY <1>5, <2>4 DEF OwnersInv
  <2>9. OwnersInv'
    BY <1>4, <2>1, <2>3, <2>4, <2>8 DEF OwnersInv
  <2> QED
    BY <1>4, <2>4, <2>7, <2>9, ChangersKnow DEF Index
<1>10. CASE Replace(g)
  <2>1. /\ UNCHANGED TaskNameIndex /\ call[g].pc = "replace" /\ Goes(g, "lookup")
        /\ Tasks' = Put(Tasks, id, call[g].object)
    BY <1>10, ReplaceEffect
  <2>2. /\ Unnamed(g) /\ Unbacked(g) /\ ~Unnamed(g)' /\ ~Unbacked(g)' /\ ~Named(g)'
        /\ UnbackedName(g) = name /\ Knows(g)'
    BY <1>2, <2>1 DEF Goes, Unnamed, Unbacked, Named, UnbackedName, Knows
  <2> HIDE DEF Unnamed, Named, Unbacked, UnbackedName
  <2>3. id \in DOMAIN Tasks /\ name \in DOMAIN TaskNameIndex /\ TaskNameIndex[name] = id
    BY <1>5, <2>2 DEF OwnersInv
  <2>4. /\ DOMAIN Tasks' = DOMAIN Tasks
        /\ \A i \in DOMAIN Tasks \ {id} : Tasks'[i] = Tasks[i]
        /\ Tasks'[id] = call[g].object
    BY <2>1, <2>3 DEF Put
  <2>5. Settled = DOMAIN Tasks \ {id} /\ Kept = DOMAIN TaskNameIndex \ {name}
    BY <1>4, <2>2 DEF Settled, Kept
  <2>6. Settled' = DOMAIN Tasks /\ Kept' = DOMAIN TaskNameIndex
    BY <1>4, <2>1, <2>2, <2>4 DEF Settled, Kept
  <2>7. InverseInv'
    BY <1>5, <2>1, <2>3, <2>4, <2>5, <2>6 DEF InverseInv
  <2>8. OwnersInv'
    BY <1>4, <2>2 DEF OwnersInv
  <2> QED
    BY <1>4, <2>2, <2>7, <2>8, ChangersKnow DEF Index
<1> QED
  BY <1>6, <1>7, <1>8, <1>9, <1>10 DEF Updating

\* A step of DeleteTask keeps index and Tasks inverse.
LEMMA DeletingKeepsIndex ==
  ASSUME DefTypeOK, FlagsInv, ~hist.torn, Index, NEW g \in Goroutine, Deleting(g)
  PROVE  Index'
<1> USE DEF DefTypeOK
<1>1. Moves(g)
  BY ProceedsMoves DEF Proceeds
<1>2. call[g].pc \in DeletePlaces /\ call[g].kind = "delete" /\ On(g)
  BY PlaceFacts, LoadTaskEffect, ScanDependentsEffect, DeleteFromTasksEffect,
     DeleteFromIndexEffect, DeleteFromDependenciesEffect, SweepDependentsEffect
     DEF Deleting, DeletePlaces
<1>3. \A h \in Goroutine \ {g} : ~On(h) /\ ~On(h)'
  BY <1>1, <1>2, Solo, MovesCalls DEF Changes, On
<1>4. \A h \in Goroutine \ {g} :
        /\ ~Unnamed(h) /\ ~Named(h) /\ ~Unbacked(h)
        /\ ~Unnamed(h)' /\ ~Named(h)' /\ ~Unbacked(h)' /\ Knows(h)'
  BY <1>3 DEF On, Unnamed, Named, Unbacked, Knows
<1>5. Knows(g) /\ InverseInv /\ OwnersInv
  BY ChangersKnow DEF Index
<1> DEFINE id == call[g].id
           was == TaskNameOf[call[g].old]
<1>6. CASE LoadTask(g)
  <2>1. /\ call[g].pc = "delete" /\ UNCHANGED <<Tasks, TaskNameIndex>>
        /\ \/ Ends(g)
           \/ Goes(g, "scan") /\ id \in DOMAIN Tasks /\ call'[g].old = Tasks[id]
    BY <1>6, LoadTaskEffect
  <2>2. Alike(g)
    BY <2>1, GoesAlike, EndsAlike DEF Unnamed, Unbacked
  <2>3. Knows(g)'
    BY <2>1 DEF Goes, Ends, Idle, Knows
  <2> QED
    BY <1>1, <2>1, <2>2, <2>3, NeutralMove
<1>7. CASE ScanDependents(g)
  <2>1. /\ call[g].pc = "scan" /\ UNCHANGED <<Tasks, TaskNameIndex>>
        /\ Ends(g) \/ (Goes(g, "deltask") /\ KeepsOld(g))
    BY <1>7, ScanDependentsEffect
  <2>2. Alike(g)
    BY <2>1, GoesAlike, EndsAlike DEF Unnamed, Unbacked
  <2>3. Knows(g)'
    BY <1>5, <2>1 DEF Goes, KeepsOld, Ends, Idle, Knows
  <2> QED
    BY <1>1, <2>1, <2>2, <2>3, NeutralMove
<1>8. CASE DeleteFromTasks(g)
  <2>1. /\ UNCHANGED TaskNameIndex /\ call[g].pc = "deltask" /\ Goes(g, "delname")
        /\ Tasks' = Without(Tasks, id) /\ KeepsOld(g)
    BY <1>8, DeleteFromTasksEffect
  <2>2. id \in DOMAIN Tasks /\ call[g].old = Tasks[id] /\ call[g].old \in Object
    BY <1>5, <2>1 DEF Knows, MapsOK
  <2>3. /\ DOMAIN Tasks' = DOMAIN Tasks \ {id}
        /\ \A i \in DOMAIN Tasks' : Tasks'[i] = Tasks[i]
    BY <2>1 DEF Without
  <2>4. /\ ~Unnamed(g) /\ ~Unbacked(g) /\ ~Unnamed(g)' /\ Unbacked(g)' /\ ~Named(g)'
        /\ call'[g].id = id /\ UnbackedName(g)' = was
    BY <1>2, <2>1 DEF Goes, KeepsOld, Unnamed, Unbacked, Named, UnbackedName
  <2>5. Knows(g)'
    BY <2>1, <2>2, <2>3 DEF Goes, KeepsOld, Knows
  <2> HIDE DEF Unnamed, Named, Unbacked, UnbackedName
  <2>6. Settled = DOMAIN Tasks /\ Kept = DOMAIN TaskNameIndex
    BY <1>4, <2>4 DEF Settled, Kept
  <2>7. Settled' = Settled \ {id} /\ Kept' = Kept \ {was}
    BY <1>4, <2>1, <2>3, <2>4, <2>6 DEF Settled, Kept
  <2>8. was \in DOMAIN TaskNameIndex /\ TaskNameIndex[was] = id
    BY <1>5, <2>2, <2>6 DEF InverseInv
  <2>9. InverseInv'
    BY <1>5, <2>1, <2>2, <2>3, <2>6, <2>7, <2>8 DEF InverseInv
  <2>10. OwnersInv'
    BY <1>4, <2>1, <2>4, <2>8 DEF OwnersInv
  <2> QED
    BY <1>4, <2>5, <2>9, <2>10, ChangersKnow DEF Index
<1>9. CASE DeleteFromIndex(g)
  <2>1. /\ UNCHANGED Tasks /\ call[g].pc = "delname" /\ Goes(g, "deldeps")
        /\ TaskNameIndex' = Without(TaskNameIndex, was)
    BY <1>9, DeleteFromIndexEffect
  <2>2. /\ DOMAIN TaskNameIndex' = DOMAIN TaskNameIndex \ {was}
        /\ \A n \in DOMAIN TaskNameIndex' : TaskNameIndex'[n] = TaskNameIndex[n]
    BY <2>1 DEF Without
  <2>3. /\ ~Unnamed(g) /\ Unbacked(g) /\ ~Unnamed(g)' /\ ~Unbacked(g)' /\ ~Named(g)'
        /\ UnbackedName(g) = was
    BY <1>2, <2>1 DEF Goes, Unnamed, Unbacked, Named, UnbackedName
  <2>4. Knows(g)'
    BY <1>5, <2>1 DEF Goes, Knows
  <2> HIDE DEF Unnamed, Named, Unbacked, UnbackedName
  <2>5. Settled = DOMAIN Tasks /\ Kept = DOMAIN TaskNameIndex \ {was}
    BY <1>4, <2>3 DEF Settled, Kept
  <2>6. Settled' = Settled /\ Kept' = Kept
    BY <1>4, <2>1, <2>2, <2>3, <2>5 DEF Settled, Kept
  <2>7. InverseInv'
    BY <1>5, <2>1, <2>2, <2>5, <2>6 DEF InverseInv
  <2>8. OwnersInv'
    BY <1>4, <2>3 DEF OwnersInv
  <2> QED
    BY <1>4, <2>4, <2>7, <2>8, ChangersKnow DEF Index
<1>10. CASE DeleteFromDependencies(g)
  <2>1. call[g].pc = "deldeps" /\ UNCHANGED <<Tasks, TaskNameIndex>> /\ Goes(g, "sweep")
    BY <1>10, DeleteFromDependenciesEffect
  <2>2. Alike(g)
    BY <2>1, GoesAlike DEF Unnamed, Unbacked
  <2>3. Knows(g)'
    BY <1>5, <2>1 DEF Goes, Knows
  <2> QED
    BY <1>1, <2>1, <2>2, <2>3, NeutralMove
<1>11. CASE SweepDependents(g)
  <2>1. call[g].pc = "sweep" /\ UNCHANGED <<Tasks, TaskNameIndex>> /\ Ends(g)
    BY <1>11, SweepDependentsEffect
  <2>2. Alike(g)
    BY <2>1, EndsAlike DEF Unnamed, Unbacked
  <2>3. Knows(g)'
    BY <2>1 DEF Ends, Idle, Knows
  <2> QED
    BY <1>1, <2>1, <2>2, <2>3, NeutralMove
<1> QED
  BY <1>6, <1>7, <1>8, <1>9, <1>10, <1>11 DEF Deleting

\* The start of a call keeps index and Tasks inverse.
LEMMA BeginKeepsIndex ==
  ASSUME CallsOK, Index, NEW g \in Goroutine, NEW kind, NEW object, NEW id, NEW parent,
         Arguments(kind, object, id, parent), Begin(g, kind, object, id, parent)
  PROVE  Index'
<1>1. /\ UNCHANGED <<Tasks, TaskNameIndex>> /\ ~On(g)
      /\ \A h \in Goroutine \ {g} : Stays(h)
      /\ call'[g].pc \in {"add", "update", "addsub", "delete", "validate"}
  BY BeginEffect DEF Arguments
<1>2. Alike(g) /\ Knows(g)'
  BY <1>1 DEF Alike, Knows, On, Unnamed, Unbacked, Named
<1>3. \A h \in Goroutine \ {g} : Alike(h)
  BY <1>1, StaysIsAlike
<1>4. \A h \in Goroutine \ {g} : Knows(h)'
  BY <1>1, ChangersKnow DEF Index, Stays, Knows, On
<1> QED
  BY <1>1, <1>2, <1>3, <1>4, NeutralKeepsIndex

\* At the start index and Tasks are each other's inverse.
LEMMA InitIndex ==
  ASSUME DefInit
  PROVE  FlagsInv /\ IndexInv
<1>1. PICK S \in Starts : StartsWith(S) /\ Built(S)
  BY InitMaps
<1>2. \A g \in Goroutine : ~On(g)
  BY IdleFacts DEF DefInit, On
<1>3. \A g \in Goroutine : ~Unnamed(g) /\ ~Named(g) /\ ~Unbacked(g) /\ Knows(g)
  BY <1>2 DEF On, Unnamed, Named, Unbacked, Knows
<1> HIDE DEF Unnamed, Named, Unbacked
<1>4. Settled = DOMAIN Tasks /\ Kept = DOMAIN TaskNameIndex
  BY <1>3 DEF Settled, Kept
<1>5. InverseInv
  BY <1>1, <1>4 DEF InverseInv, StartsWith, Names
<1>6. OwnersInv /\ ChangersInv
  BY <1>3, ChangersKnow DEF OwnersInv
<1>7. FlagsInv
  BY <1>2 DEF FlagsInv, DefInit
<1> QED
  BY <1>5, <1>6, <1>7 DEF IndexInv

\* The first of the properties: nothing is in between when no call is on.
LEMMA InverseWhenQuiet ==
  ASSUME MapsOK, Index, \A g \in Goroutine : ~On(g)
  PROVE  /\ \A i \in DOMAIN Tasks : /\ TaskNameOf[Tasks[i]] \in DOMAIN TaskNameIndex
                                    /\ TaskNameIndex[TaskNameOf[Tasks[i]]] = i
         /\ \A n \in DOMAIN TaskNameIndex :
              TaskNameIndex[n] \in DOMAIN Tasks /\ TaskNameOf[Tasks[TaskNameIndex[n]]] = n
<1>1. \A g \in Goroutine : ~Unnamed(g) /\ ~Unbacked(g)
  BY DEF On, Unnamed, Unbacked
<1> HIDE DEF Unnamed, Unbacked
<1>2. Settled = DOMAIN Tasks /\ Kept = DOMAIN TaskNameIndex
  BY <1>1 DEF Settled, Kept
<1> QED
  BY <1>2 DEF InverseInv, Index

\* With no call on, the parts say that the index is the inverse of Tasks.
LEMMA IndexFollows ==
  ASSUME MapsOK, IndexInv
  PROVE  IndexIsInverse
<1> SUFFICES ASSUME Quiet, ~hist.torn
             PROVE  /\ TaskNameIndex = [n \in {TaskNameOf[Tasks[i]] : i \in DOMAIN Tasks} |->
                          CHOOSE i \in DOMAIN Tasks : TaskNameOf[Tasks[i]] = n]
                    /\ \A i, j \in DOMAIN Tasks : TaskNameOf[Tasks[i]] = TaskNameOf[Tasks[j]] => i = j
  BY DEF IndexIsInverse
<1>1. /\ \A i \in DOMAIN Tasks : /\ TaskNameOf[Tasks[i]] \in DOMAIN TaskNameIndex
                                 /\ TaskNameIndex[TaskNameOf[Tasks[i]]] = i
      /\ \A n \in DOMAIN TaskNameIndex :
           TaskNameIndex[n] \in DOMAIN Tasks /\ TaskNameOf[Tasks[TaskNameIndex[n]]] = n
  BY InverseWhenQuiet DEF IndexInv, Index, Quiet, On
<1>2. \A i, j \in DOMAIN Tasks : TaskNameOf[Tasks[i]] = TaskNameOf[Tasks[j]] => i = j
  BY <1>1
<1>3. DOMAIN TaskNameIndex = {TaskNameOf[Tasks[i]] : i \in DOMAIN Tasks}
  BY <1>1
<1>4. \A n \in DOMAIN TaskNameIndex :
        TaskNameIndex[n] = CHOOSE i \in DOMAIN Tasks : TaskNameOf[Tasks[i]] = n
  BY <1>1, <1>2
<1>5. TaskNameIndex = [n \in DOMAIN TaskNameIndex |-> TaskNameIndex[n]]
  BY DEF MapsOK
<1> QED
  BY <1>2, <1>3, <1>4, <1>5

-----------------------------------------------------------------------------
(* The dependencies, one call at a time.                                   *)

Deps == WholeInv /\ KnownInv /\ FollowsInv

\* What the call of g knows of the dependencies.
KnowsDeps(g) ==
  /\ Fresh(g) \/ Going(g) =>
       \A t \in DOMAIN Dependencies : call[g].id \notin Dependencies[t]
  /\ Fresh(g) /\ call[g].id \in DOMAIN Dependencies =>
       call[g].pc = "append" /\ Dependencies[call[g].id] = {}
  /\ call[g].pc = "lookup" =>
       /\ call[g].id \in DOMAIN Tasks /\ Tasks[call[g].id] = call[g].object
       /\ call[g].ids \subseteq DOMAIN Tasks \ {call[g].id}
  /\ call[g].pc \in {"index", "store", "append"} /\ call[g].kind = "addsub" =>
       call[g].parent \in DOMAIN Tasks
  /\ call[g].pc = "append" => call[g].ids = {call[g].parent}

\* What it has found is right.
Finds(g) ==
  /\ call[g].pc = "lookup" =>
       \A n \in NamesOf[call[g].object] \ call[g].todo :
         n \in DOMAIN TaskNameIndex /\ TaskNameIndex[n] \in call[g].ids
  /\ call[g].pc = "append" => NamesOf[call[g].object] = {}

\* A call that is not on claims nothing.
LEMMA OffKnowsDeps ==
  ASSUME NEW h \in Goroutine
  PROVE  /\ ~On(h) => KnowsDeps(h) /\ Finds(h) /\ ~Fresh(h) /\ ~Going(h) /\ ~Storing(h)
         /\ ~On(h)' => KnowsDeps(h)' /\ Finds(h)' /\ ~Fresh(h)' /\ ~Going(h)' /\ ~Storing(h)'
BY DEF On, KnowsDeps, Finds, Fresh, Going, Storing

\* The same for the one call that is on.
DepsOf(g) ==
  /\ \A t \in DOMAIN Dependencies : Dependencies[t] \subseteq DOMAIN Tasks
  /\ \A t \in DOMAIN Dependencies \ DOMAIN Tasks :
       call[g].pc \in {"delname", "deldeps"} /\ call[g].id = t
  /\ ~hist.circular => Acyclic
  /\ KnowsDeps(g)
  /\ ~hist.stale => /\ \A i \in DOMAIN Tasks : Follows(i) \/ (Storing(g) /\ call[g].id = i)
                    /\ Finds(g)

\* If only one call is on, it is enough to look at that.
LEMMA OneCall ==
  ASSUME NEW g \in Goroutine
  PROVE  /\ (\A h \in Goroutine \ {g} : ~On(h)) => (Deps <=> DepsOf(g))
         /\ (\A h \in Goroutine \ {g} : ~On(h)') => (Deps' <=> DepsOf(g)')
<1>1. ASSUME \A h \in Goroutine \ {g} : ~On(h) PROVE Deps <=> DepsOf(g)
  <2>1. /\ \A h \in Goroutine \ {g} : KnowsDeps(h) /\ Finds(h) /\ ~Storing(h)
        /\ \A h \in Goroutine \ {g} : call[h].pc \notin {"delname", "deldeps"}
    BY <1>1, OffKnowsDeps DEF On
  <2>2. KnownInv <=> \A h \in Goroutine : KnowsDeps(h)
    BY DEF KnownInv, KnowsDeps
  <2>3. FollowsInv <=> (~hist.stale =>
          /\ \A i \in DOMAIN Tasks : Follows(i) \/ \E h \in Goroutine : Storing(h) /\ call[h].id = i
          /\ \A h \in Goroutine : Finds(h))
    BY DEF FollowsInv, Finds
  <2> QED
    BY <2>1, <2>2, <2>3 DEF Deps, DepsOf, WholeInv
<1>2. ASSUME \A h \in Goroutine \ {g} : ~On(h)' PROVE Deps' <=> DepsOf(g)'
  <2>1. /\ \A h \in Goroutine \ {g} : KnowsDeps(h)' /\ Finds(h)' /\ ~Storing(h)'
        /\ \A h \in Goroutine \ {g} : call'[h].pc \notin {"delname", "deldeps"}
    BY <1>2, OffKnowsDeps DEF On
  <2>2. KnownInv' <=> \A h \in Goroutine : KnowsDeps(h)'
    BY DEF KnownInv, KnowsDeps
  <2>3. FollowsInv' <=> (~hist'.stale =>
          /\ \A i \in DOMAIN Tasks' : Follows(i)' \/ \E h \in Goroutine : Storing(h)' /\ call'[h].id = i
          /\ \A h \in Goroutine : Finds(h)')
    BY DEF FollowsInv, Finds
  <2> QED
    BY <2>1, <2>2, <2>3 DEF Deps, DepsOf, WholeInv
<1> QED
  BY <1>1, <1>2

\* A step that leaves the three maps alone: what remains is what g knows.
LEMMA SameMapsDeps ==
  ASSUME NEW g \in Goroutine, DepsOf(g), UNCHANGED <<Tasks, TaskNameIndex, Dependencies>>,
         hist.circular => hist'.circular, ~hist'.stale => ~hist.stale,
         call[g].pc \notin {"delname", "deldeps"},
         KnowsDeps(g)', ~hist'.stale => Finds(g)',
         ~hist'.stale /\ Storing(g) /\ call[g].id \in DOMAIN Tasks =>
           (Storing(g)' /\ call'[g].id = call[g].id) \/ Follows(call[g].id)
  PROVE  DepsOf(g)'
<1>1. \A i : Follows(i)' <=> Follows(i)
  BY DEF Follows
<1>2. Acyclic' <=> Acyclic
  BY DEF Acyclic
<1> HIDE DEF Follows, Acyclic, Storing, KnowsDeps, Finds
<1> QED
  BY <1>1, <1>2 DEF DepsOf

\* A call of no account: it stores nothing.
LEMMA IdleDeps ==
  ASSUME NEW g \in Goroutine, DepsOf(g), UNCHANGED <<Tasks, TaskNameIndex, Dependencies>>,
         hist.circular => hist'.circular, hist'.stale = hist.stale,
         call[g].pc \notin {"delname", "deldeps"},
         ~Storing(g), ~Storing(g)', ~Fresh(g)', ~Going(g)'
  PROVE  DepsOf(g)'
<1>1. KnowsDeps(g)' /\ Finds(g)'
  BY DEF KnowsDeps, Finds, Storing, Fresh, Going
<1> QED
  BY <1>1, SameMapsDeps

\* A task on which nothing depends closes no circle.
LEMMA AcyclicPut ==
  ASSUME Acyclic, NEW i, NEW X, i \notin X, \A t \in DOMAIN Dependencies : i \notin Dependencies[t],
         Dependencies' = Put(Dependencies, i, X)
  PROVE  Acyclic'
<1>1. /\ DOMAIN Dependencies' = DOMAIN Dependencies \cup {i}
      /\ Dependencies'[i] = X
      /\ \A t \in DOMAIN Dependencies \ {i} : Dependencies'[t] = Dependencies[t]
  BY DEF Put
<1> SUFFICES ASSUME NEW S \in (SUBSET DOMAIN Dependencies') \ {{}}
             PROVE  \E t \in S : Dependencies'[t] \cap S = {}
  BY DEF Acyclic
<1>2. CASE S \ {i} = {}
  <2>1. S = {i}
    BY <1>2
  <2>2. i \in S /\ X \cap S = {}
    BY <2>1
  <2> QED
    BY <1>1, <2>2
<1>3. CASE S \ {i} # {}
  <2>1. PICK t \in S \ {i} : Dependencies[t] \cap (S \ {i}) = {}
    BY <1>1, <1>3 DEF Acyclic
  <2>2. t \in DOMAIN Dependencies /\ i \notin Dependencies[t]
    BY <1>1, <2>1
  <2> QED
    BY <1>1, <2>1, <2>2
<1> QED
  BY <1>2, <1>3

\* Fewer dependencies have no more circles.
LEMMA AcyclicLess ==
  ASSUME Acyclic, DOMAIN Dependencies' \subseteq DOMAIN Dependencies,
         \A t \in DOMAIN Dependencies' : Dependencies'[t] \subseteq Dependencies[t]
  PROVE  Acyclic'
<1> SUFFICES ASSUME NEW S \in (SUBSET DOMAIN Dependencies') \ {{}}
             PROVE  \E t \in S : Dependencies'[t] \cap S = {}
  BY DEF Acyclic
<1>1. PICK t \in S : Dependencies[t] \cap S = {}
  BY DEF Acyclic
<1> QED
  BY <1>1

\* The single call, and what it is in between with.
OnlyOne(g) == On(g) /\ \A h \in Goroutine \ {g} : ~On(h)

\* One call at a time is enough for the index.
LEMMA OnlyOneIndex ==
  ASSUME NEW g \in Goroutine, OnlyOne(g)
  PROVE  /\ Settled = {i \in DOMAIN Tasks : Unnamed(g) => call[g].id # i}
         /\ Kept = {n \in DOMAIN TaskNameIndex : Unbacked(g) => UnbackedName(g) # n}
BY OnlyOthers DEF OnlyOne

\* Tasks.LoadOrStore keeps the dependencies whole.
LEMMA StoreTaskKeepsDeps ==
  ASSUME DefTypeOK, NEW g \in Goroutine, DepsOf(g), StoreTask(g)
  PROVE  DepsOf(g)'
<1> USE DEF DefTypeOK
<1>1. /\ UNCHANGED <<TaskNameIndex, Dependencies, hist>> /\ call[g].pc \in {"add", "addsub"}
      /\ ~Storing(g) /\ ~Going(g) /\ call[g].kind \in {"add", "addsub"}
  BY StoreTaskEffect, PlaceFacts DEF Storing, Going, Fresh
<1>2. CASE Tasks' = Tasks /\ Ends(g)
  <2>1. ~Storing(g)' /\ ~Fresh(g)' /\ ~Going(g)'
    BY <1>2 DEF Ends, Idle, Storing, Going, Fresh
  <2> QED
    BY <1>1, <1>2, <2>1, IdleDeps
<1>3. CASE /\ call[g].id \notin DOMAIN Tasks
           /\ Tasks' = Put(Tasks, call[g].id, call[g].object)
           /\ Goes(g, IF call[g].kind = "add" THEN "index" ELSE "parent")
  <2>1. /\ DOMAIN Tasks' = DOMAIN Tasks \cup {call[g].id}
        /\ \A i \in DOMAIN Tasks : Tasks'[i] = Tasks[i]
    BY <1>3 DEF Put
  <2>2. /\ Fresh(g)' /\ Storing(g)' /\ ~Going(g)' /\ call'[g].id = call[g].id /\ Finds(g)'
        /\ call'[g].pc \notin {"lookup", "append", "store"}
        /\ call'[g].pc = "index" => call'[g].kind = "add"
    BY <1>1, <1>3 DEF Goes, Fresh, Storing, Going, Finds
  <2>3. /\ \A t \in DOMAIN Dependencies : Dependencies[t] \subseteq DOMAIN Tasks
        /\ DOMAIN Dependencies \subseteq DOMAIN Tasks
    BY <1>1 DEF DepsOf
  <2>4. KnowsDeps(g)'
    BY <1>1, <1>3, <2>2, <2>3 DEF KnowsDeps
  <2>5. \A i \in DOMAIN Tasks : Follows(i) => Follows(i)'
    BY <1>1, <2>1 DEF Follows
  <2>6. Acyclic' <=> Acyclic
    BY <1>1 DEF Acyclic
  <2> HIDE DEF Follows, Acyclic, KnowsDeps, Finds, Storing
  <2> QED
    BY <1>1, <1>3, <2>1, <2>2, <2>3, <2>4, <2>5, <2>6 DEF DepsOf
<1> QED
  BY <1>2, <1>3, StoreTaskEffect

\* AddSubTask's check of the parent keeps the dependencies whole.
LEMMA CheckParentKeepsDeps ==
  ASSUME DefTypeOK, NEW g \in Goroutine, DepsOf(g), CheckParent(g)
  PROVE  DepsOf(g)'
<1>1. /\ UNCHANGED <<Tasks, TaskNameIndex, Dependencies, hist>> /\ call[g].pc = "parent"
      /\ \/ Goes(g, "index") /\ call[g].parent \in DOMAIN Tasks
         \/ Goes(g, "undo")
  BY CheckParentEffect DEF DefTypeOK
<1>2. KnowsDeps(g)' /\ Finds(g)' /\ Storing(g)' /\ call'[g].id = call[g].id
  BY <1>1 DEF Goes, DepsOf, KnowsDeps, Finds, Storing, Fresh, Going
<1> QED
  BY <1>1, <1>2, SameMapsDeps

\* TaskNameIndex.LoadOrStore keeps the dependencies whole.
LEMMA StoreNameKeepsDeps ==
  ASSUME DefTypeOK, Index, NEW g \in Goroutine, DepsOf(g), StoreName(g)
  PROVE  DepsOf(g)'
<1> USE DEF DefTypeOK
<1>1. /\ UNCHANGED <<Tasks, Dependencies, hist>> /\ call[g].pc = "index"
      /\ call[g].kind \in {"add", "addsub"}
  BY StoreNameEffect, PlaceFacts
<1>2. CASE Goes(g, "undo") /\ UNCHANGED TaskNameIndex
  <2>1. KnowsDeps(g)' /\ Finds(g)' /\ Storing(g)' /\ call'[g].id = call[g].id
    BY <1>1, <1>2 DEF Goes, DepsOf, KnowsDeps, Finds, Storing, Fresh, Going
  <2> QED
    BY <1>1, <1>2, <2>1, SameMapsDeps
<1> DEFINE name == TaskNameOf[call[g].object]
<1>3. CASE /\ name \notin DOMAIN TaskNameIndex
           /\ TaskNameIndex' = Put(TaskNameIndex, name, call[g].id)
           /\ Goes(g, IF call[g].kind = "add" THEN "lookup" ELSE "store")
           /\ call'[g].todo = NamesOf[call[g].object] /\ call'[g].ids = {}
  <2>1. /\ DOMAIN TaskNameIndex' = DOMAIN TaskNameIndex \cup {name}
        /\ \A n \in DOMAIN TaskNameIndex : TaskNameIndex'[n] = TaskNameIndex[n]
    BY <1>3 DEF Put
  <2>2. call[g].id \in DOMAIN Tasks /\ Tasks[call[g].id] = call[g].object
    BY <1>1 DEF Index, OwnersInv, Unnamed
  <2>3. /\ Fresh(g) /\ Fresh(g)' /\ Storing(g) /\ Storing(g)' /\ call'[g].id = call[g].id
        /\ call'[g].object = call[g].object /\ call'[g].kind = call[g].kind
        /\ call'[g].parent = call[g].parent /\ ~Going(g)' /\ call'[g].pc \in {"lookup", "store"}
        /\ call'[g].pc = "store" => call[g].kind = "addsub"
    BY <1>1, <1>3 DEF Goes, Fresh, Storing, Going
  <2>4. KnowsDeps(g)'
    BY <1>1, <1>3, <2>2, <2>3 DEF KnowsDeps, DepsOf
  <2>5. Finds(g)'
    BY <1>3, <2>3 DEF Finds
  <2>6. \A i \in DOMAIN Tasks : Follows(i) => Follows(i)'
    BY <1>1, <2>1 DEF Follows
  <2>7. Acyclic' <=> Acyclic
    BY <1>1 DEF Acyclic
  <2> HIDE DEF Follows, Acyclic, KnowsDeps, Finds, Storing
  <2> QED
    BY <1>1, <2>1, <2>3, <2>4, <2>5, <2>6, <2>7 DEF DepsOf
<1> QED
  BY <1>2, <1>3, StoreNameEffect

\* Looking up one dependency keeps the dependencies whole.
LEMMA LookUpKeepsDeps ==
  ASSUME DefTypeOK, Index, NEW g \in Goroutine, OnlyOne(g), DepsOf(g), LookUp(g)
  PROVE  DepsOf(g)'
<1> USE DEF DefTypeOK
<1>1. /\ UNCHANGED <<Tasks, TaskNameIndex, Dependencies>> /\ call[g].pc = "lookup"
      /\ call[g].kind \in {"add", "update"}
  BY LookUpEffect, PlaceFacts
<1>2. ASSUME NEW n \in call[g].todo, n \in DOMAIN TaskNameIndex, TaskNameIndex[n] # call[g].id,
             Goes(g, "lookup"), call'[g].todo = call[g].todo \ {n},
             call'[g].ids = call[g].ids \cup {TaskNameIndex[n]}, HistStays
      PROVE  DepsOf(g)'
  <2>1. ~Unbacked(g)
    BY <1>1 DEF Unbacked
  <2>2. n \in Kept
    BY <1>2, <2>1, OnlyOneIndex
  <2>3. TaskNameIndex[n] \in DOMAIN Tasks \ {call[g].id}
    BY <1>2, <2>2 DEF Index, InverseInv, Settled
  <2>4. Fresh(g)' <=> Fresh(g)
    BY <1>1, <1>2 DEF Goes, Fresh
  <2>5. /\ Storing(g)' /\ call'[g].id = call[g].id /\ ~Going(g)' /\ call'[g].object = call[g].object
        /\ call'[g].pc = "lookup"
    BY <1>2 DEF Goes, Storing, Going
  <2>6. KnowsDeps(g)'
    BY <1>1, <1>2, <2>3, <2>4, <2>5 DEF KnowsDeps, DepsOf
  <2>7. Finds(g) => Finds(g)'
    BY <1>1, <1>2, <2>5 DEF Finds
  <2>8. ~hist'.stale => Finds(g)'
    BY <1>2, <2>7 DEF DepsOf, HistStays
  <2> HIDE DEF KnowsDeps, Finds, Storing
  <2> QED
    BY <1>1, <1>2, <2>5, <2>6, <2>8, SameMapsDeps DEF HistStays
<1>3. CASE call[g].kind = "add" /\ Goes(g, "undoboth") /\ HistStays
  <2>1. KnowsDeps(g)' /\ Finds(g)' /\ Storing(g)' /\ call'[g].id = call[g].id
    BY <1>1, <1>3 DEF Goes, DepsOf, KnowsDeps, Finds, Storing, Fresh, Going
  <2> QED
    BY <1>1, <1>3, <2>1, SameMapsDeps DEF HistStays
<1>4. CASE Ends(g) /\ Stales(TRUE)
  <2>1. ~On(g)'
    BY <1>4, IdleFacts DEF Ends, On
  <2> QED
    BY <1>1, <1>4, <2>1, OffKnowsDeps, SameMapsDeps DEF Stales
<1> QED
  BY <1>2, <1>3, <1>4, LookUpEffect

\* Looking whether there are any keeps the dependencies whole.
LEMMA LoadDependenciesKeepsDeps ==
  ASSUME DefTypeOK, Index, NEW g \in Goroutine, DepsOf(g), LoadDependencies(g)
  PROVE  DepsOf(g)'
<1> USE DEF DefTypeOK
<1>1. /\ UNCHANGED <<Tasks, TaskNameIndex>> /\ call[g].pc = "store" /\ call[g].kind = "addsub"
      /\ Dependencies' = Put(Dependencies, call[g].id, There(g))
      /\ Stales(hist.stale \/ NamesOf[call[g].object] # {})
  BY LoadDependenciesEffect, PlaceFacts
<1>2. /\ \A t \in DOMAIN Dependencies : call[g].id \notin Dependencies[t]
      /\ call[g].id \notin DOMAIN Dependencies
      /\ call[g].parent \in DOMAIN Tasks
  BY <1>1 DEF DepsOf, KnowsDeps, Fresh
<1>3. There(g) = {}
  BY <1>2 DEF There
<1>4. Goes(g, "append") /\ call'[g].ids = {call[g].parent}
  BY <1>3, LoadDependenciesEffect
<1>5. /\ DOMAIN Dependencies' = DOMAIN Dependencies \cup {call[g].id}
      /\ Dependencies'[call[g].id] = {}
      /\ \A t \in DOMAIN Dependencies : Dependencies'[t] = Dependencies[t]
  BY <1>1, <1>2, <1>3 DEF Put
<1>6. call[g].id \in DOMAIN Tasks /\ Tasks[call[g].id] = call[g].object
  BY <1>1 DEF Index, OwnersInv, Named
<1>7. /\ call'[g].pc = "append" /\ call'[g].id = call[g].id /\ call'[g].parent = call[g].parent
      /\ call'[g].object = call[g].object /\ Storing(g)' /\ ~Going(g)'
  BY <1>4 DEF Goes, Storing, Fresh, Going
<1>8. KnowsDeps(g)'
  BY <1>1, <1>2, <1>4, <1>5, <1>7 DEF KnowsDeps
<1>9. ~hist'.stale => ~hist.stale /\ Finds(g)'
  BY <1>1, <1>7 DEF Stales, Finds
<1>10. \A i : Follows(i) => Follows(i)'
  BY <1>1, <1>5 DEF Follows
<1>11. Acyclic => Acyclic'
  BY <1>1, <1>2, <1>3, AcyclicPut
<1>12. hist'.circular = hist.circular
  BY <1>1 DEF Stales
<1>13. /\ \A t \in DOMAIN Dependencies : Dependencies[t] \subseteq DOMAIN Tasks
       /\ \A t \in DOMAIN Dependencies : t \in DOMAIN Tasks
       /\ ~hist.circular => Acyclic
       /\ ~hist.stale => \A i \in DOMAIN Tasks : Follows(i) \/ call[g].id = i
  BY <1>1 DEF DepsOf
<1> HIDE DEF Follows, Acyclic, KnowsDeps, Finds, Storing
<1> QED
  BY <1>1, <1>5, <1>6, <1>7, <1>8, <1>9, <1>10, <1>11, <1>12, <1>13 DEF DepsOf

\* Storing the dependencies keeps the dependencies whole.
LEMMA StoreDependenciesKeepsDeps ==
  ASSUME DefTypeOK, Index, FlagsInv, NEW g \in Goroutine, DepsOf(g), StoreDependencies(g)
  PROVE  DepsOf(g)'
<1> USE DEF DefTypeOK
<1> SUFFICES ASSUME NEW id, id = call[g].id, NEW ids, ids = call[g].ids PROVE DepsOf(g)'
  OBVIOUS
<1>1. /\ UNCHANGED <<Tasks, TaskNameIndex, hist>> /\ On(g) /\ Ends(g)
      /\ call[g].pc = "append" \/ (call[g].pc = "lookup" /\ call[g].todo = {})
  BY StoreDependenciesEffect
<1>2. ~On(g)'
  BY <1>1, IdleFacts DEF Ends, On
<1>3. KnowsDeps(g)' /\ Finds(g)' /\ ~Storing(g)'
  BY <1>2, OffKnowsDeps
<1>4. /\ \A t \in DOMAIN Dependencies : Dependencies[t] \subseteq DOMAIN Tasks
      /\ \A t \in DOMAIN Dependencies : t \in DOMAIN Tasks
      /\ ~hist.circular => Acyclic
      /\ ~hist.stale => Finds(g) /\ \A i \in DOMAIN Tasks : Follows(i) \/ id = i
  BY <1>1 DEF DepsOf
<1>5. id \in DOMAIN Tasks /\ Tasks[id] = call[g].object /\ ids \subseteq DOMAIN Tasks
  <2>1. CASE call[g].pc = "append"
    <3>1. call[g].kind = "addsub"
      BY <2>1, PlaceFacts
    <3> QED
      BY <2>1, <3>1 DEF Index, OwnersInv, Named, DepsOf, KnowsDeps
  <2>2. CASE call[g].pc = "lookup"
    BY <2>2 DEF DepsOf, KnowsDeps
  <2> QED
    BY <1>1, <2>1, <2>2
\* Unless a circle was asked for, nothing depends on the task, itself included.
<1>6. ~hist.circular => id \notin ids /\ \A t \in DOMAIN Dependencies : id \notin Dependencies[t]
  <2> SUFFICES ASSUME ~hist.circular
               PROVE  id \notin ids /\ \A t \in DOMAIN Dependencies : id \notin Dependencies[t]
    OBVIOUS
  <2>1. CASE call[g].pc = "append"
    <3>1. call[g].kind = "addsub"
      BY <2>1, PlaceFacts
    <3>2. call[g].parent # id
      BY <1>1, <3>1 DEF FlagsInv
    <3> QED
      BY <2>1, <3>2 DEF DepsOf, KnowsDeps, Fresh
  <2>2. CASE call[g].pc = "lookup"
    <3>1. call[g].kind = "add"
      BY <1>1, <2>2, PlaceFacts DEF FlagsInv
    <3> QED
      BY <2>2, <3>1 DEF DepsOf, KnowsDeps, Fresh
  <2> QED
    BY <1>1, <2>1, <2>2
\* What the task names is among what was found.
<1>7. ~hist.stale => \A n \in NamesOf[Tasks[id]] : n \in DOMAIN TaskNameIndex /\ TaskNameIndex[n] \in ids
  BY <1>1, <1>4, <1>5 DEF Finds
<1>8. CASE ids # {} /\ Dependencies' = Put(Dependencies, id, ids)
  <2>1. /\ DOMAIN Dependencies' = DOMAIN Dependencies \cup {id}
        /\ Dependencies'[id] = ids
        /\ \A t \in DOMAIN Dependencies \ {id} : Dependencies'[t] = Dependencies[t]
    BY <1>8 DEF Put
  <2>2. ~hist.circular => Acyclic'
    BY <1>4, <1>6, <1>8, AcyclicPut
  <2>3. \A i \in DOMAIN Tasks \ {id} : Follows(i) => Follows(i)'
    BY <1>1, <2>1 DEF Follows
  <2>4. ~hist.stale => Follows(id)'
    BY <1>1, <1>7, <2>1 DEF Follows
  <2>5. \A t \in DOMAIN Dependencies' : Dependencies'[t] \subseteq DOMAIN Tasks /\ t \in DOMAIN Tasks
    BY <1>4, <1>5, <2>1
  <2> HIDE DEF Follows, Acyclic, KnowsDeps, Finds, Storing
  <2> QED
    BY <1>1, <1>3, <1>4, <2>2, <2>3, <2>4, <2>5 DEF DepsOf
<1>9. CASE ids = {} /\ Dependencies' = Without(Dependencies, id)
  <2>1. /\ DOMAIN Dependencies' = DOMAIN Dependencies \ {id}
        /\ \A t \in DOMAIN Dependencies \ {id} : Dependencies'[t] = Dependencies[t]
    BY <1>9 DEF Without
  <2>2. Acyclic => Acyclic'
    BY <2>1, AcyclicLess
  <2>3. \A i \in DOMAIN Tasks \ {id} : Follows(i) => Follows(i)'
    BY <1>1, <2>1 DEF Follows
  <2>4. ~hist.stale => Follows(id)'
    BY <1>1, <1>7, <1>9 DEF Follows
  <2>5. \A t \in DOMAIN Dependencies' : Dependencies'[t] \subseteq DOMAIN Tasks /\ t \in DOMAIN Tasks
    BY <1>4, <1>5, <2>1
  <2> HIDE DEF Follows, Acyclic, KnowsDeps, Finds, Storing
  <2> QED
    BY <1>1, <1>3, <1>4, <2>2, <2>3, <2>4, <2>5 DEF DepsOf
<1>10. CASE ids = {} /\ UNCHANGED Dependencies
  <2>1. ~hist.stale => Follows(id)
    BY <1>7, <1>10 DEF Follows
  <2> HIDE DEF Follows
  <2> QED
    BY <1>1, <1>3, <1>10, <2>1, SameMapsDeps
<1> QED
  BY <1>8, <1>9, <1>10, StoreDependenciesEffect

\* Taking the task back keeps the dependencies whole.
LEMMA UndoTaskKeepsDeps ==
  ASSUME DefTypeOK, NEW g \in Goroutine, DepsOf(g), UndoTask(g)
  PROVE  DepsOf(g)'
<1> DEFINE id == call[g].id
<1>1. /\ UNCHANGED <<TaskNameIndex, Dependencies, hist>> /\ Tasks' = Without(Tasks, id)
      /\ \/ call[g].pc = "undo" /\ Ends(g)
         \/ call[g].pc = "undoboth" /\ Goes(g, "undoname")
  BY UndoTaskEffect DEF DefTypeOK
<1>2. /\ DOMAIN Tasks' = DOMAIN Tasks \ {id}
      /\ \A i \in DOMAIN Tasks' : Tasks'[i] = Tasks[i]
  BY <1>1 DEF Without
<1>3. /\ \A t \in DOMAIN Dependencies : id \notin Dependencies[t] /\ t # id
      /\ \A t \in DOMAIN Dependencies : Dependencies[t] \subseteq DOMAIN Tasks
      /\ \A t \in DOMAIN Dependencies : t \in DOMAIN Tasks
      /\ ~hist.circular => Acyclic
      /\ ~hist.stale => \A i \in DOMAIN Tasks : Follows(i) \/ id = i
  BY <1>1 DEF DepsOf, KnowsDeps, Fresh
<1>4. KnowsDeps(g)' /\ Finds(g)'
  BY <1>1, <1>3 DEF Goes, Ends, Idle, KnowsDeps, Finds, Fresh, Going
<1>5. \A i \in DOMAIN Tasks' : Follows(i) => Follows(i)'
  BY <1>1, <1>2 DEF Follows
<1>6. Acyclic' <=> Acyclic
  BY <1>1 DEF Acyclic
<1>7. \A t \in DOMAIN Dependencies : Dependencies[t] \subseteq DOMAIN Tasks' /\ t \in DOMAIN Tasks'
  BY <1>2, <1>3
<1> HIDE DEF Follows, Acyclic, KnowsDeps, Finds, Storing
<1> QED
  BY <1>1, <1>2, <1>3, <1>4, <1>5, <1>6, <1>7 DEF DepsOf

\* Taking the name back keeps the dependencies whole.
LEMMA UndoNameKeepsDeps ==
  ASSUME DefTypeOK, Index, NEW g \in Goroutine, DepsOf(g), UndoName(g)
  PROVE  DepsOf(g)'
<1> DEFINE id == call[g].id
           name == TaskNameOf[call[g].object]
<1>1. /\ UNCHANGED <<Tasks, Dependencies, hist>> /\ call[g].pc = "undoname" /\ Ends(g)
      /\ TaskNameIndex' = Without(TaskNameIndex, name)
  BY UndoNameEffect DEF DefTypeOK
<1>2. /\ DOMAIN TaskNameIndex' = DOMAIN TaskNameIndex \ {name}
      /\ \A n \in DOMAIN TaskNameIndex' : TaskNameIndex'[n] = TaskNameIndex[n]
  BY <1>1 DEF Without
<1>3. TaskNameIndex[name] = id
  BY <1>1 DEF Index, OwnersInv, Unbacked, UnbackedName
<1>4. \A t \in DOMAIN Dependencies : id \notin Dependencies[t] /\ t # id
  BY <1>1 DEF DepsOf, KnowsDeps, Fresh
<1>5. \A i : Follows(i) => Follows(i)'
  BY <1>1, <1>2, <1>3, <1>4 DEF Follows
<1>6. KnowsDeps(g)' /\ Finds(g)'
  BY <1>1 DEF Ends, Idle, KnowsDeps, Finds, Fresh, Going
<1>7. Acyclic' <=> Acyclic
  BY <1>1 DEF Acyclic
<1>8. ~hist.stale => \A i \in DOMAIN Tasks : Follows(i)
  BY <1>1 DEF DepsOf, Storing
<1> HIDE DEF Follows, Acyclic, KnowsDeps, Finds, Storing
<1> QED
  BY <1>1, <1>5, <1>6, <1>7, <1>8 DEF DepsOf

\* A step of AddTask or AddSubTask keeps the dependencies whole.
LEMMA AddingKeepsDeps ==
  ASSUME DefTypeOK, Index, FlagsInv, NEW g \in Goroutine, OnlyOne(g), DepsOf(g), Adding(g)
  PROVE  DepsOf(g)'
BY StoreTaskKeepsDeps, CheckParentKeepsDeps, StoreNameKeepsDeps, LookUpKeepsDeps,
   LoadDependenciesKeepsDeps, StoreDependenciesKeepsDeps, UndoTaskKeepsDeps, UndoNameKeepsDeps
   DEF Adding

\* A step of UpdateTask keeps the dependencies whole.
LEMMA UpdatingKeepsDeps ==
  ASSUME DefTypeOK, Index, NEW g \in Goroutine, OnlyOne(g), DepsOf(g), Updating(g)
  PROVE  DepsOf(g)'
<1> USE DEF DefTypeOK
<1> SUFFICES ASSUME NEW id, id = call[g].id PROVE DepsOf(g)'
  OBVIOUS
<1>1. Knows(g)
  BY ChangersKnow DEF Index
<1>2. CASE LoadOld(g) \/ CheckName(g)
  <2>1. /\ UNCHANGED <<Tasks, TaskNameIndex, Dependencies, hist>>
        /\ call[g].pc \in {"update", "checkname"}
        /\ Ends(g) \/ Goes(g, "replace") \/ Goes(g, "checkname") \/ Goes(g, "unname")
    BY <1>2, LoadOldEffect, CheckNameEffect
  <2>2. ~Storing(g) /\ ~Storing(g)' /\ ~Fresh(g)' /\ ~Going(g)'
    BY <2>1 DEF Goes, Ends, Idle, Storing, Fresh, Going
  <2> QED
    BY <2>1, <2>2, IdleDeps
<1>3. ASSUME UNCHANGED <<Tasks, Dependencies>>, Storing(g) => call[g].id \notin DOMAIN Tasks,
             call[g].pc \notin {"delname", "deldeps"},
             hist'.circular = hist.circular, ~hist'.stale => ~hist.stale,
             ~Storing(g)', ~Fresh(g)', ~Going(g)', ~hist'.stale => \A i : Follows(i) => Follows(i)'
      PROVE  DepsOf(g)'
  <2>1. KnowsDeps(g)' /\ Finds(g)'
    BY <1>3 DEF KnowsDeps, Finds, Storing, Fresh, Going
  <2>2. Acyclic' <=> Acyclic
    BY <1>3 DEF Acyclic
  <2> HIDE DEF Follows, Acyclic, KnowsDeps, Finds, Storing
  <2> QED
    BY <1>3, <2>1, <2>2 DEF DepsOf
\* The old name: if a task depends on it, that is remembered.
<1>4. CASE Unname(g)
  <2>1. /\ UNCHANGED <<Tasks, Dependencies>> /\ call[g].pc = "unname" /\ Goes(g, "rename")
        /\ TaskNameIndex' = Without(TaskNameIndex, TaskNameOf[call[g].old])
        /\ Stales(hist.stale \/ \E t \in DOMAIN Dependencies : id \in Dependencies[t])
    BY <1>4, UnnameEffect
  <2>2. id \in DOMAIN Tasks /\ call[g].old = Tasks[id]
    BY <1>1, <2>1 DEF Knows
  <2> DEFINE was == TaskNameOf[Tasks[id]]
  <2>3. /\ DOMAIN TaskNameIndex' = DOMAIN TaskNameIndex \ {was}
        /\ \A n \in DOMAIN TaskNameIndex' : TaskNameIndex'[n] = TaskNameIndex[n]
    BY <2>1, <2>2 DEF Without
  <2>4. TaskNameIndex[was] = id
    <3>1. ~Unnamed(g)
      BY <2>1 DEF Unnamed
    <3>2. id \in Settled
      BY <2>2, <3>1, OnlyOneIndex
    <3> QED
      BY <3>2 DEF Index, InverseInv
  <2>5. ~hist'.stale => ~hist.stale /\ \A t \in DOMAIN Dependencies : id \notin Dependencies[t]
    BY <2>1 DEF Stales
  <2>6. ~hist'.stale => \A i : Follows(i) => Follows(i)'
    BY <2>1, <2>3, <2>4, <2>5 DEF Follows
  <2>7. ~Storing(g) /\ ~Storing(g)' /\ ~Fresh(g)' /\ ~Going(g)' /\ hist'.circular = hist.circular
    BY <2>1 DEF Goes, Storing, Fresh, Going, Stales
  <2> QED
    BY <1>3, <2>1, <2>5, <2>6, <2>7
<1>5. CASE Rename(g)
  <2>1. /\ UNCHANGED <<Tasks, Dependencies, hist>> /\ call[g].pc = "rename" /\ Goes(g, "replace")
        /\ TaskNameIndex' = Put(TaskNameIndex, TaskNameOf[call[g].object], id)
    BY <1>5, RenameEffect
  <2> DEFINE name == TaskNameOf[call[g].object]
  <2>2. name \notin DOMAIN TaskNameIndex
    BY <1>1, <2>1 DEF Knows
  <2>3. /\ DOMAIN TaskNameIndex' = DOMAIN TaskNameIndex \cup {name}
        /\ \A n \in DOMAIN TaskNameIndex : TaskNameIndex'[n] = TaskNameIndex[n]
    BY <2>1, <2>2 DEF Put
  <2>4. \A i : Follows(i) => Follows(i)'
    BY <2>1, <2>3 DEF Follows
  <2>5. ~Storing(g) /\ ~Storing(g)' /\ ~Fresh(g)' /\ ~Going(g)'
    BY <2>1 DEF Goes, Storing, Fresh, Going
  <2> QED
    BY <1>3, <2>1, <2>4, <2>5
<1>6. CASE Replace(g)
  <2>1. /\ UNCHANGED <<TaskNameIndex, Dependencies, hist>> /\ call[g].pc = "replace"
        /\ Goes(g, "lookup") /\ call'[g].ids = {} /\ call'[g].todo = NamesOf[call[g].object]
        /\ Tasks' = Put(Tasks, id, call[g].object) /\ call[g].kind = "update"
    BY <1>6, ReplaceEffect, PlaceFacts DEF UpdatePlaces
  <2>2. id \in DOMAIN Tasks
    BY <2>1 DEF Index, OwnersInv, Unnamed
  <2>3. /\ DOMAIN Tasks' = DOMAIN Tasks /\ Tasks'[id] = call[g].object
        /\ \A i \in DOMAIN Tasks \ {id} : Tasks'[i] = Tasks[i]
    BY <2>1, <2>2 DEF Put
  <2>4. /\ ~Storing(g) /\ Storing(g)' /\ ~Fresh(g)' /\ ~Going(g)' /\ call'[g].id = id
        /\ call'[g].pc = "lookup" /\ call'[g].object = call[g].object
    BY <2>1 DEF Goes, Storing, Fresh, Going
  <2>5. KnowsDeps(g)' /\ Finds(g)'
    BY <2>1, <2>2, <2>3, <2>4 DEF KnowsDeps, Finds
  <2>6. \A i \in DOMAIN Tasks \ {id} : Follows(i) => Follows(i)'
    BY <2>1, <2>3 DEF Follows
  <2>7. Acyclic' <=> Acyclic
    BY <2>1 DEF Acyclic
  <2> HIDE DEF Follows, Acyclic, KnowsDeps, Finds, Storing
  <2> QED
    BY <2>1, <2>3, <2>4, <2>5, <2>6, <2>7 DEF DepsOf
<1> QED
  BY <1>2, <1>4, <1>5, <1>6 DEF Updating

\* A step of DeleteTask keeps the dependencies whole.
LEMMA DeletingKeepsDeps ==
  ASSUME DefTypeOK, Index, NEW g \in Goroutine, OnlyOne(g), DepsOf(g), Deleting(g)
  PROVE  DepsOf(g)'
<1> USE DEF DefTypeOK
<1> SUFFICES ASSUME NEW id, id = call[g].id PROVE DepsOf(g)'
  OBVIOUS
<1>1. CASE LoadTask(g)
  <2>1. /\ UNCHANGED <<Tasks, TaskNameIndex, Dependencies, hist>> /\ call[g].pc = "delete"
        /\ Ends(g) \/ Goes(g, "scan")
    BY <1>1, LoadTaskEffect
  <2>2. ~Storing(g) /\ ~Storing(g)' /\ ~Fresh(g)' /\ ~Going(g)'
    BY <2>1 DEF Goes, Ends, Idle, Storing, Fresh, Going
  <2> QED
    BY <2>1, <2>2, IdleDeps
<1>2. CASE ScanDependents(g)
  <2>1. /\ UNCHANGED <<Tasks, TaskNameIndex, Dependencies, hist>> /\ call[g].pc = "scan"
        /\ \/ Ends(g)
           \/ /\ \A t \in DOMAIN Dependencies : id \notin Dependencies[t]
              /\ Goes(g, "deltask")
    BY <1>2, ScanDependentsEffect
  <2>2. ~Storing(g) /\ KnowsDeps(g)' /\ Finds(g)'
    BY <2>1 DEF Goes, Ends, Idle, Storing, Fresh, Going, KnowsDeps, Finds
  <2> QED
    BY <2>1, <2>2, SameMapsDeps
\* In what follows nothing depends on the task.
<1>3. ASSUME Going(g)
      PROVE  /\ \A t \in DOMAIN Dependencies : id \notin Dependencies[t]
             /\ ~Storing(g)
             /\ \A t \in DOMAIN Dependencies : Dependencies[t] \subseteq DOMAIN Tasks
             /\ \A t \in DOMAIN Dependencies \ DOMAIN Tasks :
                  call[g].pc \in {"delname", "deldeps"} /\ t = id
             /\ ~hist.circular => Acyclic
             /\ ~hist.stale => \A i \in DOMAIN Tasks : Follows(i)
  BY <1>3 DEF DepsOf, KnowsDeps, Going, Storing, Fresh
<1>4. ASSUME NEW q \in {"delname", "deldeps", "sweep"}, Goes(g, q),
             \A t \in DOMAIN Dependencies' : id \notin Dependencies'[t]
      PROVE  /\ KnowsDeps(g)' /\ Finds(g)' /\ ~Storing(g)' /\ call'[g].id = id /\ call'[g].pc = q
  BY <1>4 DEF Goes, KnowsDeps, Finds, Storing, Fresh
<1>5. CASE DeleteFromTasks(g)
  <2>1. /\ UNCHANGED <<TaskNameIndex, Dependencies, hist>> /\ call[g].pc = "deltask"
        /\ Goes(g, "delname") /\ Tasks' = Without(Tasks, id) /\ Going(g)
    BY <1>5, DeleteFromTasksEffect DEF Going
  <2>2. /\ DOMAIN Tasks' = DOMAIN Tasks \ {id}
        /\ \A i \in DOMAIN Tasks' : Tasks'[i] = Tasks[i]
    BY <2>1 DEF Without
  <2>3. KnowsDeps(g)' /\ Finds(g)' /\ ~Storing(g)' /\ call'[g].id = id /\ call'[g].pc = "delname"
    BY <1>3, <1>4, <2>1
  <2>4. \A i \in DOMAIN Tasks' : Follows(i) => Follows(i)'
    BY <2>1, <2>2 DEF Follows
  <2>5. Acyclic' <=> Acyclic
    BY <2>1 DEF Acyclic
  <2> HIDE DEF Follows, Acyclic, KnowsDeps, Finds, Storing
  <2> QED
    BY <1>3, <2>1, <2>2, <2>3, <2>4, <2>5 DEF DepsOf
<1>6. CASE DeleteFromIndex(g)
  <2>1. /\ UNCHANGED <<Tasks, Dependencies, hist>> /\ call[g].pc = "delname"
        /\ Goes(g, "deldeps") /\ TaskNameIndex' = Without(TaskNameIndex, TaskNameOf[call[g].old])
        /\ Going(g)
    BY <1>6, DeleteFromIndexEffect DEF Going
  <2> DEFINE was == TaskNameOf[call[g].old]
  <2>2. /\ DOMAIN TaskNameIndex' = DOMAIN TaskNameIndex \ {was}
        /\ \A n \in DOMAIN TaskNameIndex' : TaskNameIndex'[n] = TaskNameIndex[n]
    BY <2>1 DEF Without
  <2>3. TaskNameIndex[was] = id
    BY <2>1 DEF Index, OwnersInv, Unbacked, UnbackedName
  <2>4. \A i : Follows(i) => Follows(i)'
    BY <1>3, <2>1, <2>2, <2>3 DEF Follows
  <2>5. KnowsDeps(g)' /\ Finds(g)' /\ ~Storing(g)' /\ call'[g].id = id /\ call'[g].pc = "deldeps"
    BY <1>3, <1>4, <2>1
  <2>6. Acyclic' <=> Acyclic
    BY <2>1 DEF Acyclic
  <2> HIDE DEF Follows, Acyclic, KnowsDeps, Finds, Storing
  <2> QED
    BY <1>3, <2>1, <2>4, <2>5, <2>6 DEF DepsOf
<1>7. CASE DeleteFromDependencies(g)
  <2>1. /\ UNCHANGED <<Tasks, TaskNameIndex, hist>> /\ call[g].pc = "deldeps"
        /\ Goes(g, "sweep") /\ Dependencies' = Without(Dependencies, id) /\ Going(g)
    BY <1>7, DeleteFromDependenciesEffect DEF Going
  <2>2. /\ DOMAIN Dependencies' = DOMAIN Dependencies \ {id}
        /\ \A t \in DOMAIN Dependencies' : Dependencies'[t] = Dependencies[t]
    BY <2>1 DEF Without
  <2>3. id \notin DOMAIN Tasks
    BY <2>1, ChangersKnow DEF Index, Knows
  <2>4. \A i \in DOMAIN Tasks : Follows(i) => Follows(i)'
    BY <2>1, <2>2, <2>3 DEF Follows
  <2>5. Acyclic => Acyclic'
    BY <2>2, AcyclicLess
  <2>6. KnowsDeps(g)' /\ Finds(g)' /\ ~Storing(g)' /\ call'[g].id = id /\ call'[g].pc = "sweep"
    BY <1>3, <1>4, <2>1, <2>2
  <2> HIDE DEF Follows, Acyclic, KnowsDeps, Finds, Storing
  <2> QED
    BY <1>3, <2>1, <2>2, <2>4, <2>5, <2>6 DEF DepsOf
<1>8. CASE SweepDependents(g)
  <2>1. /\ UNCHANGED <<Tasks, TaskNameIndex, hist>> /\ call[g].pc = "sweep" /\ Ends(g) /\ Going(g)
        /\ Dependencies' = [t \in DOMAIN Dependencies' |-> Dependencies[t] \ {id}]
        /\ DOMAIN Dependencies' \subseteq DOMAIN Dependencies
        /\ \A t \in DOMAIN Dependencies : id \notin Dependencies[t] => t \in DOMAIN Dependencies'
    BY <1>8, SweepDependentsEffect DEF Going
  <2>2. /\ DOMAIN Dependencies' = DOMAIN Dependencies
        /\ \A t \in DOMAIN Dependencies : Dependencies'[t] = Dependencies[t] \ {id}
    BY <1>3, <2>1
  <2>3. \A t \in DOMAIN Dependencies : Dependencies'[t] = Dependencies[t]
    BY <1>3, <2>1, <2>2
  <2>4. \A i \in DOMAIN Tasks : Follows(i) => Follows(i)'
    BY <2>1, <2>2, <2>3 DEF Follows
  <2>5. Acyclic => Acyclic'
    BY <2>2, <2>3, AcyclicLess
  <2>6. KnowsDeps(g)' /\ Finds(g)' /\ ~Storing(g)'
    BY <2>1 DEF Ends, Idle, KnowsDeps, Finds, Storing, Fresh, Going
  <2> HIDE DEF Follows, Acyclic, KnowsDeps, Finds, Storing
  <2> QED
    BY <1>3, <2>1, <2>2, <2>3, <2>4, <2>5, <2>6 DEF DepsOf
<1> QED
  BY <1>1, <1>2, <1>5, <1>6, <1>7, <1>8 DEF Deleting

\* A step of Validate keeps the dependencies whole.
LEMMA ValidatingKeepsDeps ==
  ASSUME DefTypeOK, NEW g \in Goroutine, DepsOf(g), Validating(g)
  PROVE  DepsOf(g)'
<1>1. /\ UNCHANGED <<Tasks, TaskNameIndex, Dependencies>>
      /\ call[g].pc \in {"validate", "valnames", "valdeps"}
      /\ hist'.stale = hist.stale /\ hist'.circular = hist.circular
      /\ Ends(g) \/ Goes(g, "valnames") \/ Goes(g, "valdeps")
  BY ReadNamesEffect, CheckNamesEffect, CheckDependenciesEffect DEF Validating, DefTypeOK
<1>2. ~Storing(g) /\ ~Storing(g)' /\ ~Fresh(g)' /\ ~Going(g)'
  BY <1>1 DEF Goes, Ends, Idle, Storing, Fresh, Going
<1> QED
  BY <1>1, <1>2, IdleDeps

\* Any step of a call keeps index and Tasks inverse.
LEMMA ProceedsKeepsIndex ==
  ASSUME DefTypeOK, DefTypeOK', FlagsInv, IndexInv, NEW g \in Goroutine, Proceeds(g)
  PROVE  IndexInv'
<1>1. Moves(g)
  BY ProceedsMoves
<1> SUFFICES ASSUME ~hist.torn PROVE Index'
  BY <1>1 DEF IndexInv, Index, Moves
<1>2. Index /\ CallsOK'
  BY DEF IndexInv, Index, DefTypeOK
<1> QED
  BY <1>2, AddingKeepsIndex, UpdatingKeepsIndex, DeletingKeepsIndex, ValidatingKeepsIndex
     DEF Proceeds

\* As long as no two calls overlap, the one that moves is alone.
LEMMA ProceedsKeepsDeps ==
  ASSUME DefTypeOK, FlagsInv, IndexInv, DepsInv, NEW g \in Goroutine, Proceeds(g)
  PROVE  DepsInv'
<1>1. Moves(g)
  BY ProceedsMoves
<1> SUFFICES ASSUME ~hist.overlap PROVE Deps'
  BY <1>1 DEF DepsInv, Deps, Moves
<1>2. Deps /\ Index
  BY DEF DepsInv, Deps, IndexInv, Index, FlagsInv
<1>3. OnlyOne(g)
  BY <1>1 DEF FlagsInv, Moves, OnlyOne
<1>4. DepsOf(g)
  BY <1>2, <1>3, OneCall DEF OnlyOne
<1>5. DepsOf(g)'
  BY <1>2, <1>3, <1>4, AddingKeepsDeps, UpdatingKeepsDeps, DeletingKeepsDeps, ValidatingKeepsDeps
     DEF Proceeds
<1>6. \A h \in Goroutine \ {g} : ~On(h)'
  BY <1>1, <1>3, MovesCalls DEF OnlyOne, On
<1> QED
  BY <1>5, <1>6, OneCall

\* The start of a call keeps the dependencies whole.
LEMMA BeginKeepsDeps ==
  ASSUME CallsOK, DepsInv, NEW g \in Goroutine, NEW kind, NEW object, NEW id, NEW parent,
         Arguments(kind, object, id, parent), Begin(g, kind, object, id, parent)
  PROVE  DepsInv'
<1>1. /\ UNCHANGED <<Tasks, TaskNameIndex, Dependencies>> /\ ~On(g)
      /\ \A h \in Goroutine \ {g} : Stays(h)
      /\ call'[g].pc \in {"add", "update", "addsub", "delete", "validate"}
      /\ hist'.stale = hist.stale /\ (hist.circular => hist'.circular)
      /\ hist'.overlap = (hist.overlap \/ \E h \in Goroutine \ {g} : On(h))
  BY BeginEffect DEF Arguments
<1> SUFFICES ASSUME ~hist'.overlap PROVE Deps'
  BY DEF DepsInv, Deps
<1>2. Deps /\ \A h \in Goroutine \ {g} : ~On(h)
  BY <1>1 DEF DepsInv, Deps
<1>3. DepsOf(g)
  BY <1>2, OneCall
<1>4. ~Storing(g) /\ call[g].pc \notin {"delname", "deldeps"}
  BY <1>1, OffKnowsDeps DEF On
<1>5. ~Storing(g)' /\ ~Fresh(g)' /\ ~Going(g)'
  BY <1>1 DEF Storing, Fresh, Going
<1>6. DepsOf(g)'
  BY <1>1, <1>3, <1>4, <1>5, IdleDeps
<1>7. \A h \in Goroutine \ {g} : ~On(h)'
  BY <1>1, <1>2 DEF Stays, On
<1> QED
  BY <1>6, <1>7, OneCall

\* The dependencies at the start are whole.
LEMMA InitDeps ==
  ASSUME DefInit
  PROVE  DepsInv
<1>1. PICK S \in Starts : StartsWith(S) /\ Built(S)
  BY InitMaps
<1>2. \A g \in Goroutine : ~On(g)
  BY IdleFacts DEF DefInit, On
<1>3. \A o \in S : \A n \in NamesOf[o] : n \in DOMAIN TaskNameIndex /\ TaskNameIndex[n] \in DOMAIN Tasks
  BY <1>1 DEF StartsWith, Built, Names
<1>4. \A o \in S : /\ Tasks[IdOf[o]] = o
                   /\ NamesOf[o] # {} => /\ IdOf[o] \in DOMAIN Dependencies
                                         /\ Dependencies[IdOf[o]] = {TaskNameIndex[n] : n \in NamesOf[o]}
  BY <1>1 DEF StartsWith
<1>5. \A t \in DOMAIN Dependencies : \E o \in S : NamesOf[o] # {} /\ t = IdOf[o]
  BY <1>1 DEF StartsWith
<1>6. \A t \in DOMAIN Dependencies : Dependencies[t] \subseteq DOMAIN Tasks /\ t \in DOMAIN Tasks
  <2> SUFFICES ASSUME NEW o \in S, NamesOf[o] # {}
               PROVE  Dependencies[IdOf[o]] \subseteq DOMAIN Tasks /\ IdOf[o] \in DOMAIN Tasks
    BY <1>5
  <2>1. IdOf[o] \in DOMAIN Tasks
    BY <1>1 DEF StartsWith
  <2> QED
    BY <1>3, <1>4, <2>1
<1>7. \A i \in DOMAIN Tasks : Follows(i)
  <2> SUFFICES ASSUME NEW o \in S PROVE Follows(IdOf[o])
    BY <1>1 DEF StartsWith
  <2> QED
    BY <1>3, <1>4 DEF Follows
<1>8. Acyclic
  <2> SUFFICES ASSUME NEW X \in (SUBSET DOMAIN Dependencies) \ {{}}
               PROVE  \E t \in X : Dependencies[t] \cap X = {}
    BY DEF Acyclic
  <2> DEFINE T == {o \in S : IdOf[o] \in X}
  <2>1. T \in (SUBSET S) \ {{}}
    BY <1>5
  <2>2. PICK o \in T : NamesOf[o] \cap Names(T) = {}
    BY <1>1, <2>1 DEF Built
  <2>3. IdOf[o] \in X /\ o \in S /\ IdOf[o] \in DOMAIN Dependencies
    OBVIOUS
  <2>4. NamesOf[o] # {}
    <3>1. PICK p \in S : NamesOf[p] # {} /\ IdOf[o] = IdOf[p]
      BY <1>5, <2>3
    <3> QED
      BY <1>1, <2>3, <3>1 DEF Built
  <2>5. Dependencies[IdOf[o]] = {TaskNameIndex[n] : n \in NamesOf[o]}
    BY <1>4, <2>3, <2>4
  <2>6. ASSUME NEW n \in NamesOf[o] PROVE TaskNameIndex[n] \notin X
    <3>1. PICK p \in S : n = TaskNameOf[p]
      BY <1>1, <2>3 DEF Built, Names
    <3>2. TaskNameIndex[n] = IdOf[p]
      BY <1>1, <3>1 DEF StartsWith
    <3>3. p \notin T
      BY <2>2, <3>1 DEF Names
    <3> QED
      BY <3>2, <3>3
  <2> QED
    BY <2>3, <2>5, <2>6
<1>9. WholeInv
  BY <1>6, <1>8 DEF WholeInv
<1>10. KnownInv
  BY <1>2, OffKnowsDeps DEF KnownInv, KnowsDeps
<1>11. FollowsInv
  BY <1>2, <1>7, OffKnowsDeps DEF FollowsInv, Finds
<1> QED
  BY <1>9, <1>10, <1>11 DEF DepsInv

-----------------------------------------------------------------------------
(* What Validate reads, and what its yes is worth.                         *)

\* A Validate makes only the steps of Validate.
LEMMA ValidateValidates ==
  ASSUME CallsOK, NEW g \in Goroutine, call[g].kind = "validate", Proceeds(g), On(g)
  PROVE  Validating(g) /\ call[g].pc \in CheckPlaces
<1>1. call[g].pc \in {"validate", "valnames", "valdeps"}
  BY DEF CallsOK, Fits, On, CheckPlaces
<1>2. ~Adding(g)
  BY <1>1 DEF Adding, StoreTask, CheckParent, StoreName, LookUp, LoadDependencies,
     StoreDependencies, UndoTask, UndoName
<1>3. ~Updating(g)
  BY <1>1 DEF Updating, LoadOld, CheckName, Unname, Rename, Replace
<1>4. ~Deleting(g)
  BY <1>1 DEF Deleting, LoadTask, ScanDependents, DeleteFromTasks, DeleteFromIndex,
     DeleteFromDependencies, SweepDependents
<1> QED
  BY <1>1, <1>2, <1>3, <1>4 DEF Proceeds, CheckPlaces

\* What a call that is alone reads is the inverse of Tasks.
LEMMA AloneInverse ==
  ASSUME DefTypeOK, FlagsInv, IndexInv, ~hist.torn, NEW g \in Goroutine, On(g), call[g].alone,
         call[g].kind = "validate"
  PROVE  /\ \A h \in Goroutine \ {g} : ~On(h)
         /\ \A i \in DOMAIN Tasks : TaskNameOf[Tasks[i]] \in DOMAIN TaskNameIndex
         /\ \A n \in DOMAIN TaskNameIndex :
              TaskNameIndex[n] \in DOMAIN Tasks /\ TaskNameOf[Tasks[TaskNameIndex[n]]] = n
<1>1. \A h \in Goroutine \ {g} : ~On(h)
  BY DEF FlagsInv
<1>2. call[g].pc \in CheckPlaces
  BY DEF DefTypeOK, CallsOK, Fits, On
<1>3. ~Unnamed(g) /\ ~Unbacked(g)
  BY <1>2 DEF Unnamed, Unbacked, CheckPlaces
<1>4. Settled = DOMAIN Tasks /\ Kept = DOMAIN TaskNameIndex
  BY <1>1, <1>3, OnlyOthers
<1> QED
  BY <1>1, <1>4 DEF IndexInv, InverseInv

\* Any step of a call keeps what Validate read right.
LEMMA ProceedsKeepsRead ==
  ASSUME DefTypeOK, DefTypeOK', FlagsInv, IndexInv, ReadInv, NEW g \in Goroutine, Proceeds(g)
  PROVE  ReadInv'
<1>1. Moves(g)
  BY ProceedsMoves
<1> SUFFICES ASSUME NEW h \in Goroutine, ~hist.torn, On(h)', call'[h].alone,
                    call'[h].pc \in {"valnames", "valdeps"}
             PROVE  /\ call'[h].pc = "valnames" => call'[h].names = TaskNameIndex'
                    /\ call'[h].pc = "valdeps" => DOMAIN call'[h].names \subseteq DOMAIN TaskNameIndex'
  BY <1>1 DEF ReadInv, Moves
<1>2. h = g
  <2> SUFFICES ASSUME h # g PROVE FALSE
    OBVIOUS
  <2>1. call'[h] = call[h]
    BY <1>1, MovesCalls
  <2> QED
    BY <1>1, <2>1 DEF FlagsInv, Moves, On
<1>3. call'[g].kind = "validate"
  BY <1>2 DEF DefTypeOK, CallsOK, Fits, On, AddPlaces, SubPlaces, UpdatePlaces, DeletePlaces
<1>4. On(g) /\ ~Ends(g) /\ call[g].kind = "validate" /\ call[g].alone
  BY <1>1, <1>2, <1>3, MovesCalls DEF Moves
<1>5. Validating(g)
  BY <1>4, ValidateValidates DEF DefTypeOK
<1>6. CASE ReadNames(g)
  BY <1>2, <1>6, ReadNamesEffect DEF DefTypeOK, Goes
<1>7. CASE CheckNames(g)
  <2>1. /\ UNCHANGED TaskNameIndex /\ call[g].pc = "valnames"
        /\ Goes(g, "valdeps") /\ call'[g].names = Over(call[g].names, FirstOf)
    BY <1>4, <1>7, CheckNamesEffect DEF DefTypeOK
  <2>2. call[g].names = TaskNameIndex
    BY <1>4, <2>1 DEF ReadInv
  <2>3. TaskNameIndex \in NameMaps
    BY DEF DefTypeOK, MapsOK, NameMaps
  <2>4. DOMAIN call'[g].names = DOMAIN TaskNameIndex \cup {TaskNameOf[Tasks[i]] : i \in DOMAIN Tasks}
    BY <2>1, <2>2, <2>3, OverFacts DEF DefTypeOK
  <2>5. \A i \in DOMAIN Tasks : TaskNameOf[Tasks[i]] \in DOMAIN TaskNameIndex
    BY <1>4, AloneInverse
  <2>6. call'[g].pc = "valdeps"
    BY <2>1 DEF Goes
  <2> QED
    BY <1>2, <2>1, <2>4, <2>5, <2>6
<1>8. CASE CheckDependencies(g)
  BY <1>4, <1>8, CheckDependenciesEffect DEF DefTypeOK
<1> QED
  BY <1>5, <1>6, <1>7, <1>8 DEF Validating

\* The start of a call keeps what Validate read right.
LEMMA BeginKeepsRead ==
  ASSUME CallsOK, ReadInv, NEW g \in Goroutine, NEW kind, NEW object, NEW id, NEW parent,
         Arguments(kind, object, id, parent), Begin(g, kind, object, id, parent)
  PROVE  ReadInv'
<1>1. /\ \A h \in Goroutine \ {g} : Stays(h)
      /\ call'[g].pc \in {"add", "update", "addsub", "delete", "validate"}
  BY BeginEffect DEF Arguments
<1>2. \A h \in Goroutine \ {g} : On(h)' => ~call'[h].alone
  BY <1>1 DEF Stays, On
<1> QED
  BY <1>1, <1>2 DEF ReadInv

\* Any step of a call keeps what was validated right.
LEMMA ProceedsKeepsValid ==
  ASSUME DefTypeOK, FlagsInv, IndexInv, DepsInv, ReadInv, NEW g \in Goroutine, Proceeds(g)
  PROVE  ValidInv'
<1>1. Moves(g)
  BY ProceedsMoves
<1> SUFFICES ASSUME hist'.valid
             PROVE  ValidatedIsWhole' /\ \A h \in Goroutine : ~On(h)'
  BY DEF ValidInv
<1>2. CheckDependencies(g) /\ Ends(g) /\ call[g].alone /\ On(g)
  BY <1>1 DEF Moves, FlagsInv
<1>3. /\ UNCHANGED <<Tasks, TaskNameIndex, Dependencies>> /\ call[g].pc = "valdeps"
      /\ hist'.stale = hist.stale /\ hist'.overlap = hist.overlap /\ hist'.torn = hist.torn
      /\ NamesFit(Over(TaskNameIndex, call[g].names)) /\ call[g].kind = "validate"
  BY <1>2, CheckDependenciesEffect, PlaceFacts DEF DefTypeOK, CheckPlaces
<1>4. \A h \in Goroutine \ {g} : ~On(h)
  BY <1>2 DEF FlagsInv
<1>5. \A h \in Goroutine : ~On(h)'
  BY <1>1, <1>2, <1>4, MovesCalls DEF On
<1>6. ASSUME ~hist'.torn, NEW i \in DOMAIN Tasks, NEW n \in NamesOf[Tasks[i]]
      PROVE  \E j \in DOMAIN Tasks \ {i} :
               /\ TaskNameOf[Tasks[j]] = n
               /\ (i \in DOMAIN Dependencies /\ j \in Dependencies[i]) \/ hist.stale \/ hist.overlap
  <2>1. DOMAIN call[g].names \subseteq DOMAIN TaskNameIndex
    BY <1>2, <1>3, <1>6 DEF ReadInv
  <2>2. n \in DOMAIN TaskNameIndex /\ TaskNameIndex[n] # i
    BY <1>3, <2>1 DEF NamesFit, Over
  <2>3. TaskNameIndex[n] \in DOMAIN Tasks /\ TaskNameOf[Tasks[TaskNameIndex[n]]] = n
    BY <1>2, <1>3, <1>6, <2>2, AloneInverse
  <2>4. ~hist.stale /\ ~hist.overlap => i \in DOMAIN Dependencies /\ TaskNameIndex[n] \in Dependencies[i]
    <3> SUFFICES ASSUME ~hist.stale, ~hist.overlap
                 PROVE  i \in DOMAIN Dependencies /\ TaskNameIndex[n] \in Dependencies[i]
      OBVIOUS
    <3>1. \A h \in Goroutine : ~Storing(h)
      BY <1>3, <1>4, OffKnowsDeps DEF Storing, Fresh
    <3>2. Follows(i)
      BY <3>1 DEF DepsInv, FollowsInv
    <3> QED
      BY <3>2 DEF Follows
  <2> QED
    BY <2>2, <2>3, <2>4
<1>7. ValidatedIsWhole'
  BY <1>3, <1>6 DEF ValidatedIsWhole
<1> QED
  BY <1>5, <1>7

-----------------------------------------------------------------------------
(* The theorems.                                                           *)

\* It holds at the start...
LEMMA InitIInv == ASSUME DefInit PROVE DefIInv
<1>1. \A g \in Goroutine : ~On(g)
  BY IdleFacts DEF DefInit, On
<1>2. ReadInv /\ ValidInv
  BY <1>1 DEF ReadInv, ValidInv, DefInit
<1> QED
  BY <1>2, InitTypes, InitIndex, InitDeps DEF DefIInv

\* ...after every step of a call...
LEMMA ProceedsKeepsIInv ==
  ASSUME DefIInv, NEW g \in Goroutine, Proceeds(g)
  PROVE  DefIInv'
<1> USE DEF DefIInv
<1>1. DefTypeOK'
  BY AddingKeepsTypes, UpdatingKeepsTypes, DeletingKeepsTypes, ValidatingKeepsTypes DEF Proceeds
<1>2. FlagsInv'
  BY ProceedsMoves, MovesKeepFlags
<1> QED
  BY <1>1, <1>2, ProceedsKeepsIndex, ProceedsKeepsDeps, ProceedsKeepsRead, ProceedsKeepsValid

\* ...when a call begins...
LEMMA BeginKeepsIInv ==
  ASSUME DefIInv, NEW g \in Goroutine, NEW kind, NEW object, NEW id, NEW parent,
         Arguments(kind, object, id, parent), Begin(g, kind, object, id, parent)
  PROVE  DefIInv'
<1>0. CallsOK
  BY DEF DefIInv, DefTypeOK
<1>1. DefTypeOK' /\ FlagsInv'
  BY <1>0, BeginKeepsTypes, BeginKeepsFlags DEF DefIInv
<1>2. IndexInv'
  <2>1. hist'.torn = (hist.torn \/ \E h \in Goroutine \ {g} :
          On(h) /\ (Changes(kind) \/ Changes(call[h].kind)))
    BY <1>0, BeginEffect
  <2> SUFFICES ASSUME ~hist'.torn PROVE Index'
    BY DEF IndexInv, Index
  <2>2. Index
    BY <2>1 DEF DefIInv, IndexInv, Index
  <2> QED
    BY <1>0, <2>2, BeginKeepsIndex
<1>3. DepsInv' /\ ReadInv'
  BY <1>0, BeginKeepsDeps, BeginKeepsRead DEF DefIInv
<1>4. ~hist'.valid
  BY <1>0, BeginEffect
<1> QED
  BY <1>1, <1>2, <1>3, <1>4 DEF DefIInv, ValidInv

\* ...and when nothing happens.
LEMMA StutterKeepsIInv ==
  ASSUME DefIInv, UNCHANGED defVars
  PROVE  DefIInv'
<1> USE DEF defVars
<1>1. DefTypeOK' /\ FlagsInv'
  BY DEF DefIInv, DefTypeOK, MapsOK, CallsOK, FlagsInv, On
<1>2. IndexInv'
  <2>1. \A h \in Goroutine : Alike(h)
    BY SameIsAlike
  <2>2. Index => \A h \in Goroutine : Knows(h)'
    BY ChangersKnow DEF Index, Knows
  <2>3. Index => Index'
    BY <2>1, <2>2, NeutralKeepsIndex
  <2> QED
    BY <2>3 DEF DefIInv, IndexInv, Index
<1>3. DepsInv'
  BY DEF DefIInv, DepsInv, WholeInv, KnownInv, FollowsInv, Acyclic, Follows, Storing, Fresh, Going
<1>4. ReadInv'
  BY DEF DefIInv, ReadInv, On
<1>5. ValidInv'
  BY DEF DefIInv, ValidInv, ValidatedIsWhole, On
<1> QED
  BY <1>1, <1>2, <1>3, <1>4, <1>5 DEF DefIInv

\* All of the above holds of every workflow its calls can build: what the
\* methods of workflow.go assume of one another, map by map.
THEOREM DefInvariant == DefSpec => []DefIInv
<1>1. DefInit => DefIInv
  BY InitIInv
<1>2. DefIInv /\ [DefNext]_defVars => DefIInv'
  BY StepCases, ProceedsKeepsIInv, BeginKeepsIInv, StutterKeepsIInv
<1> QED
  BY <1>1, <1>2, PTL DEF DefSpec

\* When all calls have returned, the name index is the inverse of Tasks,
\* whichever of AddTask, AddSubTask and Validate ran together and whatever they
\* took back, for any number of goroutines and calls.
THEOREM IndexIsInverseCorrect == DefSpec => []IndexIsInverse
<1>1. DefIInv => IndexIsInverse
  BY IndexFollows DEF DefIInv, DefTypeOK
<1> QED
  BY <1>1, DefInvariant, PTL

\* As long as calls come one at a time, AddTask, AddSubTask, UpdateTask and
\* DeleteTask leave no dependency on a task that is not there and, when no
\* UpdateTask came, no circle: then BuildDAG finds none.
THEOREM DependenciesAreWholeCorrect == DefSpec => []DependenciesAreWhole
<1>1. DefIInv => DependenciesAreWhole
  <2> SUFFICES ASSUME DefIInv, Quiet, ~hist.overlap
               PROVE  /\ DOMAIN Dependencies \subseteq DOMAIN Tasks
                      /\ \A i \in DOMAIN Dependencies : Dependencies[i] \subseteq DOMAIN Tasks
                      /\ ~hist.circular => ~Cyclic(DOMAIN Tasks, [i \in DOMAIN Tasks |->
                           IF i \in DOMAIN Dependencies THEN Dependencies[i] ELSE {}])
    BY DEF DependenciesAreWhole
  <2>1. WholeInv
    BY DEF DefIInv, DepsInv
  <2>2. /\ DOMAIN Dependencies \subseteq DOMAIN Tasks
        /\ \A i \in DOMAIN Dependencies : Dependencies[i] \subseteq DOMAIN Tasks
    BY <2>1 DEF WholeInv, Quiet
  <2> DEFINE E == [i \in DOMAIN Tasks |-> IF i \in DOMAIN Dependencies THEN Dependencies[i] ELSE {}]
  <2>3. ASSUME ~hist.circular, NEW S \in (SUBSET DOMAIN Tasks) \ {{}}
        PROVE  \E t \in S : E[t] \cap S = {}
    <3>1. CASE S \subseteq DOMAIN Dependencies
      <4>1. PICK t \in S : Dependencies[t] \cap S = {}
        BY <2>1, <2>3, <3>1 DEF WholeInv, Acyclic
      <4> QED
        BY <3>1, <4>1
    <3>2. CASE ~(S \subseteq DOMAIN Dependencies)
      <4>1. PICK t \in S : t \notin DOMAIN Dependencies
        BY <3>2
      <4>2. E[t] = {}
        BY <4>1
      <4> QED
        BY <4>2
    <3> QED
      BY <3>1, <3>2
  <2>4. ~hist.circular => ~Cyclic(DOMAIN Tasks, E)
    <3> HIDE DEF E
    <3> QED
      BY <2>3 DEF Cyclic
  <2> QED
    BY <2>2, <2>4
<1> QED
  BY <1>1, DefInvariant, PTL

\* What Validate accepts when it runs alone: every name a task depends on is
\* that of another task, however the workflow was built, unless an UpdateTask or
\* DeleteTask ran together with another call; and that task is among its
\* dependencies, but for the cases hist.stale and hist.overlap stand for.
THEOREM ValidatedIsWholeCorrect == DefSpec => []ValidatedIsWhole
<1>1. DefIInv => ValidatedIsWhole
  BY DEF DefIInv, ValidInv, ValidatedIsWhole
<1> QED
  BY <1>1, DefInvariant, PTL

-----------------------------------------------------------------------------
(* BuildDAG and TopologicalSort.                                           *)

\* Where a step stores or deletes a task.
LEMMA TasksSteps ==
  ASSUME [DefNext]_defVars
  PROVE  \/ UNCHANGED Tasks
         \/ \E key, object : Tasks' = Put(Tasks, key, object)
         \/ \E key : Tasks' = Without(Tasks, key)
<1>1. ASSUME NEW g \in Goroutine, Calls(g) PROVE UNCHANGED Tasks
  BY <1>1 DEF Calls, Begin
<1>2. ASSUME NEW g \in Goroutine, Adding(g)
      PROVE  \/ UNCHANGED Tasks
             \/ \E key, object : Tasks' = Put(Tasks, key, object)
             \/ \E key : Tasks' = Without(Tasks, key)
  <2>1. StoreTask(g) => UNCHANGED Tasks \/ \E key, object : Tasks' = Put(Tasks, key, object)
    BY DEF StoreTask
  <2>2. UndoTask(g) => \E key : Tasks' = Without(Tasks, key)
    BY DEF UndoTask
  <2>3. CheckParent(g) \/ StoreName(g) \/ LookUp(g) \/ LoadDependencies(g)
          \/ StoreDependencies(g) \/ UndoName(g) => UNCHANGED Tasks
    BY DEF CheckParent, StoreName, LookUp, LoadDependencies, StoreDependencies, UndoName
  <2> QED
    BY <1>2, <2>1, <2>2, <2>3 DEF Adding
<1>3. ASSUME NEW g \in Goroutine, Updating(g)
      PROVE  UNCHANGED Tasks \/ \E key, object : Tasks' = Put(Tasks, key, object)
  <2>1. Replace(g) => \E key, object : Tasks' = Put(Tasks, key, object)
    BY DEF Replace
  <2>2. LoadOld(g) \/ CheckName(g) \/ Unname(g) \/ Rename(g) => UNCHANGED Tasks
    BY DEF LoadOld, CheckName, Unname, Rename
  <2> QED
    BY <1>3, <2>1, <2>2 DEF Updating
<1>4. ASSUME NEW g \in Goroutine, Deleting(g)
      PROVE  UNCHANGED Tasks \/ \E key : Tasks' = Without(Tasks, key)
  <2>1. DeleteFromTasks(g) => \E key : Tasks' = Without(Tasks, key)
    BY DEF DeleteFromTasks
  <2>2. LoadTask(g) \/ ScanDependents(g) \/ DeleteFromIndex(g) \/ DeleteFromDependencies(g)
          \/ SweepDependents(g) => UNCHANGED Tasks
    BY DEF LoadTask, ScanDependents, DeleteFromIndex, DeleteFromDependencies, SweepDependents
  <2> QED
    BY <1>4, <2>1, <2>2 DEF Deleting
<1>5. ASSUME NEW g \in Goroutine, Validating(g) PROVE UNCHANGED Tasks
  BY <1>5 DEF Validating, ReadNames, CheckNames, CheckDependencies
<1>6. UNCHANGED defVars => UNCHANGED Tasks
  BY DEF defVars
<1> QED
  BY <1>1, <1>2, <1>3, <1>4, <1>5, <1>6 DEF DefNext

\* A workflow holds finitely many tasks.
FiniteInv == IsFiniteSet(DOMAIN Tasks)

\* At first...
LEMMA FiniteInit == DefInit => FiniteInv
<1> SUFFICES ASSUME DefInit PROVE IsFiniteSet(DOMAIN Tasks)
  BY DEF FiniteInv
<1>1. PICK S \in Starts : Tasks = [i \in {IdOf[o] : o \in S} |-> CHOOSE o \in S : IdOf[o] = i]
  BY DEF DefInit
<1>2. IsFiniteSet(S)
  BY DefinitionAssumption
<1>3. IsFiniteSet({IdOf[o] : o \in S})
  <2> DEFINE f == [o \in S |-> IdOf[o]]
             R == {IdOf[o] : o \in S}
  <2>1. f \in Surjection(S, R)
    BY DEF Surjection
  <2> HIDE DEF f, R
  <2>2. IsFiniteSet(R)
    BY <1>2, <2>1, FS_Surjection
  <2> QED
    BY <2>2 DEF R
<1> QED
  BY <1>1, <1>3

\* ...and after any step.
LEMMA FiniteNext == FiniteInv /\ [DefNext]_defVars => FiniteInv'
<1> SUFFICES ASSUME IsFiniteSet(DOMAIN Tasks), [DefNext]_defVars PROVE IsFiniteSet(DOMAIN Tasks')
  BY DEF FiniteInv
<1>1. ASSUME NEW key, NEW object, Tasks' = Put(Tasks, key, object) PROVE IsFiniteSet(DOMAIN Tasks')
  <2>1. DOMAIN Tasks' = DOMAIN Tasks \cup {key}
    BY <1>1 DEF Put
  <2> QED
    BY <2>1, FS_AddElement
<1>2. ASSUME NEW key, Tasks' = Without(Tasks, key) PROVE IsFiniteSet(DOMAIN Tasks')
  <2>1. DOMAIN Tasks' = DOMAIN Tasks \ {key}
    BY <1>2 DEF Without
  <2> QED
    BY <2>1, FS_RemoveElement
<1> QED
  BY <1>1, <1>2, TasksSteps

\* BuildDAG rejects a workflow exactly if its tasks wait for one another in a
\* circle, and the levels of an accepted one hold every task, each on the
\* level of the longest chain it waits for, whatever calls built it.
THEOREM DagAgreesCorrect == DefSpec => []DagAgrees
<1>1. FiniteInv => DagAgrees
  <2> DEFINE N == DOMAIN Tasks
             D == [i \in N |-> IF i \in DOMAIN Dependencies THEN Dependencies[i] \cap N ELSE {}]
             levels == TopologicalSort(N, D)
  <2> SUFFICES ASSUME FiniteInv
               PROVE  /\ detectCycleDFS(N, D) = Cyclic(N, D)
                      /\ ~Cyclic(N, D) =>
                           /\ UNION {levels[l] : l \in DOMAIN levels} = N
                           /\ \A l \in DOMAIN levels : \A t \in levels[l] : LongestChain(N, D, t) = l - 1
    BY DEF DagAgrees
  <2>1. IsFiniteSet(N) /\ \A t \in N : D[t] \subseteq N
    BY DEF FiniteInv
  <2> HIDE DEF N, D
  <2>2. detectCycleDFS(N, D) = Cyclic(N, D)
    BY <2>1, CycleSearchIsRight
  <2>3. ASSUME ~Cyclic(N, D)
        PROVE  /\ UNION {levels[l] : l \in DOMAIN levels} = N
               /\ \A l \in DOMAIN levels : \A t \in levels[l] : LongestChain(N, D, t) = l - 1
    <3>1. /\ DOMAIN levels = 1 .. Len(levels)
          /\ \A l \in 1 .. Len(levels) : levels[l] \subseteq N
          /\ \A t \in N : \E l \in 1 .. Len(levels) : t \in levels[l]
      BY <2>1, <2>3, LevelsOfDag
    <3>2. \A l \in DOMAIN levels : \A t \in levels[l] : LongestChain(N, D, t) = l - 1
      BY <2>1, <2>3, LevelsAreChains
    <3> HIDE DEF levels
    <3> QED
      BY <3>1, <3>2
  <2> QED
    BY <2>2, <2>3
<1> QED
  BY <1>1, FiniteInit, FiniteNext, PTL DEF DefSpec

=============================================================================
