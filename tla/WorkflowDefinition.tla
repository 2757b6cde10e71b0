--------------------------- MODULE WorkflowDefinition ---------------------------
(***************************************************************************)
(* A Workflow under construction (workflow.go): three sync.Maps, each safe *)
(* for itself, and calls that read and write them one after the other with *)
(* no lock around.  A step is one operation of a map.                      *)
(***************************************************************************)
EXTENDS Dag

CONSTANTS
  Goroutine,
  Object,      \* task objects
  IdOf, TaskNameOf,  \* [Object -> its id, its name]
  NamesOf,     \* [Object -> the names of the tasks it depends on]
  Starts,      \* sets of objects that a workflow was built of one after the other
  None,
  MaxCalls     \* bound: calls ever

Id == {IdOf[o] : o \in Object}
Names(S) == {TaskNameOf[o] : o \in S}

\* What AddTask, called for one object of S after the other, lets through.
Built(S) ==
  /\ S \subseteq Object
  /\ \A o, p \in S : IdOf[o] = IdOf[p] \/ TaskNameOf[o] = TaskNameOf[p] => o = p
  /\ \A o \in S : NamesOf[o] \subseteq Names(S)
  /\ \A T \in (SUBSET S) \ {{}} : \E o \in T : NamesOf[o] \cap Names(T) = {}

ASSUME DefinitionAssumption ==
  /\ \A o \in Object : NamesOf[o] \subseteq Names(Object)
  /\ \A S \in Starts : Built(S) /\ IsFiniteSet(S)
  /\ MaxCalls \in Nat

VARIABLES
  Tasks,          \* [ids -> objects]
  TaskNameIndex,  \* [names -> ids]
  Dependencies,   \* [ids -> sets of ids]
  call,           \* [Goroutine -> its call]
  hist            \* bounds and history, read by no code

defVars == <<Tasks, TaskNameIndex, Dependencies, call, hist>>

\* Store, Delete, and one map over another.
Put(map, key, value) ==
  [k \in DOMAIN map \cup {key} |-> IF k = key THEN value ELSE map[k]]
Without(map, key) == [k \in DOMAIN map \ {key} |-> map[k]]
Over(map, other) ==
  [k \in DOMAIN map \cup DOMAIN other |-> IF k \in DOMAIN map THEN map[k] ELSE other[k]]

Idle == [pc |-> "idle"]
Quiet == \A g \in Goroutine : call[g].pc = "idle"

DefInit ==
  /\ \E S \in Starts :
       LET idOfName(n) == IdOf[CHOOSE o \in S : TaskNameOf[o] = n] IN
       /\ Tasks = [i \in {IdOf[o] : o \in S} |-> CHOOSE o \in S : IdOf[o] = i]
       /\ TaskNameIndex = [n \in Names(S) |-> idOfName(n)]
       /\ Dependencies =
            [i \in {IdOf[o] : o \in {p \in S : NamesOf[p] # {}}} |->
               {idOfName(n) : n \in NamesOf[CHOOSE o \in S : IdOf[o] = i]}]
  /\ call = [g \in Goroutine |-> Idle]
  /\ hist = [calls |-> 0,
             overlap |-> FALSE,  \* two calls were on at a time
             torn |-> FALSE,     \* ... one of them UpdateTask or DeleteTask
             stale |-> FALSE,    \* a call left names that the dependencies do not follow
             circular |-> FALSE, \* an UpdateTask, or an AddSubTask of a task to itself, came
             valid |-> FALSE]    \* the last call was a Validate alone, that found no fault

Changes(kind) == kind \in {"update", "delete"}

\* A call begins; object, id and parent are its arguments.
Begin(g, kind, object, id, parent) ==
  LET others == {h \in Goroutine \ {g} : call[h].pc # "idle"} IN
  /\ call[g].pc = "idle"
  /\ hist.calls < MaxCalls
  /\ call' = [h \in Goroutine |->
       IF h = g
       THEN [pc |-> kind, kind |-> kind, object |-> object, id |-> id, parent |-> parent,
             todo |-> {}, ids |-> {}, old |-> None, names |-> [n \in {} |-> None], alone |-> others = {}]
       ELSE IF h \in others THEN [call[h] EXCEPT !.alone = FALSE] ELSE call[h]]
  /\ hist' = [hist EXCEPT
       !.calls = @ + 1,
       !.overlap = @ \/ others # {},
       !.torn = @ \/ \E h \in others : Changes(kind) \/ Changes(call[h].kind),
       !.circular = @ \/ kind = "update" \/ (kind = "addsub" /\ parent = id),
       !.valid = FALSE]
  /\ UNCHANGED <<Tasks, TaskNameIndex, Dependencies>>

Goto(g, pc) == call' = [call EXCEPT ![g].pc = pc]
Return(g) == call' = [call EXCEPT ![g] = Idle]

-----------------------------------------------------------------------------
(* AddTask and AddSubTask.                                                 *)

StoreTask(g) ==
  /\ call[g].pc \in {"add", "addsub"}
  /\ IF call[g].id \in DOMAIN Tasks
     THEN Return(g) /\ UNCHANGED Tasks
     ELSE /\ Tasks' = Put(Tasks, call[g].id, call[g].object)
          /\ Goto(g, IF call[g].kind = "add" THEN "index" ELSE "parent")
  /\ UNCHANGED <<TaskNameIndex, Dependencies, hist>>

CheckParent(g) ==
  /\ call[g].pc = "parent"
  /\ Goto(g, IF call[g].parent \in DOMAIN Tasks THEN "index" ELSE "undo")
  /\ UNCHANGED <<Tasks, TaskNameIndex, Dependencies, hist>>

\* Mutant: the name goes to whoever comes last.
StoreNameBlindly(g) ==
  LET name == TaskNameOf[call[g].object] IN
  /\ call[g].pc = "index"
  /\ TaskNameIndex' = Put(TaskNameIndex, name, call[g].id)
  /\ call' = [call EXCEPT ![g].pc = IF call[g].kind = "add" THEN "lookup" ELSE "store",
                          ![g].todo = NamesOf[call[g].object], ![g].ids = {}]
  /\ UNCHANGED <<Tasks, Dependencies, hist>>

StoreName(g) ==
  LET name == TaskNameOf[call[g].object] IN
  /\ call[g].pc = "index"
  /\ IF name \in DOMAIN TaskNameIndex
     THEN Goto(g, "undo") /\ UNCHANGED TaskNameIndex
     ELSE /\ TaskNameIndex' = Put(TaskNameIndex, name, call[g].id)
          /\ call' = [call EXCEPT
               ![g].pc = IF call[g].kind = "add" THEN "lookup" ELSE "store",
               ![g].todo = NamesOf[call[g].object], ![g].ids = {}]
  /\ UNCHANGED <<Tasks, Dependencies, hist>>

\* Mutant: a dependency that is not there is left out.
LookUpLeavesOut(g) ==
  /\ call[g].pc = "lookup" /\ call[g].todo # {}
  /\ \E n \in call[g].todo :
       call' = [call EXCEPT
         ![g].todo = @ \ {n},
         ![g].ids = @ \cup (IF n \in DOMAIN TaskNameIndex THEN {TaskNameIndex[n]} ELSE {})]
  /\ UNCHANGED <<Tasks, TaskNameIndex, Dependencies, hist>>

\* AddTask takes back what it has stored when a dependency is not there or is
\* the task itself; UpdateTask just returns.
LookUp(g) ==
  /\ call[g].pc = "lookup" /\ call[g].todo # {}
  /\ \E n \in call[g].todo :
       LET found == n \in DOMAIN TaskNameIndex /\ TaskNameIndex[n] # call[g].id IN
       \/ /\ found
          /\ call' = [call EXCEPT ![g].todo = @ \ {n}, ![g].ids = @ \cup {TaskNameIndex[n]}]
          /\ UNCHANGED hist
       \/ /\ ~found /\ call[g].kind = "add"
          /\ Goto(g, "undoboth")
          /\ UNCHANGED hist
       \/ /\ ~found /\ call[g].kind = "update"
          /\ Return(g)
          /\ hist' = [hist EXCEPT !.stale = TRUE]
  /\ UNCHANGED <<Tasks, TaskNameIndex, Dependencies>>

\* With nothing to depend on AddTask stores nothing, and UpdateTask deletes.
StoreDependencies(g) ==
  /\ call[g].pc = "append" \/ (call[g].pc = "lookup" /\ call[g].todo = {})
  /\ Dependencies' =
       IF call[g].ids # {} THEN Put(Dependencies, call[g].id, call[g].ids)
       ELSE IF call[g].kind = "update" THEN Without(Dependencies, call[g].id)
       ELSE Dependencies
  /\ Return(g)
  /\ UNCHANGED <<Tasks, TaskNameIndex, hist>>

\* AddSubTask adds the parent to the list that is there, an empty one at first;
\* the names the subtask itself depends on it does not look at.
LoadDependencies(g) ==
  LET there == IF call[g].id \in DOMAIN Dependencies THEN Dependencies[call[g].id] ELSE {} IN
  /\ call[g].pc = "store"
  /\ Dependencies' = Put(Dependencies, call[g].id, there)
  /\ IF call[g].parent \in there
     THEN Return(g)
     ELSE call' = [call EXCEPT ![g].pc = "append", ![g].ids = there \cup {call[g].parent}]
  /\ hist' = [hist EXCEPT !.stale = @ \/ NamesOf[call[g].object] # {}]
  /\ UNCHANGED <<Tasks, TaskNameIndex>>

UndoTask(g) ==
  /\ call[g].pc \in {"undo", "undoboth"}
  /\ Tasks' = Without(Tasks, call[g].id)
  /\ IF call[g].pc = "undo" THEN Return(g) ELSE Goto(g, "undoname")
  /\ UNCHANGED <<TaskNameIndex, Dependencies, hist>>

UndoName(g) ==
  /\ call[g].pc = "undoname"
  /\ TaskNameIndex' = Without(TaskNameIndex, TaskNameOf[call[g].object])
  /\ Return(g)
  /\ UNCHANGED <<Tasks, Dependencies, hist>>

-----------------------------------------------------------------------------
(* UpdateTask.                                                             *)

LoadOld(g) ==
  /\ call[g].pc = "update"
  /\ IF call[g].id \notin DOMAIN Tasks THEN Return(g)
     ELSE LET old == Tasks[call[g].id] IN
          call' = [call EXCEPT
            ![g].pc = IF TaskNameOf[old] = TaskNameOf[call[g].object]
                      THEN "replace" ELSE "checkname",
            ![g].old = old]
  /\ UNCHANGED <<Tasks, TaskNameIndex, Dependencies, hist>>

CheckName(g) ==
  LET name == TaskNameOf[call[g].object] IN
  /\ call[g].pc = "checkname"
  /\ IF name \in DOMAIN TaskNameIndex /\ TaskNameIndex[name] # call[g].id
     THEN Return(g) ELSE Goto(g, "unname")
  /\ UNCHANGED <<Tasks, TaskNameIndex, Dependencies, hist>>

\* Who depends on the task still does, and names a task that is not there.
Unname(g) ==
  /\ call[g].pc = "unname"
  /\ TaskNameIndex' = Without(TaskNameIndex, TaskNameOf[call[g].old])
  /\ Goto(g, "rename")
  /\ hist' = [hist EXCEPT !.stale =
       @ \/ \E t \in DOMAIN Dependencies : call[g].id \in Dependencies[t]]
  /\ UNCHANGED <<Tasks, Dependencies>>

Rename(g) ==
  /\ call[g].pc = "rename"
  /\ TaskNameIndex' = Put(TaskNameIndex, TaskNameOf[call[g].object], call[g].id)
  /\ Goto(g, "replace")
  /\ UNCHANGED <<Tasks, Dependencies, hist>>

Replace(g) ==
  /\ call[g].pc = "replace"
  /\ Tasks' = Put(Tasks, call[g].id, call[g].object)
  /\ call' = [call EXCEPT ![g].pc = "lookup",
                          ![g].todo = NamesOf[call[g].object], ![g].ids = {}]
  /\ UNCHANGED <<TaskNameIndex, Dependencies, hist>>

-----------------------------------------------------------------------------
(* DeleteTask.  A Range over the dependencies is one step.                 *)

LoadTask(g) ==
  /\ call[g].pc = "delete"
  /\ IF call[g].id \notin DOMAIN Tasks THEN Return(g)
     ELSE call' = [call EXCEPT ![g].pc = "scan", ![g].old = Tasks[call[g].id]]
  /\ UNCHANGED <<Tasks, TaskNameIndex, Dependencies, hist>>

ScanDependents(g) ==
  /\ call[g].pc = "scan"
  /\ IF \E t \in DOMAIN Dependencies : call[g].id \in Dependencies[t]
     THEN Return(g) ELSE Goto(g, "deltask")
  /\ UNCHANGED <<Tasks, TaskNameIndex, Dependencies, hist>>

DeleteFromTasks(g) ==
  /\ call[g].pc = "deltask"
  /\ Tasks' = Without(Tasks, call[g].id)
  /\ Goto(g, "delname")
  /\ UNCHANGED <<TaskNameIndex, Dependencies, hist>>

DeleteFromIndex(g) ==
  /\ call[g].pc = "delname"
  /\ TaskNameIndex' = Without(TaskNameIndex, TaskNameOf[call[g].old])
  /\ Goto(g, "deldeps")
  /\ UNCHANGED <<Tasks, Dependencies, hist>>

\* Mutant: what the task depends on stays.
DeleteKeepsDependencies(g) ==
  /\ call[g].pc = "deldeps"
  /\ Goto(g, "sweep")
  /\ UNCHANGED <<Tasks, TaskNameIndex, Dependencies, hist>>

DeleteFromDependencies(g) ==
  /\ call[g].pc = "deldeps"
  /\ Dependencies' = Without(Dependencies, call[g].id)
  /\ Goto(g, "sweep")
  /\ UNCHANGED <<Tasks, TaskNameIndex, hist>>

\* Who has come to depend on the task since the scan no longer does.
SweepDependents(g) ==
  /\ call[g].pc = "sweep"
  /\ LET left(t) == Dependencies[t] \ {call[g].id} IN
     Dependencies' =
       [t \in {u \in DOMAIN Dependencies : left(u) # {} \/ Dependencies[u] = {}} |-> left(t)]
  /\ Return(g)
  /\ UNCHANGED <<Tasks, TaskNameIndex, hist>>

-----------------------------------------------------------------------------
(* Validate.                                                               *)

ReadNames(g) ==
  /\ call[g].pc = "validate"
  /\ call' = [call EXCEPT ![g].pc = "valnames", ![g].names = TaskNameIndex]
  /\ UNCHANGED <<Tasks, TaskNameIndex, Dependencies, hist>>

\* A name that the index has for another task is a fault, and so are two tasks
\* of a name that the index does not have.
CheckNames(g) ==
  /\ call[g].pc = "valnames"
  /\ LET names == call[g].names
         name(i) == TaskNameOf[Tasks[i]]
         fault == \E i \in DOMAIN Tasks :
                    \/ name(i) \in DOMAIN names /\ names[name(i)] # i
                    \/ name(i) \notin DOMAIN names
                       /\ \E j \in DOMAIN Tasks \ {i} : name(j) = name(i)
     IN IF DOMAIN Tasks = {} \/ fault
        THEN Return(g)
        ELSE call' = [call EXCEPT ![g].pc = "valdeps",
               ![g].names = Over(@, [n \in {name(i) : i \in DOMAIN Tasks} |->
                                       CHOOSE i \in DOMAIN Tasks : name(i) = n])]
  /\ UNCHANGED <<Tasks, TaskNameIndex, Dependencies, hist>>

\* The names a task depends on are of other tasks, in the index or in the map
\* of names; no cycle is looked for.
CheckDependencies(g) ==
  /\ call[g].pc = "valdeps"
  /\ LET byName == Over(TaskNameIndex, call[g].names)
         fault == \E i \in DOMAIN Tasks : \E n \in NamesOf[Tasks[i]] :
                    n \notin DOMAIN byName \/ byName[n] = i
     IN hist' = [hist EXCEPT !.valid = ~fault /\ call[g].alone]
  /\ Return(g)
  /\ UNCHANGED <<Tasks, TaskNameIndex, Dependencies>>

-----------------------------------------------------------------------------
Calls(g) ==
  \/ \E o \in Object : Begin(g, "add", o, IdOf[o], None)
  \/ \E o \in Object : Begin(g, "update", o, IdOf[o], None)
  \/ \E i \in Id : Begin(g, "delete", None, i, None)
  \/ \E o \in Object, p \in Id : Begin(g, "addsub", o, IdOf[o], p)
  \/ Begin(g, "validate", None, None, None)

Adding(g) ==
  \/ StoreTask(g) \/ CheckParent(g) \/ StoreName(g) \/ LookUp(g)
  \/ LoadDependencies(g) \/ StoreDependencies(g) \/ UndoTask(g) \/ UndoName(g)

Updating(g) ==
  LoadOld(g) \/ CheckName(g) \/ Unname(g) \/ Rename(g) \/ Replace(g)

Deleting(g) ==
  \/ LoadTask(g) \/ ScanDependents(g) \/ DeleteFromTasks(g) \/ DeleteFromIndex(g)
  \/ DeleteFromDependencies(g) \/ SweepDependents(g)

Validating(g) == ReadNames(g) \/ CheckNames(g) \/ CheckDependencies(g)

DefNext ==
  \E g \in Goroutine :
    Calls(g) \/ Adding(g) \/ Updating(g) \/ Deleting(g) \/ Validating(g)

DefSpec == DefInit /\ [][DefNext]_defVars

-----------------------------------------------------------------------------
(* Properties.                                                             *)

\* When all calls have returned the index is the inverse of Tasks, whichever of
\* AddTask, AddSubTask and Validate ran together and whatever they took back;
\* an UpdateTask or DeleteTask together with another call may break it.
IndexIsInverse ==
  Quiet /\ ~hist.torn =>
    TaskNameIndex = [n \in {TaskNameOf[Tasks[i]] : i \in DOMAIN Tasks} |->
                       CHOOSE i \in DOMAIN Tasks : TaskNameOf[Tasks[i]] = n]
    /\ \A i, j \in DOMAIN Tasks : TaskNameOf[Tasks[i]] = TaskNameOf[Tasks[j]] => i = j

\* As long as calls come one at a time, a dependency is always on a task that
\* is there and, if no UpdateTask came, never in a circle.  (Two AddTasks
\* together may each find the other's name: nothing looks for a circle.)
DependenciesAreWhole ==
  Quiet /\ ~hist.overlap =>
    /\ DOMAIN Dependencies \subseteq DOMAIN Tasks
    /\ \A i \in DOMAIN Dependencies : Dependencies[i] \subseteq DOMAIN Tasks
    /\ ~hist.circular => ~Cyclic(DOMAIN Tasks, [i \in DOMAIN Tasks |->
                            IF i \in DOMAIN Dependencies THEN Dependencies[i] ELSE {}])

\* What Validate has accepted, the instance managers wait for: every name a
\* task depends on is that of another task, unless UpdateTask or DeleteTask ran
\* together with another call, and that task is among its dependencies, unless
\* any calls ran together, an UpdateTask failed half way or renamed a task that
\* others depend on, or a subtask had names of its own: Validate does not look
\* at the dependencies.
ValidatedIsWhole ==
  hist.valid /\ ~hist.torn => \A i \in DOMAIN Tasks : \A n \in NamesOf[Tasks[i]] :
    \E j \in DOMAIN Tasks \ {i} :
      /\ TaskNameOf[Tasks[j]] = n
      /\ \/ i \in DOMAIN Dependencies /\ j \in Dependencies[i]
         \/ hist.stale \/ hist.overlap

\* On every graph the calls can build, circles included, BuildDAG's search
\* finds a circle exactly if there is one, and without one the levels of
\* TopologicalSort are those of the longest chains.
DagAgrees ==
  Quiet =>
    LET N == DOMAIN Tasks
        D == [i \in N |-> IF i \in DOMAIN Dependencies THEN Dependencies[i] \cap N ELSE {}]
        levels == TopologicalSort(N, D)
    IN  /\ detectCycleDFS(N, D) = Cyclic(N, D)
        /\ ~Cyclic(N, D) =>
             /\ UNION {levels[l] : l \in DOMAIN levels} = N
             /\ \A l \in DOMAIN levels : \A t \in levels[l] : LongestChain(N, D, t) = l - 1

=============================================================================
