--------------------------- MODULE WorkflowStorage ---------------------------
(***************************************************************************)
(* The database and the transactions of its repositories: SQLite's and     *)
(* MySQL's (and PostgreSQL's) aggregate repository, and the separate       *)
(* repositories an engine may be built with instead.  A transaction is one *)
(* operator from database to database; columns nobody decides by are left  *)
(* out.                                                                    *)
(***************************************************************************)
EXTENDS FiniteSets

CONSTANTS
  NameOf,   \* [workflow ids -> the name of the workflow object with the id]
  DepsOf    \* [task ids -> the tasks a task depends on]

\* "sqlite" and "mysql" are aggregate repositories, "repos" the separate ones.
Stores == {"sqlite", "mysql", "repos"}

\* SQLite's foreign keys are off unless a connection turns them on.
ForeignKeys(store) == store = "mysql"

\* The rows of each table, by primary key.
EmptyDatabase ==
  [definition     |-> <<>>,   \* [ids -> [cron]]
   taskDefinition |-> <<>>,   \* [task ids -> workflow_id]
   instance       |-> <<>>,   \* [instance ids -> [workflow, status]]
   taskInstance   |-> <<>>]   \* [task ids -> workflow_instance_id]

Without(table, keys) == [k \in DOMAIN table \ keys |-> table[k]]
Put(table, keys, row) ==
  [k \in keys \cup DOMAIN table |-> IF k \in keys THEN row ELSE table[k]]

\* The row a workflow is saved in: that of its name, if there is one.
RowOf(db, w) ==
  LET same == {v \in DOMAIN db.definition : NameOf[v] = NameOf[w]} IN
  IF same = {} THEN w ELSE CHOOSE v \in same : TRUE

\* A task that is stored under another workflow goes over to this one.
TaskDefinitionsSaved(table, tasks, w) == Put(table, tasks, w)

\* Mutant: the old tasks are deleted after the new ones are saved.
SaveWorkflowDeletesLast(store, db, w, tasks, cron) ==
  [db EXCEPT
     !.definition = Put(@, {RowOf(db, w)}, [cron |-> cron]),
     !.taskDefinition = Without(@, {t \in DOMAIN @ : @[t] = w} \cup tasks)]

\* The tasks are saved under the workflow's own id, whatever row it went to.
SaveWorkflow(store, db, w, tasks, cron) ==
  [db EXCEPT
     !.definition = Put(@, {RowOf(db, w)}, [cron |-> cron]),
     !.taskDefinition = TaskDefinitionsSaved(Without(@, {t \in DOMAIN @ : @[t] = w}), tasks, w)]

\* With foreign keys a task cannot be saved under an id that has no row.
SaveIsRefused(store, db, w, tasks) ==
  ForeignKeys(store) /\ RowOf(db, w) # w /\ tasks # {}

\* The rows of a new instance's tasks.  In SQLite a task that has a row takes it
\* along to the new instance; in MySQL and PostgreSQL the row stays where it is.
TaskRowsGoOver(table, tasks, i) == Put(table, tasks, i)

TaskRowsStay(table, tasks, i) == Put(table, tasks \ DOMAIN table, i)

StartWorkflow(store, db, i, w, tasks) ==
  [db EXCEPT
     !.instance = Put(@, {i}, [workflow |-> w, status |-> "Ready"]),
     !.taskInstance = IF store = "mysql" THEN TaskRowsStay(@, tasks, i)
                      ELSE TaskRowsGoOver(@, tasks, i)]

StartIsRefused(store, db, w) == ForeignKeys(store) /\ w \notin DOMAIN db.definition

\* GetWorkflowWithTasks: the workflow's tasks as they are stored now...
StoredTasks(db, w) == {t \in DOMAIN db.taskDefinition : db.taskDefinition[t] = w}

\* ...and whether they can be put together: each after all it depends on.
IsLoadable(db, w) ==
  /\ w \in DOMAIN db.definition
  /\ \A t \in StoredTasks(db, w) : DepsOf[t] \subseteq StoredTasks(db, w)

\* An update of a row that is not there changes nothing and is no error.
UpdateWorkflowInstanceStatus(db, i, status) ==
  IF i \notin DOMAIN db.instance THEN db
  ELSE [db EXCEPT !.instance[i].status = status]

\* Mutant: the rows of the tasks are left to ON DELETE CASCADE.
DeleteWorkflowCascades(store, db, w) ==
  LET instances == {i \in DOMAIN db.instance : db.instance[i].workflow = w} IN
  [db EXCEPT
     !.definition = Without(@, {w}),
     !.taskDefinition = Without(@, StoredTasks(db, w)),
     !.instance = Without(@, instances)]

DeleteWorkflow(store, db, w) ==
  LET instances == {i \in DOMAIN db.instance : db.instance[i].workflow = w} IN
  [db EXCEPT
     !.definition = Without(@, {w}),
     !.taskDefinition = Without(@, StoredTasks(db, w)),
     !.instance = Without(@, instances),
     !.taskInstance = Without(@, {t \in DOMAIN @ : @[t] \in instances})]

-----------------------------------------------------------------------------
(* The separate repositories of the internal storage package.             *)

\* workflowInstanceRepo.Save.
SaveInstance(db, i, w) ==
  [db EXCEPT !.instance = Put(@, {i}, [workflow |-> w, status |-> "Ready"])]

\* workflowRepo.SaveWithTasks, a transaction of its own: no task definitions.
SaveWithTasks(db, i, w, tasks, cron) ==
  [db EXCEPT
     !.definition = Put(@, {w}, [cron |-> cron]),
     !.taskInstance = Put(@, tasks, i)]

-----------------------------------------------------------------------------
\* What a table refers to is there: SQLite does not enforce it.
TaskRowsHaveInstances(db) ==
  \A t \in DOMAIN db.taskInstance : db.taskInstance[t] \in DOMAIN db.instance

DefinitionsHaveWorkflows(db) ==
  \A t \in DOMAIN db.taskDefinition : db.taskDefinition[t] \in DOMAIN db.definition

=============================================================================
