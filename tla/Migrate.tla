------------------------------ MODULE Migrate ------------------------------
(***************************************************************************)
(* The migration tool (cmd/migrate/main.go).  For each file of migrations/ *)
(* in the order of their names: skip it if schema_migrations has it, else  *)
(* execute it, then record it.  Executing and recording are two            *)
(* transactions, and nothing keeps a second process from running at the    *)
(* same time.                                                              *)
(*                                                                         *)
(* A file is executed as a whole or not at all: without arguments pgx      *)
(* sends it in one simple query, which PostgreSQL runs as one transaction. *)
(* No file can be executed twice, since each begins with a CREATE or ADD   *)
(* COLUMN without IF NOT EXISTS.                                           *)
(***************************************************************************)
EXTENDS Integers, FiniteSets

CONSTANTS
  Last,       \* number of files; they are 1 .. Last in the order of their names
  Processes,  \* runs of the tool at the same time
  MaxCrashes  \* bound: how often a process is killed or loses its connection

ASSUME MigrateAssumption == Last \in Nat \ {0} /\ MaxCrashes \in Nat

VARIABLES
  executed,   \* files whose statements have taken effect
  recorded,   \* the schema_migrations table
  proc,       \* proc[x] = what process x does next, and with which file
  crashes,    \* number of crashes so far
  preloaded   \* did the database container execute the files when it was created?

migrateVars == <<executed, recorded, proc, crashes, preloaded>>

Files == 1 .. Last
Running == {"check", "execute", "record"}

\* docker-compose.yml also mounts the files where the database container executes
\* them when it creates the database.
MigrateInit ==
  /\ preloaded \in BOOLEAN
  /\ executed = IF preloaded THEN Files ELSE {}
  /\ recorded = {}
  /\ proc = [x \in Processes |-> [pc |-> "idle", file |-> 1]]
  /\ crashes = 0
-----------------------------------------------------------------------------
Goto(x, pc) == proc' = [proc EXCEPT ![x].pc = pc]

\* Connect and CREATE TABLE IF NOT EXISTS.  A tool that has ended may be run again.
Start(x) ==
  /\ proc[x].pc \notin Running
  /\ proc' = [proc EXCEPT ![x] = [pc |-> "check", file |-> 1]]
  /\ UNCHANGED <<executed, recorded, crashes, preloaded>>

NextFile(x) ==
  proc' = [proc EXCEPT ![x] = IF proc[x].file = Last
                              THEN [pc |-> "done", file |-> Last]
                              ELSE [pc |-> "check", file |-> proc[x].file + 1]]

\* continue without going on to the next file.
FaultySkip(x) ==
  /\ proc[x].pc = "check"
  /\ proc[x].file \in recorded
  /\ UNCHANGED migrateVars

Skip(x) ==
  /\ proc[x].pc = "check"
  /\ proc[x].file \in recorded
  /\ NextFile(x)
  /\ UNCHANGED <<executed, recorded, crashes, preloaded>>

Check(x) ==
  /\ proc[x].pc = "check"
  /\ proc[x].file \notin recorded
  /\ Goto(x, "execute")
  /\ UNCHANGED <<executed, recorded, crashes, preloaded>>

\* The error of a file that fails is only printed.
FaultyExecute(x) ==
  /\ proc[x].pc = "execute"
  /\ proc[x].file \notin executed
  /\ executed' \in {executed, executed \cup {proc[x].file}}
  /\ Goto(x, "record")
  /\ UNCHANGED <<recorded, crashes, preloaded>>

Execute(x) ==
  /\ proc[x].pc = "execute"
  /\ proc[x].file \notin executed
  /\ executed' = executed \cup {proc[x].file}
  /\ Goto(x, "record")
  /\ UNCHANGED <<recorded, crashes, preloaded>>

\* The types and columns exist already: panic.
AlreadyExists(x) ==
  /\ proc[x].pc = "execute"
  /\ proc[x].file \in executed
  /\ Goto(x, "panicked")
  /\ UNCHANGED <<executed, recorded, crashes, preloaded>>

\* The error of the INSERT is ignored.
FaultyRecord(x) ==
  /\ proc[x].pc = "record"
  /\ recorded' \in {recorded, recorded \cup {proc[x].file}}
  /\ NextFile(x)
  /\ UNCHANGED <<executed, crashes, preloaded>>

Record(x) ==
  /\ proc[x].pc = "record"
  /\ recorded' = recorded \cup {proc[x].file}
  /\ NextFile(x)
  /\ UNCHANGED <<executed, crashes, preloaded>>

\* The process dies or a statement fails; one that was sent took effect or not.
Crash(x) ==
  /\ crashes < MaxCrashes
  /\ proc[x].pc \in Running
  /\ executed' \in {executed} \cup
       (IF proc[x].pc = "execute" THEN {executed \cup {proc[x].file}} ELSE {})
  /\ recorded' \in {recorded} \cup
       (IF proc[x].pc = "record" THEN {recorded \cup {proc[x].file}} ELSE {})
  /\ Goto(x, "panicked")
  /\ crashes' = crashes + 1
  /\ UNCHANGED preloaded
-----------------------------------------------------------------------------
Proceed(x) == Skip(x) \/ Check(x) \/ Execute(x) \/ AlreadyExists(x) \/ Record(x)

MigrateNext == \E x \in Processes : Start(x) \/ Proceed(x) \/ Crash(x)

\* Statements are answered, and somebody runs the tool again after it has ended.
MigrateFairness ==
  \A x \in Processes : WF_migrateVars(Proceed(x)) /\ WF_migrateVars(Start(x))

MigrateSpec == MigrateInit /\ [][MigrateNext]_migrateVars /\ MigrateFairness
-----------------------------------------------------------------------------
(***************************************************************************)
(* Properties                                                              *)
(***************************************************************************)
\* Files that are in the schema and not in schema_migrations, with no process left to
\* record them.
Wedged ==
  \E f \in executed \ recorded :
    \A x \in Processes : proc[x] # [pc |-> "record", file |-> f]

(***************************************************************************)
(* Whoever runs at the same time and wherever they die, the files in the   *)
(* schema are the first ones without a gap, so are the recorded ones, the  *)
(* record is never ahead of the schema, and it is behind by at most one    *)
(* file that the tool executed.  A tool that ended well has recorded all.  *)
(***************************************************************************)
SchemaIsPrefix ==
  /\ \E i, j \in 0 .. Last : executed = 1 .. i /\ recorded = 1 .. j /\ j <= i
  /\ ~preloaded => Cardinality(executed \ recorded) <= 1
  /\ \A x \in Processes : proc[x].pc = "done" => recorded = Files

(***************************************************************************)
(* Tools that race for a file do not leave it executed and unrecorded: the *)
(* one that executed it goes on to record it, the others panic and may be  *)
(* run again.  Only a crash between the two, or a database that was        *)
(* created with the files, does that.                                      *)
(***************************************************************************)
WedgedOnlyByCrash == Wedged => crashes > 0 \/ preloaded

(***************************************************************************)
(* Running the tool again and again after crashes completes the schema,    *)
(* unless a crash fell between a file and its record.                      *)
(***************************************************************************)
MigrationSettles == <>(recorded = Files \/ Wedged)
=============================================================================
