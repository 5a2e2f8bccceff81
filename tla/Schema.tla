------------------------------ MODULE Schema ------------------------------
(***************************************************************************)
(* What a repository's migrations do to tables that hold rows              *)
(* (core/schema/reader.py and checks.py).                                  *)
(*                                                                         *)
(* A migration is a file: its path, whether it parses and has an `upgrade`,*)
(* and the operations of it, each with its line, table, columns and the    *)
(* keywords the checks look for.                                           *)
(***************************************************************************)
EXTENDS Integers, Sequences, FiniteSets, SequencesExt

CONSTANTS
    MigrationDirs,  \* MIGRATION_DIRS, in the order they are read
    Interesting     \* INTERESTING, the calls that change a table

\* _operations_in: the interesting calls of the forward migration.
OperationsIn(migration) ==
    IF ~migration.parses \/ ~migration.upgrade THEN <<>>
    ELSE LET calls == SelectSeq(migration.calls, LAMBDA call : call.kind \in Interesting)
         IN  [i \in DOMAIN calls |-> calls[i] @@ [path |-> migration.path]]

\* read_migrations: every directory in turn, and in each every file under it.
ReadMigrations(migrations) ==
    LET under(dir) == SelectSeq(migrations, LAMBDA migration : IsPrefix(dir, migration.path))
        operations(dir) == FlattenSeq([i \in DOMAIN under(dir) |-> OperationsIn(under(dir)[i])])
    IN  FlattenSeq([d \in DOMAIN MigrationDirs |-> operations(MigrationDirs[d])])

\* The tables one migration creates have no rows while it runs.
Fresh(operations, path) ==
    {op.table : op \in {o \in ToSet(operations) : o.kind = "create_table" /\ o.path = path}}

\* An index anywhere in the history covers a foreign key.
IndexedColumns(operations) ==
    UNION {{<<op.table, column>> : column \in ToSet(op.columns)} :
              op \in {o \in ToSet(operations) : o.kind = "create_index"}}

\* _check: the rule an operation breaks, or none.
Broken(op, operations) ==
    LET fresh == op.table \in Fresh(operations, op.path)
        uncovered == {c \in ToSet(op.columns) : <<op.table, c>> \notin IndexedColumns(operations)}
    IN  IF op.kind = "add_column" /\ ~fresh /\ op.required /\ ~op.default
           THEN {"not-null-without-default"}
        ELSE IF op.kind = "create_index" /\ ~fresh /\ ~op.concurrently
           THEN {"index-blocks-writes"}
        ELSE IF op.kind = "create_foreign_key" /\ uncovered # {}
           THEN {"foreign-key-without-index"}
        ELSE IF op.kind = "drop_column" THEN {"column-dropped-in-one-step"}
        ELSE {}

\* schema_findings, in the order of the operations.
SchemaFindings(operations) ==
    FlattenSeq([i \in DOMAIN operations |->
        SetToSeq({[rule |-> rule, path |-> operations[i].path, line |-> operations[i].line] :
                     rule \in Broken(operations[i], operations)})])
=============================================================================
