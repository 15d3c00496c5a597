---------------------------- MODULE StorageSchema ----------------------------
(***************************************************************************)
(* storage/schema.py: how a metrics database is classified from what its   *)
(* catalog says, and which class the stores and the administration accept. *)
(*                                                                         *)
(* A catalog is what a backend's _inspect_connection reads: the names of   *)
(* the tables, the columns of the two known ones, the rows of the version  *)
(* table and the definitions of the indexes the project owns.  Four of the *)
(* thirteen columns of provider_attempts stand for all: between them they  *)
(* have every type, a key, required columns and a nullable one.            *)
(***************************************************************************)
EXTENDS Integers, Sequences

AttemptsTable == "provider_attempts"
VersionsTable == "nygen_router_schema_versions"
MetricsComponent == "metrics"
MetricsSchemaVersion == 2
NoVersion == 0                  \* Python's None for a version
BlankName == ""                 \* a component that is no string, blank or padded

Column(name, type, notNull, key) ==
    [name |-> name, type |-> type, notNull |-> notNull, key |-> key, default |-> "none"]

\* _EXPECTED_PROVIDER_SCHEMA, its PostgreSQL form and _EXPECTED_VERSION_SCHEMA.
ExpectedProviderSchema ==
    <<Column("id", "text", FALSE, TRUE), Column("timestamp", "text", TRUE, FALSE),
      Column("success", "integer", TRUE, FALSE), Column("latency_ms", "real", FALSE, FALSE)>>
ExpectedPostgresProviderSchema ==
    <<Column("id", "text", FALSE, TRUE), Column("timestamp", "timestamptz", TRUE, FALSE),
      Column("success", "boolean", TRUE, FALSE), Column("latency_ms", "real", FALSE, FALSE)>>
ExpectedVersionSchema ==
    <<Column("component", "text", FALSE, TRUE), Column("version", "integer", TRUE, FALSE)>>

\* SQLITE_, POSTGRES_ and DUCKDB_REQUIRED_METRICS_INDEXES.
PartitionIndex == [name |-> "partition_timestamp", unique |-> FALSE, columns |-> "partition"]
RequiredIndexes(backend) == IF backend = "duckdb" THEN {} ELSE {PartitionIndex}

LogicalType(type) ==
    CASE type \in {"TEXT", "VARCHAR", "CHARACTER VARYING"} -> "text"
      [] type \in {"INTEGER", "INT", "BIGINT"} -> "integer"
      [] type \in {"REAL", "FLOAT", "DOUBLE", "DOUBLE PRECISION"} -> "real"
      [] type \in {"BOOLEAN", "BOOL"} -> "boolean"
      [] type \in {"TIMESTAMP WITH TIME ZONE", "TIMESTAMPTZ"} -> "timestamptz"
      [] OTHER -> type

\* _schema_error: the columns must be the expected ones, in order and without
\* defaults; a key column is read as nullable, because engines disagree on it.
SchemaError(columns, expected) ==
    [i \in DOMAIN columns |->
        [columns[i] EXCEPT !.type = LogicalType(@), !.notNull = @ /\ ~columns[i].key]]
    # expected

\* _component_versions accepts the rows up to the first one that is malformed,
\* repeats a component or has no positive version.
BadComponentRow(rows, i) ==
    \/ rows[i].component = BlankName
    \/ \E j \in 1..(i - 1) : rows[j].component = rows[i].component
    \/ rows[i].version <= 0

ComponentError(rows) == \E i \in DOMAIN rows : BadComponentRow(rows, i)

AcceptedComponents(rows) ==
    {i \in DOMAIN rows : \A j \in 1..i : ~BadComponentRow(rows, j)}

MetricsVersion(rows) ==
    LET found == {i \in AcceptedComponents(rows) : rows[i].component = MetricsComponent}
    IN  IF found = {} THEN NoVersion ELSE rows[CHOOSE i \in found : TRUE].version

\* _required_index_error: each name at most once, each required definition as is.
RequiredIndexError(indexes, required) ==
    \/ \E i, j \in DOMAIN indexes : i # j /\ indexes[i].name = indexes[j].name
    \/ \E r \in required : \A i \in DOMAIN indexes : indexes[i] # r

Report(state, metadata, version) ==
    [state |-> state, metadata |-> metadata, version |-> version]

UnknownReport(metadata, version) == Report("unknown", metadata, version)
MissingReport == Report("missing", "absent", NoVersion)

ProviderError(cat, expected) ==
    AttemptsTable \notin cat.tables \/ SchemaError(cat.provider, expected)

\* Mutated form: the indexes of a current database are not looked at.
InspectSchemaRowsWithoutIndexes(cat, required, expected, allowImplicit) ==
    LET version == MetricsVersion(cat.versionRows) IN
    IF VersionsTable \notin cat.tables \/ version # MetricsSchemaVersion
    THEN UnknownReport("valid", version)
    ELSE Report("current", "valid", version)

\* inspect_schema_rows: the first rule that applies decides.
InspectSchemaRows(cat, required, expected, allowImplicit) ==
    LET version == MetricsVersion(cat.versionRows) IN
    IF VersionsTable \notin cat.tables THEN
        IF ~ProviderError(cat, expected) /\ allowImplicit
        THEN Report("implicit_v1", "absent", 1)
        ELSE UnknownReport("absent", NoVersion)
    ELSE IF SchemaError(cat.versions, ExpectedVersionSchema) THEN
        UnknownReport("invalid", version)
    ELSE IF ComponentError(cat.versionRows) THEN UnknownReport("invalid", NoVersion)
    ELSE IF version = NoVersion THEN UnknownReport("valid", NoVersion)
    ELSE IF version > MetricsSchemaVersion THEN Report("newer", "valid", version)
    ELSE IF version < MetricsSchemaVersion THEN Report("supported_older", "valid", version)
    ELSE IF ProviderError(cat, expected) \/ RequiredIndexError(cat.indexes, required) THEN
        UnknownReport("valid", version)
    ELSE Report("current", "valid", version)

\* inspect_postgres_schema_rows: a database with neither table is missing, and
\* attempts without versions are no baseline.
InspectPostgresSchemaRows(cat) ==
    IF cat.tables \cap {AttemptsTable, VersionsTable} = {}
    THEN MissingReport
    ELSE InspectSchemaRows(cat, RequiredIndexes("postgres"),
                           ExpectedPostgresProviderSchema, FALSE)

----------------------------------------------------------------------------
\* What an engine reports for the columns of the CREATE TABLE statements: its
\* own type names, and outside SQLite a key is required.
EngineType(backend, logical) ==
    CASE logical = "text" -> IF backend = "duckdb" THEN "VARCHAR" ELSE "TEXT"
      [] logical = "integer" -> "INTEGER"
      [] logical = "real" -> CASE backend = "sqlite" -> "REAL"
                               [] backend = "duckdb" -> "FLOAT"
                               [] OTHER -> "DOUBLE PRECISION"
      [] logical = "boolean" -> "BOOLEAN"
      [] logical = "timestamptz" -> "TIMESTAMP WITH TIME ZONE"

CreatedColumns(backend, columns) ==
    [i \in DOMAIN columns |->
        [columns[i] EXCEPT !.type = EngineType(backend, @),
                           !.notNull = @ \/ (columns[i].key /\ backend # "sqlite")]]

\* The catalog of a file no statement has run on, and the one that the CREATE
\* statements and the version row of a new database leave behind.
EmptyCatalog ==
    [tables |-> {}, provider |-> <<>>, versions |-> <<>>, versionRows |-> <<>>,
     indexes |-> <<>>]

CreatedCatalog(backend) ==
    [tables |-> {AttemptsTable, VersionsTable},
     provider |-> CreatedColumns(backend, IF backend = "postgres"
                                          THEN ExpectedPostgresProviderSchema
                                          ELSE ExpectedProviderSchema),
     versions |-> CreatedColumns(backend, ExpectedVersionSchema),
     versionRows |-> <<[component |-> MetricsComponent, version |-> MetricsSchemaVersion]>>,
     indexes |-> IF RequiredIndexes(backend) = {} THEN <<>> ELSE <<PartitionIndex>>]

\* _inspect_connection of a backend, and validate_runtime_schema.
Inspect(backend, cat) ==
    IF backend = "postgres"
    THEN InspectPostgresSchemaRows(cat)
    ELSE InspectSchemaRows(cat, RequiredIndexes(backend), ExpectedProviderSchema, TRUE)

Current(backend, cat) == Inspect(backend, cat).state = "current"
=============================================================================
