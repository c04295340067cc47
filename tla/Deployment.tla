----------------------------- MODULE Deployment -----------------------------
(***************************************************************************)
(* The scripts that prepare a deployment, and the service they prepare:    *)
(* init_secrets and create_admin write the secrets in .env, create_admin   *)
(* and the service create the tables, migrate_phase_b adds the columns     *)
(* that a table of the phase before lacks; launchd keeps the service up.   *)
(*                                                                         *)
(* Scripts may overlap, and die at any step.  .env is rewritten in place:  *)
(* it is empty between the truncation and the write; and what the scripts  *)
(* read in a line is not always what the service reads there.  DDL is      *)
(* committed statement by statement.                                       *)
(***************************************************************************)
EXTENDS Integers, Sequences

CONSTANTS
  Runs,       \* slots for runs of the scripts
  Emails,     \* of admins
  MaxSecrets, \* bound: secrets generated
  MaxEdits,   \* bound: edits of .env by hand
  MaxKills    \* bound: deaths of the service by another hand than its own

ASSUME BoundsAssumption == MaxSecrets \in Nat \ {0} /\ MaxEdits \in Nat /\ MaxKills \in Nat

VARIABLES
  file,    \* .env: the lines of three variables
  minted,  \* secrets generated
  runs,    \* what each run of a script is doing
  table,   \* the columns of `users`, none while there is no table
  admins,  \* the emails in it
  service, \* the process: its step, the secrets it has read
  sealed,  \* the key the TOTP secret of an admin is encrypted under, 0 if none
  done,    \* (for the properties) "secrets", "columns": what some run ended well
  added,   \* (for the properties) the columns that runs reported, with the run's number
  lost,    \* (for the properties) what has happened to .env: a writer was "cut" while it
           \* wrote, two writers did "overlap", an "edit" came while one was at work, a
           \* "note" was written into a value
  edits,   \* edits by hand
  kills

vars == <<file, minted, runs, table, admins, service, sealed, done, added, lost, edits, kills>>

-----------------------------------------------------------------------------
Variables == {"jwt", "totp", "other"}
Secrets   == {"jwt", "totp"}

\* `text` is what the service reads in a line: a number stands for a text, its opposite
\* for that text with a note at its end, 0 for nothing.  A value that was typed without
\* quotes can be `noted`: KEY=value # note.
Quoted(text) == [text |-> text, noted |-> FALSE]
Absent == Quoted(0)
Empty  == [v \in Variables |-> Absent]
Unread == [v \in Variables |-> 0]

\* What _read_env makes of a line: the note is part of the value.
Read(line) == IF line.noted THEN -line.text ELSE line.text
Parsed     == [v \in Variables |-> Read(file[v])]

\* A Fernet key is decoded as far as its padding: a note behind it changes nothing.
KeyOf(text) == IF text < 0 THEN -text ELSE text

\* The columns of the phase before are one column here.
Targets    == {"failed_login_count", "locked_until"}
AllColumns == {"base"} \cup Targets

NoRun == [script |-> "none", step |-> "none"]

\* A run between its first reading of .env and its writing.
Ensuring(r) == runs[r].step \in {"reread", "truncate", "write"}
Writing     == \E r \in Runs : runs[r].step = "write"

Goto(r, step) == runs' = [runs EXCEPT ![r].step = step]
End(r)        == runs' = [runs EXCEPT ![r] = NoRun]

-----------------------------------------------------------------------------
(* ensure_secrets, by init_secrets or at the start of create_admin.        *)

\* What follows ensure_secrets.
Onward(r) ==
  IF runs[r].script = "create" THEN Goto(r, "tables") ELSE End(r)

Begin(r, script) ==
  /\ runs[r] = NoRun
  /\ runs' = [runs EXCEPT ![r] =
       [script |-> script, step |-> IF script = "migrate" THEN "columns" ELSE "read",
        env |-> Unread, lines |-> Empty, todo |-> {}]]
  /\ UNCHANGED <<file, minted, table, admins, service, sealed, done, added, lost, edits, kills>>

\* Mutant: both are generated when one is missing.
GeneratedBoth(env, n) == [env EXCEPT !["jwt"] = n + 1, !["totp"] = n + 2]

\* The secrets that are missing; n were generated before.
Generated(env, n) ==
  [env EXCEPT !["jwt"]  = IF @ = 0 THEN n + 1 ELSE @,
              !["totp"] = IF @ = 0 THEN n + 2 ELSE @]

\* Mutant: only JWT_SECRET is looked at, as before there was another.
EnsureReadJwtOnly(r) ==
  /\ runs[r].step = "read"
  /\ IF file["jwt"].text # 0
       THEN /\ Onward(r)
            /\ done' = done \cup {"secrets"}
            /\ UNCHANGED <<minted, lost>>
       ELSE /\ minted + 2 <= MaxSecrets
            /\ minted' = minted + 2
            /\ runs' = [runs EXCEPT ![r].step = "reread", ![r].env = Generated(Parsed, minted)]
            /\ lost' = lost \cup (IF \E q \in Runs : Ensuring(q) THEN {"overlap"} ELSE {})
            /\ UNCHANGED done
  /\ UNCHANGED <<file, table, admins, service, sealed, added, edits, kills>>

\* The secrets that are there are kept; nothing is written if none is missing.
EnsureRead(r) ==
  /\ runs[r].step = "read"
  /\ IF \A v \in Secrets : file[v].text # 0
       THEN /\ Onward(r)
            /\ done' = done \cup {"secrets"}
            /\ UNCHANGED <<minted, lost>>
       ELSE /\ minted + 2 <= MaxSecrets
            /\ minted' = minted + 2
            /\ runs' = [runs EXCEPT ![r].step = "reread", ![r].env = Generated(Parsed, minted)]
            /\ lost' = lost \cup (IF \E q \in Runs : Ensuring(q) THEN {"overlap"} ELSE {})
            /\ UNCHANGED done
  /\ UNCHANGED <<file, table, admins, service, sealed, added, edits, kills>>

\* _write_env reads the lines again.
Reread(r) ==
  /\ runs[r].step = "reread"
  /\ runs' = [runs EXCEPT ![r].step = "truncate", ![r].lines = file]
  /\ UNCHANGED <<file, minted, table, admins, service, sealed, done, added, lost, edits, kills>>

Truncate(r) ==
  /\ runs[r].step = "truncate"
  /\ file' = Empty
  /\ Goto(r, "write")
  /\ UNCHANGED <<minted, table, admins, service, sealed, done, added, lost, edits, kills>>

\* The lines of what was read first or generated have these values, in quotes; the
\* others stay.
Merged(r) ==
  [v \in Variables |-> IF runs[r].env[v] # 0 THEN Quoted(runs[r].env[v]) ELSE runs[r].lines[v]]

Write(r) ==
  /\ runs[r].step = "write"
  /\ file' = Merged(r)
  /\ lost' = lost \cup (IF \E v \in Variables : runs[r].env[v] < 0 THEN {"note"} ELSE {})
  /\ done' = done \cup {"secrets"}
  /\ Onward(r)
  /\ UNCHANGED <<minted, table, admins, service, sealed, added, edits, kills>>

-----------------------------------------------------------------------------
(* The rest of create_admin: init_db, then the account.                    *)

\* create_all looks for the table first.
AdminTables(r) ==
  /\ runs[r].step = "tables"
  /\ Goto(r, IF table = {} THEN "tables_create" ELSE "check")
  /\ UNCHANGED <<file, minted, table, admins, service, sealed, done, added, lost, edits, kills>>

\* The statement fails if the table is there by now.
AdminCreatesTables(r) ==
  /\ runs[r].step = "tables_create"
  /\ IF table = {} THEN table' = AllColumns /\ Goto(r, "check")
                   ELSE table' = table /\ End(r)
  /\ UNCHANGED <<file, minted, admins, service, sealed, done, added, lost, edits, kills>>

\* Passwords that differ or are too short, an email that is there, a column that is
\* not: the run ends.
AdminCheck(r, email) ==
  /\ runs[r].step = "check"
  /\ \/ End(r)
     \/ /\ email \notin admins /\ table = AllColumns
        /\ runs' = [runs EXCEPT ![r] = [script |-> "create", step |-> "insert", email |-> email]]
  /\ UNCHANGED <<file, minted, table, admins, service, sealed, done, added, lost, edits, kills>>

\* The email is UNIQUE: another run may have inserted it since.
AdminInsert(r) ==
  /\ runs[r].step = "insert"
  /\ admins' = admins \cup {runs[r].email}
  /\ End(r)
  /\ UNCHANGED <<file, minted, table, service, sealed, done, added, lost, edits, kills>>

-----------------------------------------------------------------------------
(* migrate_phase_b.                                                        *)

\* Mutant: if the first column is there, so is the second.
MissingAllOrNone(columns) == IF "failed_login_count" \in columns THEN {} ELSE Targets

Missing(columns) == Targets \ columns

\* In the order of _TARGETS.
FirstOf(todo) ==
  IF "failed_login_count" \in todo THEN "failed_login_count" ELSE "locked_until"

MigrateRead(r) ==
  /\ runs[r].step = "columns"
  /\ runs' = [runs EXCEPT ![r].step = "alter", ![r].todo = Missing(table)]
  /\ UNCHANGED <<file, minted, table, admins, service, sealed, done, added, lost, edits, kills>>

\* ALTER TABLE fails without a table, or if the column is there by now: the run ends.
MigrateAlter(r) ==
  /\ runs[r].step = "alter" /\ runs[r].todo # {}
  /\ LET column == FirstOf(runs[r].todo)
     IN IF table # {} /\ column \notin table
          THEN /\ table' = table \cup {column}
               /\ added' = Append(added, column)
               /\ runs' = [runs EXCEPT ![r].todo = @ \ {column}]
          ELSE UNCHANGED <<table, added>> /\ End(r)
  /\ UNCHANGED <<file, minted, admins, service, sealed, done, lost, edits, kills>>

MigrateEnds(r) ==
  /\ runs[r].step = "alter" /\ runs[r].todo = {}
  /\ done' = done \cup {"columns"}
  /\ End(r)
  /\ UNCHANGED <<file, minted, table, admins, service, sealed, added, lost, edits, kills>>

\* A run is interrupted: what it has committed or truncated stays so.
Die(r) ==
  /\ runs[r] # NoRun
  /\ lost' = lost \cup (IF runs[r].step = "write" THEN {"cut"} ELSE {})
  /\ End(r)
  /\ UNCHANGED <<file, minted, table, admins, service, sealed, done, added, edits, kills>>

-----------------------------------------------------------------------------
(* The service: settings are read once, when the module is imported.       *)

Down == [step |-> "down", jwt |-> 0, totp |-> 0, after |-> {}]

\* The other setting is a number (config.py): with a note in it the import fails.
Importable == file["other"].text >= 0

\* launchd starts it again whenever it is down.  `after` is for the properties.
Start ==
  /\ service.step = "down" /\ Importable
  /\ service' = [step |-> "tables", jwt |-> file["jwt"].text, totp |-> file["totp"].text,
                 after |-> done]
  /\ UNCHANGED <<file, minted, runs, table, admins, sealed, done, added, lost, edits, kills>>

\* Mutant: init_db does not look for the table.
StartTablesUnchecked ==
  /\ service.step = "tables"
  /\ service' = [service EXCEPT !.step = "tables_create"]
  /\ UNCHANGED <<file, minted, runs, table, admins, sealed, done, added, lost, edits, kills>>

\* init_db, in the lifespan.
StartTables ==
  /\ service.step = "tables"
  /\ service' = [service EXCEPT !.step = IF table = {} THEN "tables_create" ELSE "up"]
  /\ UNCHANGED <<file, minted, runs, table, admins, sealed, done, added, lost, edits, kills>>

\* The start fails if the table is there by now.
StartCreatesTables ==
  /\ service.step = "tables_create"
  /\ IF table = {} THEN table' = AllColumns /\ service' = [service EXCEPT !.step = "up"]
                   ELSE table' = table /\ service' = Down
  /\ UNCHANGED <<file, minted, runs, admins, sealed, done, added, lost, edits, kills>>

\* kickstart -k, a crash, a reboot.
Kill ==
  /\ service.step # "down" /\ kills < MaxKills
  /\ service' = Down
  /\ kills' = kills + 1
  /\ UNCHANGED <<file, minted, runs, table, admins, sealed, done, added, lost, edits>>

\* What a login and an enrolment need: 503 without the secrets, an error without the
\* columns.
Ready == service.step = "up" /\ service.jwt # 0 /\ service.totp # 0 /\ table = AllColumns

\* An admin enrols, as in AuthAccount.
Enrol ==
  /\ Ready /\ admins # {} /\ sealed = 0
  /\ sealed' = KeyOf(service.totp)
  /\ UNCHANGED <<file, minted, runs, table, admins, service, done, added, lost, edits, kills>>

\* By hand in .env, but not while it is being written, without quotes, with a note or
\* not: another setting; with it, JWT_SECRET is removed or replaced, to close the
\* sessions, or the line of the TOTP key typed again.
Edit ==
  /\ edits < MaxEdits /\ ~Writing
  /\ edits' = edits + 1
  /\ \E noted \in BOOLEAN :
       LET typed(n) == [text |-> n, noted |-> noted /\ n > 0]
           setting  == [file EXCEPT !["other"] = typed(edits + 1)]
       IN file' \in {setting,
                     [setting EXCEPT !["jwt"] = Absent],
                     [setting EXCEPT !["jwt"] = typed(MaxSecrets + edits + 1)],
                     [setting EXCEPT !["totp"] = typed(@.text)]}
  /\ done' = IF file'["jwt"] = Absent THEN done \ {"secrets"} ELSE done
  /\ lost' = lost \cup (IF \E r \in Runs : Ensuring(r) THEN {"edit"} ELSE {})
  /\ UNCHANGED <<minted, runs, table, admins, service, sealed, added, kills>>

-----------------------------------------------------------------------------
\* A new machine, or one of the phase before: its table, its admin, its JWT_SECRET.
Init ==
  /\ \/ file = Empty /\ minted = 0 /\ table = {} /\ admins = {}
     \/ file = [Empty EXCEPT !["jwt"] = Quoted(1)] /\ minted = 1 /\ table = {"base"} /\ admins = Emails
  /\ runs = [r \in Runs |-> NoRun]
  /\ service = Down
  /\ sealed = 0 /\ done = {} /\ added = <<>> /\ lost = {} /\ edits = 0 /\ kills = 0

Step(r) ==
  \/ EnsureRead(r) \/ Reread(r) \/ Truncate(r) \/ Write(r)
  \/ AdminTables(r) \/ AdminCreatesTables(r) \/ AdminInsert(r)
  \/ \E email \in Emails : AdminCheck(r, email)
  \/ MigrateRead(r) \/ MigrateAlter(r) \/ MigrateEnds(r)

Serve == Start \/ StartTables \/ StartCreatesTables

Next ==
  \/ \E r \in Runs : \/ \E script \in {"init", "create", "migrate"} : Begin(r, script)
                     \/ Step(r) \/ Die(r)
  \/ Serve \/ Kill \/ Enrol \/ Edit

\* KeepAlive.
Spec == Init /\ [][Next]_vars /\ WF_vars(Serve)

-----------------------------------------------------------------------------
(* Properties.                                                             *)

Values   == 0..MaxSecrets + MaxEdits
Texts    == {n \in Int : n \in Values \/ -n \in Values}
LineType == {l \in [text : Texts, noted : BOOLEAN] : l.noted => l.text > 0}
EnvType  == [Variables -> LineType]

RunType == {NoRun} \cup
  [script : {"init", "create", "migrate"},
   step   : {"read", "reread", "truncate", "write", "tables", "tables_create", "check",
             "columns", "alter"},
   env : [Variables -> Texts], lines : EnvType, todo : SUBSET Targets] \cup
  [script : {"create"}, step : {"insert"}, email : Emails]

\* The state has its types; a table has the columns of the phase before.
TypeOK ==
  /\ file \in EnvType
  /\ minted \in 0..MaxSecrets
  /\ runs \in [Runs -> RunType]
  /\ table \in {{}} \cup {{"base"} \cup c : c \in SUBSET Targets}
  /\ admins \subseteq Emails
  /\ service \in [step : {"down", "tables", "tables_create", "up"}, jwt : Texts,
                  totp : Texts, after : SUBSET {"secrets", "columns"}]
  /\ sealed \in Values
  /\ done \subseteq {"secrets", "columns"}
  /\ added \in Seq(Targets)
  /\ lost \subseteq {"cut", "overlap", "edit", "note"}
  /\ edits \in 0..MaxEdits
  /\ kills \in 0..MaxKills

\* The key under which the TOTP secret is encrypted stays in .env, also when the file
\* is edited meanwhile and a note gets into its line, as long as those that write .env
\* are not cut while they write and do not overlap; and if nothing of the kind happens,
\* so does what was written by hand.
KeysSurvive ==
  ~Writing =>
    /\ lost \cap {"cut", "overlap"} = {} /\ sealed # 0 => KeyOf(file["totp"].text) = sealed
    /\ lost = {} => file["other"].text = edits

\* (init_secrets.py:3, RESILIENCE.md:98-99) A key that is there is never generated again:
\* the one in use is in .env, or none is.
KeyNeverReplaced == sealed # 0 => KeyOf(file["totp"].text) \in {0, sealed}

\* A migration that reports success has left all the columns, although other
\* migrations, init_db, or one that died have done part of it.
MigrationSticks == "columns" \in done => table = AllColumns

\* No two runs report the same column.
ColumnsReportedOnce ==
  \A i, j \in DOMAIN added : added[i] = added[j] => i = j

\* The documented sequence: a service that starts after the migration and the secrets
\* can log in and enrol an admin, also if the table was created by someone else.
DeploymentHolds ==
  lost \subseteq {"note"} /\ {"secrets", "columns"} \subseteq service.after /\ service.step = "up" => Ready

\* The service comes up again, although a start fails when create_admin creates the
\* tables first, unless a note has got into a number of .env.
ComesUp == []<>(service.step = "up" \/ ~Importable)
=============================================================================
