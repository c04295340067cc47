-------------------------- MODULE DeploymentProofs --------------------------
(***************************************************************************)
(* Proofs about Deployment, for any number of runs of the scripts, of      *)
(* emails and of edits.  TableInv says what a migration still has to add;  *)
(* EnvInv, as long as nobody was cut while writing .env and nobody wrote   *)
(* it beside another, what it holds or is about to hold: the key in any    *)
(* case, the secrets if nobody edited it meanwhile, what was written by    *)
(* hand if no note got into a value either.                                *)
(***************************************************************************)
EXTENDS Deployment, TLAPS

\* What a migration has left behind it is there, and what was reported.
TableInv ==
  /\ \A r \in Runs : runs[r].step = "alter" => Targets \ runs[r].todo \subseteq table
  /\ \A i \in DOMAIN added : added[i] \in table
  /\ "columns" \in done \cup service.after => table = AllColumns

\* Those that write .env were never cut, and never overlapped.
Alone == lost \cap {"cut", "overlap"} = {}

\* The text of the TOTP key is that of the key in use.
KeyGood(text) ==
  /\ sealed # 0 => KeyOf(text) = sealed
  /\ service.totp # 0 => KeyOf(text) = KeyOf(service.totp)

\* What was written by hand, on its way through a run that is to write.
HandKept(r) ==
  IF runs[r].step = "write"
    THEN runs[r].env["other"] >= 0 => Merged(r)["other"].text = edits
    ELSE /\ runs[r].env["other"] = Read(file["other"])
         /\ runs[r].step = "truncate" => runs[r].lines["other"] = file["other"]

\* A run that is to write .env has the secrets, the key of old if there is one.
WriterInv(r) ==
  /\ \A v \in Secrets : runs[r].env[v] # 0
  /\ IF runs[r].step = "write"
       THEN file = Empty /\ KeyGood(runs[r].env["totp"])
       ELSE file["totp"].text # 0 => KeyOf(runs[r].env["totp"]) = KeyOf(file["totp"].text)
  /\ lost \subseteq {"note"} => "secrets" \notin done /\ \E v \in Secrets : file[v].text = 0
  /\ lost = {} => HandKept(r)

\* .env while nobody is writing it.
FileInv ==
  /\ KeyGood(file["totp"].text)
  /\ lost \subseteq {"note"} /\ "secrets" \in done => \A v \in Secrets : file[v].text # 0
  /\ lost = {} => file["other"].text = edits

ServiceInv ==
  lost \subseteq {"note"} /\ "secrets" \in service.after => service.jwt # 0 /\ service.totp # 0

EnvInv ==
  Alone =>
    /\ \A r, q \in Runs : Ensuring(r) /\ Ensuring(q) => r = q
    /\ \A r \in Runs : Ensuring(r) => WriterInv(r)
    /\ ~Writing => FileInv
    /\ ServiceInv

Inv == TypeOK /\ TableInv /\ ColumnsReportedOnce /\ EnvInv

\* A run of a script, but for its account.
Full == [script : {"init", "create", "migrate"},
         step   : {"read", "reread", "truncate", "write", "tables", "tables_create", "check",
                   "columns", "alter"},
         env : [Variables -> Texts], lines : EnvType, todo : SUBSET Targets]

-----------------------------------------------------------------------------
\* A run that is not over and has no account has all the fields.
LEMMA RunsAreFull ==
  ASSUME TypeOK, NEW r \in Runs, runs[r].step \notin {"none", "insert"}
  PROVE  runs[r] \in Full
  BY DEF TypeOK, RunType, NoRun, Full

\* Types, of the steps that a run makes with no other effect.
LEMMA MoveTypes ==
  ASSUME TypeOK, NEW r \in Runs,
         \/ End(r)
         \/ /\ runs[r] \in Full
            /\ \E step \in {"tables", "tables_create", "check", "write"} : Goto(r, step)
  PROVE  runs' \in [Runs -> RunType]
<1>1. CASE End(r)
  BY <1>1 DEF End, TypeOK, RunType
<1>2. ASSUME runs[r] \in Full, NEW step \in {"tables", "tables_create", "check", "write"},
             Goto(r, step)
      PROVE  runs' \in [Runs -> RunType]
  <2>1. [runs[r] EXCEPT !.step = step] \in Full
    BY <1>2 DEF Full
  <2>2. runs' = [runs EXCEPT ![r] = [runs[r] EXCEPT !.step = step]]
    BY <1>2 DEF Goto
  <2> QED BY <2>1, <2>2 DEF TypeOK, RunType, Full
<1> QED BY <1>1, <1>2

\* Texts and lines that .env may have.
LEMMA ValueTypes ==
  /\ Absent \in LineType /\ Empty \in EnvType /\ Unread \in [Variables -> Texts]
  /\ 0 \in Values /\ 0 \in Texts
  /\ MaxSecrets \in Nat \ {0} /\ MaxEdits \in Nat
  /\ \A n \in 0..MaxSecrets : n \in Values /\ n \in Texts
<1>1. 0 \in Values /\ 0 \in Texts
  BY BoundsAssumption DEF Values, Texts
<1>2. Absent \in LineType
  BY <1>1 DEF Absent, Quoted, LineType
<1>3. Empty \in EnvType /\ Unread \in [Variables -> Texts]
  BY <1>1, <1>2 DEF Empty, EnvType, Unread
<1> QED BY <1>1, <1>2, <1>3, BoundsAssumption DEF Values, Texts

\* A line without its note, or with it in the value.
LEMMA LineTypes ==
  ASSUME NEW line \in LineType
  PROVE  /\ line.text \in Texts /\ line.text \in Int /\ Read(line) \in Texts
         /\ (Read(line) = 0 <=> line.text = 0) /\ KeyOf(Read(line)) = KeyOf(line.text)
         /\ Read(line) >= 0 => Read(line) = line.text
<1>1. line.text \in Texts /\ line.text \in Int
  BY DEF LineType, Texts
<1>2. line.noted \in BOOLEAN /\ (line.noted => line.text > 0)
  BY DEF LineType
<1>3. Read(line) = line.text \/ (line.text > 0 /\ Read(line) = -line.text)
  BY <1>2 DEF Read
<1>4. -line.text \in Texts
  BY <1>1 DEF Texts, Values
<1> QED BY <1>1, <1>3, <1>4 DEF KeyOf

\* What a text is when a script writes it.
LEMMA WrittenLine ==
  ASSUME NEW text \in Texts
  PROVE  Quoted(text) \in LineType /\ Quoted(text).text = text /\ KeyOf(text) \in Values
  BY DEF Quoted, LineType, Texts, Values, KeyOf

\* The steps of ensure_secrets keep the types.
LEMMA EnsureTypes ==
  ASSUME TypeOK, NEW r \in Runs, EnsureRead(r) \/ Reread(r) \/ Truncate(r) \/ Write(r)
  PROVE  TypeOK'
<1>1. runs[r] \in Full
  BY RunsAreFull DEF EnsureRead, Reread, Truncate, Write
<1>2. ASSUME Onward(r)
      PROVE  runs' \in [Runs -> RunType]
  BY <1>1, <1>2, MoveTypes DEF Onward
<1>3. CASE EnsureRead(r)
  <2>1. CASE \A v \in Secrets : file[v].text # 0
    BY <1>2, <1>3, <2>1 DEF EnsureRead, TypeOK
  <2>2. CASE ~ \A v \in Secrets : file[v].text # 0
    <3>1. Generated(Parsed, minted) \in [Variables -> Texts] /\ minted' \in 0..MaxSecrets
      <4>1. minted' = minted + 2 /\ minted + 1 \in 0..MaxSecrets /\ minted + 2 \in 0..MaxSecrets
        BY <1>3, <2>2, ValueTypes DEF EnsureRead, TypeOK
      <4>2. minted + 1 \in Texts /\ minted + 2 \in Texts
        BY <4>1, ValueTypes
      <4>3. Parsed \in [Variables -> Texts]
        BY LineTypes DEF Parsed, TypeOK, EnvType
      <4> QED BY <4>1, <4>2, <4>3 DEF Generated
    <3>2. runs' = [runs EXCEPT ![r] =
                     [runs[r] EXCEPT !.step = "reread", !.env = Generated(Parsed, minted)]]
      BY <1>3, <2>2 DEF EnsureRead
    <3>3. [runs[r] EXCEPT !.step = "reread", !.env = Generated(Parsed, minted)] \in Full
      BY <1>1, <3>1 DEF Full
    <3>4. runs' \in [Runs -> RunType]
      BY <3>2, <3>3 DEF TypeOK, RunType, Full
    <3>5. lost' \subseteq {"cut", "overlap", "edit", "note"}
      BY <1>3, <2>2 DEF EnsureRead, TypeOK
    <3> QED BY <1>3, <2>2, <3>1, <3>4, <3>5 DEF EnsureRead, TypeOK
  <2> QED BY <2>1, <2>2
<1>4. CASE Reread(r)
  <2>1. runs' = [runs EXCEPT ![r] = [runs[r] EXCEPT !.step = "truncate", !.lines = file]]
    BY <1>4 DEF Reread
  <2>2. [runs[r] EXCEPT !.step = "truncate", !.lines = file] \in Full
    BY <1>1 DEF Full, TypeOK
  <2>3. runs' \in [Runs -> RunType]
    BY <2>1, <2>2 DEF TypeOK, RunType, Full
  <2> QED BY <1>4, <2>3 DEF Reread, TypeOK
<1>5. CASE Truncate(r)
  <2>1. runs' \in [Runs -> RunType]
    BY <1>1, <1>5, MoveTypes DEF Truncate
  <2> QED BY <1>5, <2>1, ValueTypes DEF Truncate, TypeOK
<1>6. CASE Write(r)
  <2>1. Merged(r) \in EnvType
    BY <1>1, WrittenLine DEF Merged, Full, EnvType
  <2>2. lost' \subseteq {"cut", "overlap", "edit", "note"}
    BY <1>6 DEF Write, TypeOK
  <2> QED BY <1>2, <1>6, <2>1, <2>2 DEF Write, TypeOK
<1> QED BY <1>3, <1>4, <1>5, <1>6

\* So do those of create_admin and of the migration.
LEMMA ScriptTypes ==
  ASSUME TypeOK, NEW r \in Runs,
         \/ \E script \in {"init", "create", "migrate"} : Begin(r, script)
         \/ AdminTables(r) \/ AdminCreatesTables(r) \/ AdminInsert(r)
         \/ \E email \in Emails : AdminCheck(r, email)
         \/ MigrateRead(r) \/ MigrateAlter(r) \/ MigrateEnds(r) \/ Die(r)
  PROVE  TypeOK'
<1>1. ASSUME NEW script \in {"init", "create", "migrate"}, Begin(r, script)
      PROVE  TypeOK'
  <2>1. [script |-> script, step |-> IF script = "migrate" THEN "columns" ELSE "read",
         env |-> Unread, lines |-> Empty, todo |-> {}] \in Full
    BY ValueTypes DEF Full
  <2>2. runs' \in [Runs -> RunType]
    BY <1>1, <2>1 DEF Begin, TypeOK, RunType, Full
  <2> QED BY <1>1, <2>2 DEF Begin, TypeOK
<1>2. CASE AdminTables(r)
  <2>1. runs' \in [Runs -> RunType]
    BY <1>2, RunsAreFull, MoveTypes DEF AdminTables
  <2> QED BY <1>2, <2>1 DEF AdminTables, TypeOK
<1>3. CASE AdminCreatesTables(r)
  <2>1. runs' \in [Runs -> RunType]
    BY <1>3, RunsAreFull, MoveTypes DEF AdminCreatesTables
  <2>2. table' \in {{}} \cup {{"base"} \cup c : c \in SUBSET Targets}
    BY <1>3 DEF AdminCreatesTables, AllColumns, TypeOK
  <2> QED BY <1>3, <2>1, <2>2 DEF AdminCreatesTables, TypeOK
<1>4. CASE AdminInsert(r)
  <2>1. runs' \in [Runs -> RunType]
    BY <1>4, MoveTypes DEF AdminInsert
  <2>2. runs[r].email \in Emails
    BY <1>4 DEF AdminInsert, TypeOK, RunType, NoRun
  <2> QED BY <1>4, <2>1, <2>2 DEF AdminInsert, TypeOK
<1>5. ASSUME NEW email \in Emails, AdminCheck(r, email)
      PROVE  TypeOK'
  <2>1. CASE End(r)
    <3>1. runs' \in [Runs -> RunType]
      BY <2>1, MoveTypes
    <3> QED BY <1>5, <3>1 DEF AdminCheck, TypeOK
  <2>2. CASE runs' = [runs EXCEPT ![r] = [script |-> "create", step |-> "insert", email |-> email]]
    <3>1. runs' \in [Runs -> RunType]
      BY <2>2 DEF TypeOK, RunType
    <3> QED BY <1>5, <3>1 DEF AdminCheck, TypeOK
  <2> QED BY <1>5, <2>1, <2>2 DEF AdminCheck
<1>6. CASE MigrateRead(r)
  <2>1. runs[r] \in Full
    BY <1>6, RunsAreFull DEF MigrateRead
  <2>2. runs' = [runs EXCEPT ![r] = [runs[r] EXCEPT !.step = "alter", !.todo = Missing(table)]]
    BY <1>6 DEF MigrateRead
  <2>3. [runs[r] EXCEPT !.step = "alter", !.todo = Missing(table)] \in Full
    BY <2>1 DEF Full, Missing
  <2>4. runs' \in [Runs -> RunType]
    BY <2>2, <2>3 DEF TypeOK, RunType, Full
  <2> QED BY <1>6, <2>4 DEF MigrateRead, TypeOK
<1>7. CASE MigrateAlter(r)
  <2> DEFINE column == FirstOf(runs[r].todo)
  <2>1. runs[r] \in Full
    BY <1>7, RunsAreFull DEF MigrateAlter
  <2>2. column \in Targets
    BY DEF FirstOf, Targets
  <2>3. CASE table # {} /\ column \notin table
    <3>1. /\ table' = table \cup {column} /\ added' = Append(added, column)
          /\ runs' = [runs EXCEPT ![r] = [runs[r] EXCEPT !.todo = @ \ {column}]]
      BY <1>7, <2>3 DEF MigrateAlter
    <3>2. [runs[r] EXCEPT !.todo = @ \ {column}] \in Full
      BY <2>1 DEF Full
    <3>3. runs' \in [Runs -> RunType]
      BY <3>1, <3>2 DEF TypeOK, RunType, Full
    <3>4. table' \in {{}} \cup {{"base"} \cup c : c \in SUBSET Targets}
      <4>1. PICK c \in SUBSET Targets : table = {"base"} \cup c
        BY <2>3 DEF TypeOK
      <4>2. table' = {"base"} \cup (c \cup {column}) /\ c \cup {column} \in SUBSET Targets
        BY <2>2, <3>1, <4>1
      <4> QED BY <4>2
    <3>5. added' \in Seq(Targets)
      BY <2>2, <3>1 DEF TypeOK
    <3> QED BY <1>7, <3>3, <3>4, <3>5 DEF MigrateAlter, TypeOK
  <2>4. CASE ~(table # {} /\ column \notin table)
    <3>1. UNCHANGED <<table, added>> /\ End(r)
      BY <1>7, <2>4 DEF MigrateAlter
    <3>2. runs' \in [Runs -> RunType]
      BY <3>1, MoveTypes
    <3> QED BY <1>7, <3>1, <3>2 DEF MigrateAlter, TypeOK
  <2> QED BY <2>3, <2>4
<1>8. CASE MigrateEnds(r)
  <2>1. runs' \in [Runs -> RunType]
    BY <1>8, MoveTypes DEF MigrateEnds
  <2> QED BY <1>8, <2>1 DEF MigrateEnds, TypeOK
<1>9. CASE Die(r)
  <2>1. runs' \in [Runs -> RunType]
    BY <1>9, MoveTypes DEF Die
  <2>2. lost' \subseteq {"cut", "overlap", "edit", "note"}
    BY <1>9 DEF Die, TypeOK
  <2> QED BY <1>9, <2>1, <2>2 DEF Die, TypeOK
<1> QED BY <1>1, <1>2, <1>3, <1>4, <1>5, <1>6, <1>7, <1>8, <1>9

\* So do the service, the hand and the admin.
LEMMA ServiceTypes ==
  ASSUME TypeOK, Serve \/ Kill \/ Enrol \/ Edit
  PROVE  TypeOK'
<1>1. CASE Start
  BY <1>1, LineTypes DEF Start, TypeOK, EnvType, Variables
<1>2. CASE StartTables
  BY <1>2 DEF StartTables, TypeOK
<1>3. CASE StartCreatesTables
  <2>1. table' \in {{}} \cup {{"base"} \cup c : c \in SUBSET Targets}
    BY <1>3 DEF StartCreatesTables, AllColumns, TypeOK
  <2>2. service' \in [step : {"down", "tables", "tables_create", "up"}, jwt : Texts,
                      totp : Texts, after : SUBSET {"secrets", "columns"}]
    <3>1. Down \in [step : {"down", "tables", "tables_create", "up"}, jwt : Texts,
                    totp : Texts, after : SUBSET {"secrets", "columns"}]
      BY ValueTypes DEF Down
    <3> QED BY <1>3, <3>1 DEF StartCreatesTables, TypeOK
  <2> QED BY <1>3, <2>1, <2>2 DEF StartCreatesTables, TypeOK
<1>4. CASE Kill
  <2>1. kills' \in 0..MaxKills
    BY <1>4, BoundsAssumption DEF Kill, TypeOK
  <2>2. service' = Down
        /\ UNCHANGED <<file, minted, runs, table, admins, sealed, done, added, lost, edits>>
    BY <1>4 DEF Kill
  <2>3. Down \in [step : {"down", "tables", "tables_create", "up"}, jwt : Texts,
                  totp : Texts, after : SUBSET {"secrets", "columns"}]
    BY ValueTypes DEF Down
  <2> QED BY <2>1, <2>2, <2>3 DEF TypeOK
<1>5. CASE Enrol
  <2>1. sealed' \in Values
    BY <1>5, WrittenLine DEF Enrol, TypeOK
  <2> QED BY <1>5, <2>1 DEF Enrol, TypeOK
<1>6. CASE Edit
  <2>1. /\ edits' \in 0..MaxEdits /\ edits + 1 \in Texts
        /\ MaxSecrets + edits + 1 \in Texts
    BY <1>6, ValueTypes DEF Edit, TypeOK, Values, Texts
  <2>2. \A n \in Texts, noted \in BOOLEAN : [text |-> n, noted |-> noted /\ n > 0] \in LineType
    BY DEF LineType
  <2>3. file["totp"].text \in Texts
    BY LineTypes DEF TypeOK, EnvType, Variables
  <2>4. file' \in EnvType
    <3>1. PICK noted \in BOOLEAN :
            LET typed(n) == [text |-> n, noted |-> noted /\ n > 0]
                setting  == [file EXCEPT !["other"] = typed(edits + 1)]
            IN file' \in {setting,
                          [setting EXCEPT !["jwt"] = Absent],
                          [setting EXCEPT !["jwt"] = typed(MaxSecrets + edits + 1)],
                          [setting EXCEPT !["totp"] = typed(@.text)]}
      BY <1>6 DEF Edit
    <3> DEFINE typed(n) == [text |-> n, noted |-> noted /\ n > 0]
    <3>2. /\ typed(edits + 1) \in LineType /\ typed(MaxSecrets + edits + 1) \in LineType
          /\ typed(file["totp"].text) \in LineType /\ Absent \in LineType
      BY <2>1, <2>2, <2>3, ValueTypes
    <3>3. [file EXCEPT !["other"] = typed(edits + 1)]["totp"] = file["totp"]
      BY DEF TypeOK, EnvType, Variables
    <3> HIDE DEF typed
    <3>4. [file EXCEPT !["other"] = typed(edits + 1)] \in EnvType
      BY <3>2 DEF TypeOK, EnvType
    <3> QED BY <3>1, <3>2, <3>3, <3>4 DEF EnvType, typed
  <2>5. lost' \subseteq {"cut", "overlap", "edit", "note"}
    BY <1>6 DEF Edit, TypeOK
  <2> QED BY <1>6, <2>1, <2>4, <2>5 DEF Edit, TypeOK
<1> QED BY <1>1, <1>2, <1>3, <1>4, <1>5, <1>6 DEF Serve

\* Every step keeps the types.
LEMMA TypeStep == TypeOK /\ [Next]_vars => TypeOK'
<1>1. ASSUME TypeOK, UNCHANGED vars PROVE TypeOK'
  BY <1>1 DEF TypeOK, vars
<1> QED BY <1>1, EnsureTypes, ScriptTypes, ServiceTypes DEF Next, Step

-----------------------------------------------------------------------------
\* A table gets columns and loses none; a run that is not altering the table reports
\* nothing.
LEMMA OtherTables ==
  ASSUME TypeOK, TableInv, ColumnsReportedOnce,
         table \subseteq table', added' = added,
         "columns" \in done' => "columns" \in done \/ table' = AllColumns,
         "columns" \in service'.after => "columns" \in done \cup service.after,
         \A r \in Runs : runs'[r].step = "alter" =>
            \/ runs[r].step = "alter" /\ runs'[r].todo = runs[r].todo
            \/ runs'[r].todo = Targets \ table,
         table' \subseteq AllColumns
  PROVE  TableInv' /\ ColumnsReportedOnce'
<1>1. \A r \in Runs : runs'[r].step = "alter" => Targets \ runs'[r].todo \subseteq table'
  BY DEF TableInv
<1>2. \A i \in DOMAIN added' : added'[i] \in table'
  BY DEF TableInv
<1>3. "columns" \in done' \cup service'.after => table' = AllColumns
  BY DEF TableInv
<1>4. TableInv'
  BY <1>1, <1>2, <1>3 DEF TableInv
<1> QED BY <1>4 DEF ColumnsReportedOnce

\* The table of the database is changed by migrations and by those that create it.
LEMMA TableStep ==
  ASSUME TypeOK, TableInv, ColumnsReportedOnce, [Next]_vars
  PROVE  TableInv' /\ ColumnsReportedOnce'
<1>1. table' \subseteq AllColumns
  <2>1. table' \in {{}} \cup {{"base"} \cup c : c \in SUBSET Targets}
    BY TypeStep DEF TypeOK
  <2> QED BY <2>1 DEF AllColumns
<1>2. ASSUME NEW r \in Runs, MigrateAlter(r), table # {},
             FirstOf(runs[r].todo) \notin table
      PROVE  TableInv' /\ ColumnsReportedOnce'
  <2> DEFINE column == FirstOf(runs[r].todo)
  <2>1. /\ table' = table \cup {column} /\ added' = Append(added, column)
        /\ runs' = [runs EXCEPT ![r] = [runs[r] EXCEPT !.todo = @ \ {column}]]
        /\ done' = done /\ service' = service
    BY <1>2 DEF MigrateAlter
  <2>2. runs[r] \in Full
    BY <1>2, RunsAreFull DEF MigrateAlter
  <2> HIDE DEF column
  <2>3. \A q \in Runs : runs'[q].step = "alter" => Targets \ runs'[q].todo \subseteq table'
    BY <1>2, <2>1, <2>2 DEF TableInv, TypeOK, Full, MigrateAlter
  <2>4. /\ DOMAIN added' = 1..Len(added) + 1 /\ added'[Len(added) + 1] = column
        /\ \A i \in DOMAIN added : i \in DOMAIN added' /\ added'[i] = added[i]
        /\ DOMAIN added = 1..Len(added) /\ Len(added) \in Nat
    BY <2>1 DEF TypeOK
  <2>5. \A i \in DOMAIN added' : i \in DOMAIN added \/ i = Len(added) + 1
    BY <2>4
  <2>6. \A i \in DOMAIN added' : added'[i] \in table'
    BY <2>1, <2>4, <2>5 DEF TableInv
  <2>7. ColumnsReportedOnce'
    <3>1. \A i \in DOMAIN added : added[i] # column
      BY <1>2 DEF TableInv, column
    <3> QED BY <2>4, <2>5, <3>1 DEF ColumnsReportedOnce
  <2>8. "columns" \in done' \cup service'.after => table' = AllColumns
    BY <1>1, <2>1 DEF TableInv
  <2> QED BY <2>3, <2>6, <2>7, <2>8 DEF TableInv
<1>3. ASSUME NEW r \in Runs, MigrateEnds(r)
      PROVE  table' = AllColumns
  <2>1. Targets \subseteq table /\ table' = table
    BY <1>3 DEF MigrateEnds, TableInv
  <2> QED BY <2>1 DEF TypeOK, AllColumns, Targets
<1>4. ASSUME NEW r \in Runs,
             \/ \E script \in {"init", "create", "migrate"} : Begin(r, script)
             \/ EnsureRead(r) \/ Reread(r) \/ Truncate(r) \/ Write(r)
             \/ AdminTables(r) \/ AdminCreatesTables(r) \/ AdminInsert(r)
             \/ \E email \in Emails : AdminCheck(r, email)
             \/ MigrateRead(r) \/ MigrateEnds(r) \/ Die(r)
             \/ MigrateAlter(r) /\ UNCHANGED <<table, added>> /\ End(r)
      PROVE  TableInv' /\ ColumnsReportedOnce'
  <2>1. table \subseteq table' /\ added' = added /\ service' = service
    BY <1>4 DEF Begin, EnsureRead, Reread, Truncate, Write, AdminTables, AdminCreatesTables,
                AdminInsert, AdminCheck, MigrateRead, MigrateEnds, MigrateAlter, Die
  <2>2. "columns" \in done' => "columns" \in done \/ table' = AllColumns
    BY <1>3, <1>4 DEF Begin, EnsureRead, Reread, Truncate, Write, AdminTables,
                AdminCreatesTables, AdminInsert, AdminCheck, MigrateRead, MigrateAlter, Die
  <2>3. \A q \in Runs : runs'[q].step = "alter" =>
          \/ runs[q].step = "alter" /\ runs'[q].todo = runs[q].todo
          \/ runs'[q].todo = Targets \ table
    <3>1. \A q \in Runs \ {r} : runs'[q] = runs[q]
      BY <1>4 DEF Begin, EnsureRead, Reread, Truncate, Write, AdminTables, AdminCreatesTables,
                  AdminInsert, AdminCheck, MigrateRead, MigrateEnds, Die, Onward, Goto, End,
                  TypeOK
    <3>2. CASE MigrateRead(r)
      <4>1. runs[r] \in Full
        BY <3>2, RunsAreFull DEF MigrateRead
      <4>2. runs'[r].todo = Targets \ table
        BY <3>2, <4>1 DEF MigrateRead, Missing, TypeOK, Full
      <4> QED BY <3>1, <4>2
    <3>3. CASE End(r)
      BY <3>1, <3>3 DEF End, TypeOK, NoRun
    <3>4. CASE ~MigrateRead(r) /\ ~End(r)
      <4>1. runs'[r].step # "alter"
        <5>1. ASSUME NEW script \in {"init", "create", "migrate"}, Begin(r, script)
              PROVE  runs'[r].step # "alter"
          BY <5>1 DEF Begin, TypeOK
        <5>2. ASSUME NEW step \in {"tables", "tables_create", "check", "write"}, Goto(r, step),
                     runs[r] \in Full
              PROVE  runs'[r].step # "alter"
          BY <5>2 DEF Goto, TypeOK, Full
        <5>3. CASE EnsureRead(r)
          <6>1. runs[r] \in Full
            BY <5>3, RunsAreFull DEF EnsureRead
          <6>2. CASE Onward(r)
            BY <3>4, <5>2, <6>1, <6>2 DEF Onward
          <6>3. CASE runs' = [runs EXCEPT ![r].step = "reread",
                                          ![r].env = Generated(Parsed, minted)]
            BY <6>1, <6>3 DEF TypeOK, Full
          <6> QED BY <5>3, <6>2, <6>3 DEF EnsureRead
        <5>4. CASE Reread(r)
          BY <5>4, RunsAreFull DEF Reread, TypeOK, Full
        <5>5. CASE Truncate(r) \/ Write(r) \/ AdminTables(r) \/ AdminCreatesTables(r)
          <6>1. runs[r] \in Full
            BY <5>5, RunsAreFull DEF Truncate, Write, AdminTables, AdminCreatesTables
          <6> QED BY <3>4, <5>2, <5>5, <6>1
                  DEF Truncate, Write, AdminTables, AdminCreatesTables, Onward
        <5>6. ASSUME NEW email \in Emails, AdminCheck(r, email)
              PROVE  runs'[r].step # "alter"
          BY <3>4, <5>6 DEF AdminCheck, TypeOK
        <5> QED BY <1>4, <3>4, <5>1, <5>3, <5>4, <5>5, <5>6
                DEF AdminInsert, MigrateEnds, Die
      <4> QED BY <3>1, <4>1
    <3> QED BY <3>2, <3>3, <3>4
  <2> QED BY <1>1, <2>1, <2>2, <2>3, OtherTables
<1>5. ASSUME Serve \/ Kill \/ Enrol \/ Edit \/ UNCHANGED vars
      PROVE  TableInv' /\ ColumnsReportedOnce'
  <2>1. table \subseteq table' /\ added' = added /\ runs' = runs
    BY <1>5 DEF Serve, Start, StartTables, StartCreatesTables, Kill, Enrol, Edit, vars
  <2>2. "columns" \in done' => "columns" \in done
    BY <1>5 DEF Serve, Start, StartTables, StartCreatesTables, Kill, Enrol, Edit, vars
  <2>3. "columns" \in service'.after => "columns" \in done \cup service.after
    BY <1>5 DEF Serve, Start, StartTables, StartCreatesTables, Kill, Enrol, Edit, vars, Down,
                TypeOK
  <2> QED BY <1>1, <2>1, <2>2, <2>3, OtherTables
<1>6. ASSUME NEW r \in Runs, MigrateAlter(r)
      PROVE  \/ table # {} /\ FirstOf(runs[r].todo) \notin table
             \/ UNCHANGED <<table, added>> /\ End(r)
  BY <1>6 DEF MigrateAlter
<1> QED BY <1>2, <1>4, <1>5, <1>6 DEF Next, Step

-----------------------------------------------------------------------------
\* Each step of a run, as seen by the others.
LEMMA OthersStay ==
  ASSUME TypeOK, NEW r \in Runs,
         \/ \E script \in {"init", "create", "migrate"} : Begin(r, script)
         \/ Step(r) \/ Die(r)
  PROVE  /\ \A q \in Runs \ {r} : runs'[q] = runs[q]
         /\ service' = service /\ sealed' = sealed /\ edits' = edits
         /\ lost \subseteq lost'
  BY DEF Begin, Step, EnsureRead, Reread, Truncate, Write, AdminTables, AdminCreatesTables,
         AdminInsert, AdminCheck, MigrateRead, MigrateAlter, MigrateEnds, Die, Onward, Goto, End,
         TypeOK

\* The steps that neither write .env nor prepare to.
LEMMA QuietEnv ==
  ASSUME EnvInv, UNCHANGED <<file, sealed, edits, service, lost>>,
         "secrets" \in done' <=> "secrets" \in done,
         \A q \in Runs : Ensuring(q)' => Ensuring(q) /\ runs'[q] = runs[q],
         \A q \in Runs : runs[q].step = "write" => runs'[q] = runs[q]
  PROVE  EnvInv'
<1> SUFFICES ASSUME Alone PROVE EnvInv'
  BY DEF EnvInv, Alone
<1>1. \A q \in Runs : Ensuring(q)' => WriterInv(q) /\ Ensuring(q) /\ runs'[q] = runs[q]
  BY DEF EnvInv
<1>2. \A text : KeyGood(text)' <=> KeyGood(text)
  BY DEF KeyGood
<1>3. \A q \in Runs : Ensuring(q)' => Merged(q)' = Merged(q)
  BY <1>1 DEF Merged
<1>4. \A q \in Runs : Ensuring(q)' => WriterInv(q)'
  BY <1>1, <1>2, <1>3 DEF WriterInv, HandKept, KeyGood
<1>5. ~Writing' => FileInv'
  BY <1>2 DEF EnvInv, Writing, FileInv, KeyGood
<1>6. \A r, q \in Runs : Ensuring(r)' /\ Ensuring(q)' => r = q
  BY <1>1 DEF EnvInv
<1>7. ServiceInv'
  BY DEF EnvInv, ServiceInv
<1> QED BY <1>4, <1>5, <1>6, <1>7 DEF EnvInv

\* The beginning, the account, the migration, and a death before the writing.
LEMMA ScriptEnv ==
  ASSUME TypeOK, EnvInv, NEW r \in Runs,
         \/ \E script \in {"init", "create", "migrate"} : Begin(r, script)
         \/ AdminTables(r) \/ AdminCreatesTables(r) \/ AdminInsert(r)
         \/ \E email \in Emails : AdminCheck(r, email)
         \/ MigrateRead(r) \/ MigrateAlter(r) \/ MigrateEnds(r)
         \/ Die(r)
  PROVE  EnvInv'
<1>1. /\ \A q \in Runs \ {r} : runs'[q] = runs[q]
      /\ service' = service /\ sealed' = sealed /\ edits' = edits
  BY OthersStay DEF Step
<1>2. CASE Die(r) /\ runs[r].step = "write"
  BY <1>2 DEF Die, EnvInv, Alone
<1>3. CASE ~(Die(r) /\ runs[r].step = "write")
  <2>1. UNCHANGED <<file, sealed, edits, service>>
        /\ ("secrets" \in done' <=> "secrets" \in done)
    BY <1>1 DEF Begin, AdminTables, AdminCreatesTables, AdminInsert, AdminCheck, MigrateRead,
                MigrateAlter, MigrateEnds, Die
  <2>2. runs[r].step # "write"
    BY <1>3 DEF Begin, AdminTables, AdminCreatesTables, AdminInsert, AdminCheck, MigrateRead,
                MigrateAlter, MigrateEnds, NoRun
  <2>3. lost' = lost
    <3>1. CASE Die(r)
      BY <2>2, <3>1 DEF Die, TypeOK
    <3> QED BY <3>1 DEF Begin, AdminTables, AdminCreatesTables, AdminInsert, AdminCheck,
                MigrateRead, MigrateAlter, MigrateEnds
  <2>4. runs'[r].step \notin {"reread", "truncate", "write"}
    <3>1. ASSUME End(r) PROVE runs'[r].step \notin {"reread", "truncate", "write"}
      BY <3>1 DEF End, TypeOK, NoRun
    <3>2. ASSUME NEW step \in {"tables_create", "check"}, Goto(r, step), runs[r] \in Full
          PROVE  runs'[r].step \notin {"reread", "truncate", "write"}
      BY <3>2 DEF Goto, TypeOK, Full
    <3>3. ASSUME NEW script \in {"init", "create", "migrate"}, Begin(r, script)
          PROVE  runs'[r].step \notin {"reread", "truncate", "write"}
      BY <3>3 DEF Begin, TypeOK
    <3>4. CASE AdminTables(r) \/ AdminCreatesTables(r)
      <4>1. runs[r] \in Full
        BY <3>4, RunsAreFull DEF AdminTables, AdminCreatesTables
      <4> QED BY <3>1, <3>2, <3>4, <4>1 DEF AdminTables, AdminCreatesTables
    <3>5. ASSUME NEW email \in Emails, AdminCheck(r, email)
          PROVE  runs'[r].step \notin {"reread", "truncate", "write"}
      BY <3>1, <3>5 DEF AdminCheck, TypeOK
    <3>6. CASE MigrateRead(r) \/ MigrateAlter(r)
      <4>1. runs[r] \in Full /\ runs[r].step \in {"columns", "alter"}
        BY <3>6, RunsAreFull DEF MigrateRead, MigrateAlter
      <4> QED BY <3>1, <3>6, <4>1 DEF MigrateRead, MigrateAlter, TypeOK, Full
    <3> QED BY <3>1, <3>3, <3>4, <3>5, <3>6 DEF AdminInsert, MigrateEnds, Die
  <2>5. \A q \in Runs : Ensuring(q)' => Ensuring(q) /\ runs'[q] = runs[q]
    BY <1>1, <2>4 DEF Ensuring
  <2>6. \A q \in Runs : runs[q].step = "write" => runs'[q] = runs[q]
    BY <1>1, <2>2
  <2> QED BY <2>1, <2>3, <2>5, <2>6, QuietEnv
<1> QED BY <1>2, <1>3

\* A run finds the secrets, or generates those that are missing.
LEMMA ReadEnv ==
  ASSUME TypeOK, EnvInv, NEW r \in Runs, EnsureRead(r)
  PROVE  EnvInv'
<1> SUFFICES ASSUME Alone' PROVE EnvInv'
  BY DEF EnvInv
<1>1. /\ \A q \in Runs \ {r} : runs'[q] = runs[q]
      /\ service' = service /\ sealed' = sealed /\ edits' = edits /\ file' = file
      /\ lost \subseteq lost'
  BY OthersStay DEF Step, EnsureRead
<1>2. runs[r] \in Full /\ runs[r].step = "read"
  BY RunsAreFull DEF EnsureRead
<1>3. Alone
  BY <1>1 DEF Alone
<1>4. ServiceInv' /\ (\A text : KeyGood(text)' <=> KeyGood(text))
  BY <1>1, <1>3 DEF EnvInv, ServiceInv, KeyGood
<1>5. CASE \A v \in Secrets : file[v].text # 0
  <2>1. Onward(r) /\ done' = done \cup {"secrets"} /\ lost' = lost
    BY <1>5 DEF EnsureRead
  <2>2. runs'[r].step \notin {"reread", "truncate", "write"}
    BY <1>2, <2>1 DEF Onward, Goto, End, TypeOK, Full, NoRun
  <2>3. \A q \in Runs : Ensuring(q)' => Ensuring(q) /\ runs'[q] = runs[q] /\ q # r
    BY <1>1, <2>2 DEF Ensuring
  <2>4. \A q \in Runs : Ensuring(q) => runs[q].step # "write" /\ ~(lost \subseteq {"note"})
    <3>1. ASSUME NEW q \in Runs, Ensuring(q), runs[q].step = "write" PROVE FALSE
      <4>1. file = Empty
        BY <1>3, <3>1 DEF EnvInv, WriterInv
      <4> QED BY <1>5, <4>1 DEF Empty, Absent, Quoted, Secrets, Variables
    <3>2. ASSUME NEW q \in Runs, Ensuring(q), lost \subseteq {"note"} PROVE FALSE
      BY <1>3, <1>5, <3>2 DEF EnvInv, WriterInv
    <3> QED BY <3>1, <3>2
  <2>5. ~Writing
    BY <2>4 DEF Writing, Ensuring
  <2>6. FileInv
    BY <1>3, <2>5 DEF EnvInv
  <2>7. FileInv'
    BY <1>1, <1>4, <1>5, <2>1, <2>6 DEF FileInv
  <2>8. \A q \in Runs : Ensuring(q)' => WriterInv(q)'
    <3> SUFFICES ASSUME NEW q \in Runs, Ensuring(q)' PROVE WriterInv(q)'
      OBVIOUS
    <3>1. WriterInv(q) /\ runs[q].step # "write" /\ runs'[q] = runs[q] /\ ~(lost \subseteq {"note"})
      BY <1>3, <2>3, <2>4 DEF EnvInv
    <3> QED BY <1>1, <2>1, <3>1 DEF WriterInv
  <2>9. \A p, q \in Runs : Ensuring(p)' /\ Ensuring(q)' => p = q
    BY <1>3, <2>3 DEF EnvInv
  <2> QED BY <1>4, <2>7, <2>8, <2>9 DEF EnvInv
<1>6. CASE ~ \A v \in Secrets : file[v].text # 0
  <2> DEFINE env == Generated(Parsed, minted)
  <2>1. /\ done' = done /\ minted + 2 <= MaxSecrets
        /\ runs' = [runs EXCEPT ![r].step = "reread", ![r].env = env]
        /\ \A q \in Runs : ~Ensuring(q)
    BY <1>6 DEF EnsureRead, Alone
  <2>2. runs'[r].step = "reread" /\ runs'[r].env = env
    BY <1>2, <2>1 DEF TypeOK, Full
  <2>3. ~Writing /\ FileInv
    BY <1>3, <2>1 DEF EnvInv, Writing, Ensuring
  <2>4. lost' \subseteq {"note"} =>
          "secrets" \notin done' /\ \E v \in Secrets : file'[v].text = 0
    BY <1>1, <1>6, <2>1, <2>3 DEF FileInv
  <2>5. /\ \A v \in Secrets : env[v] # 0
        /\ file["totp"].text # 0 => KeyOf(env["totp"]) = KeyOf(file["totp"].text)
        /\ env["other"] = Read(file["other"])
    <3>1. minted \in Nat /\ minted + 1 # 0 /\ minted + 2 # 0
      BY ValueTypes DEF TypeOK
    <3>2. \A v \in Variables : file[v] \in LineType
      BY DEF TypeOK, EnvType
    <3>3. \A v \in Variables : /\ Parsed[v] = Read(file[v])
                               /\ Parsed[v] = 0 <=> file[v].text = 0
                               /\ KeyOf(Parsed[v]) = KeyOf(file[v].text)
      BY <3>2, LineTypes DEF Parsed
    <3>4. /\ env["jwt"] = IF Parsed["jwt"] = 0 THEN minted + 1 ELSE Parsed["jwt"]
          /\ env["totp"] = IF Parsed["totp"] = 0 THEN minted + 2 ELSE Parsed["totp"]
          /\ env["other"] = Parsed["other"]
      BY DEF Generated, Parsed, Variables
    <3> HIDE DEF env
    <3> QED BY <3>1, <3>3, <3>4 DEF Variables, Secrets
  <2> HIDE DEF env
  <2>6. WriterInv(r)'
    <3>1. HandKept(r)'
      BY <1>1, <2>2, <2>5 DEF HandKept
    <3> QED BY <1>1, <2>2, <2>4, <2>5, <3>1 DEF WriterInv
  <2>7. \A q \in Runs \ {r} : ~Ensuring(q)'
    BY <1>1, <2>1 DEF Ensuring
  <2>8. FileInv'
    BY <1>1, <1>4, <2>1, <2>3 DEF FileInv
  <2> QED BY <1>4, <2>6, <2>7, <2>8 DEF EnvInv
<1> QED BY <1>5, <1>6

\* The only run that is to write reads the lines again, truncates and writes.
LEMMA WriteEnv ==
  ASSUME TypeOK, EnvInv, NEW r \in Runs, Reread(r) \/ Truncate(r) \/ Write(r)
  PROVE  EnvInv'
<1> SUFFICES ASSUME Alone' PROVE EnvInv'
  BY DEF EnvInv
<1>1. /\ \A q \in Runs \ {r} : runs'[q] = runs[q]
      /\ service' = service /\ sealed' = sealed /\ edits' = edits /\ lost \subseteq lost'
  BY OthersStay DEF Step, Reread, Truncate, Write
<1>2. Alone
  BY <1>1 DEF Alone
<1>3. runs[r] \in Full /\ Ensuring(r) /\ WriterInv(r)
  BY <1>2, RunsAreFull DEF Reread, Truncate, Write, Ensuring, EnvInv
<1>4. \A q \in Runs \ {r} : ~Ensuring(q) /\ ~Ensuring(q)'
  <2>1. \A q \in Runs \ {r} : ~Ensuring(q)
    BY <1>2, <1>3 DEF EnvInv
  <2> QED BY <1>1, <2>1 DEF Ensuring
<1>5. ServiceInv' /\ (\A text : KeyGood(text)' <=> KeyGood(text))
  BY <1>1, <1>2 DEF EnvInv, ServiceInv, KeyGood
<1>6. runs[r].step # "write" => FileInv
  BY <1>2, <1>4 DEF EnvInv, Writing, Ensuring
<1>7. CASE Reread(r)
  <2>1. runs'[r] = [runs[r] EXCEPT !.step = "truncate", !.lines = file]
        /\ UNCHANGED <<file, done, lost>> /\ runs[r].step = "reread"
    BY <1>7 DEF Reread, TypeOK
  <2>2. runs'[r].step = "truncate" /\ runs'[r].lines = file /\ runs'[r].env = runs[r].env
    BY <1>3, <2>1 DEF Full
  <2>3. WriterInv(r)'
    BY <1>3, <2>1, <2>2 DEF WriterInv, HandKept
  <2>4. FileInv'
    BY <1>1, <1>5, <1>6, <2>1 DEF FileInv
  <2> QED BY <1>4, <1>5, <2>3, <2>4 DEF EnvInv
<1>8. CASE Truncate(r)
  <2>1. /\ runs'[r] = [runs[r] EXCEPT !.step = "write"] /\ file' = Empty
        /\ UNCHANGED <<done, lost>> /\ runs[r].step = "truncate"
    BY <1>8 DEF Truncate, Goto, TypeOK
  <2>2. /\ runs'[r].step = "write" /\ runs'[r].lines = runs[r].lines
        /\ runs'[r].env = runs[r].env
    BY <1>3, <2>1 DEF Full
  <2>3. FileInv
    BY <1>6, <2>1
  <2>4. KeyGood(runs[r].env["totp"])
    <3>1. CASE file["totp"].text # 0
      BY <1>3, <2>1, <2>3, <3>1 DEF WriterInv, FileInv, KeyGood
    <3>2. CASE file["totp"].text = 0
      <4>1. KeyOf(file["totp"].text) = 0
        BY <3>2 DEF KeyOf
      <4>2. service.totp # 0 => KeyOf(service.totp) # 0
        <5>1. service.totp \in Int
          BY DEF TypeOK, Texts
        <5> QED BY <5>1 DEF KeyOf
      <4> QED BY <2>3, <4>1, <4>2 DEF FileInv, KeyGood
    <3> QED BY <3>1, <3>2
  <2>5. lost = {} => HandKept(r)'
    <3> SUFFICES ASSUME lost = {}, runs[r].env["other"] >= 0
                 PROVE  Merged(r)'["other"].text = edits
      BY <1>1, <2>2 DEF HandKept
    <3>1. /\ runs[r].env["other"] = Read(file["other"]) /\ runs[r].lines["other"] = file["other"]
          /\ file["other"].text = edits
      BY <1>3, <2>1, <2>3 DEF WriterInv, HandKept, FileInv
    <3>2. file["other"] \in LineType
      BY DEF TypeOK, EnvType, Variables
    <3>3. Read(file["other"]) = file["other"].text
      BY <3>1, <3>2, LineTypes
    <3>4. Merged(r)'["other"] = IF runs[r].env["other"] # 0
                                  THEN Quoted(runs[r].env["other"])
                                  ELSE runs[r].lines["other"]
      BY <2>2 DEF Merged, Variables
    <3> QED BY <3>1, <3>3, <3>4 DEF Quoted
  <2>6. WriterInv(r)'
    <3>1. \E v \in Secrets : file'[v].text = 0
      BY <2>1 DEF Empty, Absent, Quoted, Secrets, Variables
    <3> QED BY <1>3, <1>5, <2>1, <2>2, <2>4, <2>5, <3>1 DEF WriterInv
  <2>7. Writing'
    BY <2>2 DEF Writing
  <2> QED BY <1>4, <1>5, <2>6, <2>7 DEF EnvInv
<1>9. CASE Write(r)
  <2>1. /\ file' = Merged(r) /\ done' = done \cup {"secrets"} /\ Onward(r)
        /\ runs[r].step = "write"
        /\ lost' = lost \cup (IF \E v \in Variables : runs[r].env[v] < 0 THEN {"note"} ELSE {})
    BY <1>9 DEF Write
  <2>2. \A v \in Secrets : file'[v].text = runs[r].env[v] /\ file'[v].text # 0
    BY <1>3, <2>1 DEF Merged, Quoted, WriterInv, Secrets, Variables
  <2>3. KeyGood(file'["totp"].text)
    BY <1>3, <2>1, <2>2 DEF WriterInv, Secrets
  <2>4. lost' = {} => file'["other"].text = edits
    <3> SUFFICES ASSUME lost' = {} PROVE file'["other"].text = edits
      OBVIOUS
    <3>1. lost = {} /\ ~(runs[r].env["other"] < 0)
      BY <2>1 DEF Variables
    <3>2. runs[r].env["other"] \in Int
      BY <1>3 DEF Full, Texts, Variables
    <3>3. runs[r].env["other"] >= 0
      BY <3>1, <3>2
    <3> QED BY <1>3, <2>1, <3>1, <3>3 DEF WriterInv, HandKept
  <2>5. FileInv'
    BY <1>1, <1>5, <2>2, <2>3, <2>4 DEF FileInv
  <2>6. ~Ensuring(r)'
    BY <1>3, <2>1 DEF Onward, Goto, End, TypeOK, Full, NoRun, Ensuring
  <2> QED BY <1>4, <1>5, <2>5, <2>6 DEF EnvInv
<1> QED BY <1>7, <1>8, <1>9

\* The service reads .env when it starts; the hand writes in it.
LEMMA ServiceEnv ==
  ASSUME TypeOK, EnvInv, Serve \/ Kill \/ Enrol \/ Edit \/ UNCHANGED vars
  PROVE  EnvInv'
<1> SUFFICES ASSUME Alone' PROVE EnvInv'
  BY DEF EnvInv
<1>1. /\ runs' = runs /\ (~Edit => lost' = lost)
      /\ lost \subseteq lost'
  BY DEF Serve, Start, StartTables, StartCreatesTables, Kill, Enrol, Edit, vars
<1>2. Alone
  BY <1>1 DEF Alone
<1>3. \A q \in Runs : (Ensuring(q)' <=> Ensuring(q)) /\ Merged(q)' = Merged(q)
  BY <1>1 DEF Ensuring, Merged
<1>4. Writing' <=> Writing
  BY <1>1 DEF Writing
<1>5. \A r, q \in Runs : Ensuring(r)' /\ Ensuring(q)' => r = q
  BY <1>2, <1>3 DEF EnvInv
<1>6. ASSUME file' = file, done' = done, lost' = lost, edits' = edits,
             \A text : KeyGood(text) => KeyGood(text)', ServiceInv'
      PROVE  EnvInv'
  <2>1. \A q \in Runs : Ensuring(q)' => WriterInv(q)'
    <3> SUFFICES ASSUME NEW q \in Runs, Ensuring(q) PROVE WriterInv(q)'
      BY <1>3
    <3>1. WriterInv(q)
      BY <1>2 DEF EnvInv
    <3>2. HandKept(q)' <=> HandKept(q)
      BY <1>1, <1>3, <1>6 DEF HandKept
    <3>3. KeyGood(runs[q].env["totp"]) => KeyGood(runs[q].env["totp"])'
      BY <1>1, <1>6 DEF KeyGood
    <3> QED BY <1>1, <1>6, <3>1, <3>2, <3>3 DEF WriterInv
  <2>2. ~Writing' => FileInv'
    <3>1. KeyGood(file["totp"].text) => KeyGood(file["totp"].text)'
      BY <1>6 DEF KeyGood
    <3> QED BY <1>2, <1>4, <1>6, <3>1 DEF EnvInv, FileInv
  <2> QED BY <1>5, <1>6, <2>1, <2>2 DEF EnvInv
<1>7. CASE Start
  <2>1. /\ service' = [step |-> "tables", jwt |-> file["jwt"].text, totp |-> file["totp"].text,
                       after |-> done]
        /\ UNCHANGED <<file, done, lost, sealed, edits>>
    BY <1>7 DEF Start
  <2>2. CASE Writing
    <3>1. PICK r \in Runs : runs[r].step = "write"
      BY <2>2 DEF Writing
    <3>2. WriterInv(r)
      BY <1>2, <3>1 DEF EnvInv, Ensuring
    <3>3. file["totp"].text = 0 /\ (lost \subseteq {"note"} => "secrets" \notin done)
      BY <3>1, <3>2 DEF WriterInv, Empty, Absent, Quoted, Variables
    <3>4. \A text : KeyGood(text) => KeyGood(text)'
      BY <2>1, <3>3 DEF KeyGood
    <3>5. ServiceInv'
      BY <2>1, <3>3 DEF ServiceInv
    <3> QED BY <1>6, <2>1, <3>4, <3>5
  <2>3. CASE ~Writing
    <3>1. FileInv
      BY <1>2, <2>3 DEF EnvInv
    <3>2. FileInv' /\ ServiceInv'
      BY <2>1, <3>1 DEF FileInv, KeyGood, ServiceInv, Secrets
    <3>3. \A q \in Runs : Ensuring(q)' => WriterInv(q)'
      <4> SUFFICES ASSUME NEW q \in Runs, Ensuring(q) PROVE WriterInv(q)'
        BY <1>3
      <4>1. WriterInv(q) /\ runs[q].step # "write"
        BY <1>2, <2>3 DEF EnvInv, Writing
      <4> QED BY <1>1, <2>1, <4>1 DEF WriterInv, HandKept
    <3> QED BY <1>5, <3>2, <3>3 DEF EnvInv
  <2> QED BY <2>2, <2>3
<1>8. CASE StartTables \/ StartCreatesTables \/ Kill
  <2>1. UNCHANGED <<file, done, lost, sealed, edits>>
    BY <1>8 DEF StartTables, StartCreatesTables, Kill
  <2>2. \/ service' = Down
        \/ service'.jwt = service.jwt /\ service'.totp = service.totp
           /\ service'.after = service.after
    BY <1>8 DEF StartTables, StartCreatesTables, Kill, TypeOK
  <2>3. \A text : KeyGood(text) => KeyGood(text)'
    BY <2>1, <2>2 DEF KeyGood, Down
  <2>4. ServiceInv'
    BY <1>2, <2>1, <2>2 DEF EnvInv, ServiceInv, Down
  <2> QED BY <1>6, <2>1, <2>3, <2>4
<1>9. CASE Enrol
  <2>1. /\ sealed' = KeyOf(service.totp) /\ service.totp # 0
        /\ UNCHANGED <<file, done, lost, edits, service>>
    BY <1>9 DEF Enrol, Ready
  <2>2. \A text : KeyGood(text) => KeyGood(text)'
    BY <2>1 DEF KeyGood
  <2>3. ServiceInv'
    BY <1>2, <2>1 DEF EnvInv, ServiceInv
  <2> QED BY <1>6, <2>1, <2>2, <2>3
<1>10. CASE Edit
  <2>1. ~Writing /\ FileInv
    BY <1>2, <1>10 DEF Edit, EnvInv
  <2>2. /\ file'["other"].text = edits' /\ file'["totp"].text = file["totp"].text
        /\ file'["jwt"] = Absent \/ (file["jwt"].text # 0 => file'["jwt"].text # 0)
        /\ done' = IF file'["jwt"] = Absent THEN done \ {"secrets"} ELSE done
        /\ UNCHANGED <<service, sealed>>
    <3>1. PICK noted \in BOOLEAN :
            LET typed(n) == [text |-> n, noted |-> noted /\ n > 0]
                setting  == [file EXCEPT !["other"] = typed(edits + 1)]
            IN file' \in {setting,
                          [setting EXCEPT !["jwt"] = Absent],
                          [setting EXCEPT !["jwt"] = typed(MaxSecrets + edits + 1)],
                          [setting EXCEPT !["totp"] = typed(@.text)]}
      BY <1>10 DEF Edit
    <3>2. MaxSecrets + edits + 1 # 0
      BY ValueTypes DEF TypeOK
    <3>3. /\ file'["other"].text = edits + 1 /\ file'["totp"].text = file["totp"].text
          /\ \/ file'["jwt"] = Absent \/ file'["jwt"] = file["jwt"]
             \/ file'["jwt"].text = MaxSecrets + edits + 1
      BY <3>1 DEF TypeOK, EnvType, Variables
    <3>4. UNCHANGED <<service, sealed>> /\ edits' = edits + 1
          /\ done' = IF file'["jwt"] = Absent THEN done \ {"secrets"} ELSE done
      BY <1>10 DEF Edit
    <3> QED BY <3>2, <3>3, <3>4
  <2>3. FileInv'
    <3>1. KeyGood(file["totp"].text)'
      BY <2>1, <2>2 DEF FileInv, KeyGood
    <3>2. lost' \subseteq {"note"} /\ "secrets" \in done' => \A v \in Secrets : file'[v].text # 0
      BY <1>1, <2>1, <2>2 DEF FileInv, Secrets
    <3> QED BY <2>2, <3>1, <3>2 DEF FileInv
  <2>4. \A q \in Runs : Ensuring(q)' => WriterInv(q)'
    <3> SUFFICES ASSUME NEW q \in Runs, Ensuring(q) PROVE WriterInv(q)'
      BY <1>3
    <3>1. WriterInv(q) /\ runs[q].step # "write"
      BY <1>2, <2>1 DEF EnvInv, Writing
    <3>2. "edit" \in lost'
      BY <1>10 DEF Edit
    <3> QED BY <1>1, <2>2, <3>1, <3>2 DEF WriterInv
  <2>5. ServiceInv'
    BY <1>1, <1>2, <2>2 DEF EnvInv, ServiceInv
  <2> QED BY <1>5, <2>3, <2>4, <2>5 DEF EnvInv
<1>11. CASE UNCHANGED vars
  <2>1. UNCHANGED <<file, done, lost, sealed, edits, service>>
    BY <1>11 DEF vars
  <2>2. (\A text : KeyGood(text) => KeyGood(text)') /\ ServiceInv'
    BY <1>2, <2>1 DEF KeyGood, EnvInv, ServiceInv
  <2> QED BY <1>6, <2>1, <2>2
<1> QED BY <1>7, <1>8, <1>9, <1>10, <1>11 DEF Serve

-----------------------------------------------------------------------------
\* Every step keeps the invariant.
LEMMA InvStep == Inv /\ [Next]_vars => Inv'
  BY TypeStep, TableStep, ScriptEnv, ReadEnv, WriteEnv, ServiceEnv DEF Inv, Next, Step

\* It holds of a new machine, and of one of the phase before.
LEMMA InitInv == Init => Inv
<1> SUFFICES ASSUME Init PROVE Inv
  OBVIOUS
<1>1. TypeOK
  <2>1. file \in EnvType /\ minted \in 0..MaxSecrets
    <3>1. 1 \in Texts /\ 1 \in 0..MaxSecrets
      BY ValueTypes
    <3>2. [Empty EXCEPT !["jwt"] = Quoted(1)] \in EnvType
      BY <3>1, WrittenLine, ValueTypes DEF EnvType
    <3> QED BY <3>1, <3>2, ValueTypes DEF Init
  <2>2. runs \in [Runs -> RunType]
    BY DEF Init, RunType
  <2>3. table \in {{}} \cup {{"base"} \cup c : c \in SUBSET Targets}
    <3>1. {"base"} = {"base"} \cup {} /\ {} \in SUBSET Targets
      OBVIOUS
    <3> QED BY <3>1 DEF Init
  <2>4. Down \in [step : {"down", "tables", "tables_create", "up"}, jwt : Texts,
                  totp : Texts, after : SUBSET {"secrets", "columns"}]
    BY ValueTypes DEF Down
  <2>5. /\ admins \subseteq Emails /\ sealed \in Values
        /\ done \subseteq {"secrets", "columns"} /\ added \in Seq(Targets)
        /\ lost \subseteq {"cut", "overlap", "edit", "note"} /\ edits \in 0..MaxEdits /\ kills \in 0..MaxKills
    <3>1. admins \subseteq Emails /\ sealed \in Values
      BY ValueTypes DEF Init
    <3>2. edits \in 0..MaxEdits /\ kills \in 0..MaxKills
      BY BoundsAssumption DEF Init
    <3>3. added \in Seq(Targets) /\ done \subseteq {"secrets", "columns"}
      BY DEF Init
    <3>4. lost \subseteq {"cut", "overlap", "edit", "note"}
      BY DEF Init
    <3> QED BY <3>1, <3>2, <3>3, <3>4
  <2>6. service = Down
    BY DEF Init
  <2> QED BY <2>1, <2>2, <2>3, <2>4, <2>5, <2>6 DEF TypeOK
<1>2. TableInv /\ ColumnsReportedOnce
  BY DEF Init, TableInv, ColumnsReportedOnce, NoRun, Down
<1>3. EnvInv
  <2>1. file["other"].text = 0
    BY DEF Init, Empty, Absent, Quoted, Variables
  <2>2. FileInv /\ ServiceInv
    BY <2>1 DEF Init, FileInv, ServiceInv, KeyGood, Down
  <2>3. \A r \in Runs : ~Ensuring(r)
    BY DEF Init, Ensuring, NoRun
  <2> QED BY <2>2, <2>3 DEF EnvInv
<1> QED BY <1>1, <1>2, <1>3 DEF Inv

\* It is an invariant.
LEMMA InvHolds == Spec => []Inv
  BY InitInv, InvStep, PTL DEF Spec

\* The scripts, .env, the table and the service keep their types.
THEOREM DeploymentTypes == Spec => []TypeOK
<1>1. Inv => TypeOK
  BY DEF Inv
<1> QED BY <1>1, InvHolds, PTL

\* The key under which a TOTP secret was encrypted stays in .env, whatever is edited
\* meanwhile and whatever notes the lines have, unless a run was cut while it wrote or
\* two that write overlapped; then it need not (KeyNeverReplaced).
THEOREM KeysAlwaysSurvive == Spec => []KeysSurvive
<1>1. Inv => KeysSurvive
  BY DEF Inv, EnvInv, Alone, FileInv, KeyGood, KeysSurvive
<1> QED BY <1>1, InvHolds, PTL

\* A migration that reports success has left all the columns, for any number of
\* migrations that overlap or die.
THEOREM MigrationsStick == Spec => []MigrationSticks
<1>1. Inv => MigrationSticks
  BY DEF Inv, TableInv, MigrationSticks
<1> QED BY <1>1, InvHolds, PTL

\* No column is reported by two of them.
THEOREM ReportedOnce == Spec => []ColumnsReportedOnce
<1>1. Inv => ColumnsReportedOnce
  BY DEF Inv
<1> QED BY <1>1, InvHolds, PTL

\* A service started after the migration and the secrets is ready.
THEOREM DeploymentsHold == Spec => []DeploymentHolds
<1>1. Inv => DeploymentHolds
  <2>1. lost \subseteq {"note"} => Alone
    BY DEF Alone
  <2> QED BY <2>1 DEF Inv, TableInv, EnvInv, ServiceInv, DeploymentHolds, Ready
<1> QED BY <1>1, InvHolds, PTL
=============================================================================
