---------------------------- MODULE ServicesProofs ----------------------------
(***************************************************************************)
(* Proofs about what surrounds the queue: the migrator, the Stripe set-up, *)
(* the submission throttle and the checkout, each on its own.              *)
(***************************************************************************)
EXTENDS Migrator, Provisioning, SubmissionThrottle, Checkout, FiniteSetTheorems, TLAPS

-------------------------------------------------------------------------------
(***************************************************************************)
(* Whatever runs of the migrator overlap, lose the lock, time out or die,  *)
(* the schema stays the beginning of one release and the ledger says so.   *)
(* The advisory lock is not used: what carries the proof is that a file's  *)
(* effects and its row are one commit, and the primary key of the ledger.  *)
(***************************************************************************)

USE MigratorAssumption DEF MigratorAssumption

InTransaction == {"applying", "recording", "committing"}

SchemaOK ==
  /\ schema \in Seq([name : Nat, checksum : STRING])
  /\ \E o \in Migrators : IsPrefix(schema, Release[o])
  /\ ledger = ToSet(schema)

\* What a run has passed is in the ledger, and what it read there still is.
PlaceOK(m) ==
  /\ step[m] \in Steps
  /\ file[m] \in 0 .. Len(Release[m]) + 1
  /\ known[m] \subseteq ledger
  /\ \A i \in 1 .. Len(Release[m]) : i < file[m] => Release[m][i] \in ledger
  /\ step[m] \in {"files"} \cup InTransaction => file[m] >= 1
  /\ step[m] \in InTransaction => file[m] <= Len(Release[m])
  /\ step[m] = "committing" => m \in inserted
  /\ step[m] = "applied" => file[m] > Len(Release[m])

\* An open transaction with a row owns its name.
RowOK(m) ==
  /\ step[m] \in {"committing", "unlocking", "failed"}
  /\ file[m] \in 1 .. Len(Release[m])
  /\ \A row \in ledger : row.name # Current(m).name
  /\ \A o \in inserted : Current(o).name = Current(m).name => o = m

MigratorIInv ==
  /\ SchemaOK
  /\ step \in [Migrators -> Steps] /\ file \in [Migrators -> Nat]
  /\ known \in [Migrators -> SUBSET ledger]
  /\ inserted \subseteq Migrators
  /\ \A m \in Migrators : PlaceOK(m)
  /\ \A m \in inserted : RowOK(m)

------------------------------------------------------------------------------
LEMMA ElementOfSeq ==
  ASSUME NEW S, NEW s \in Seq(S)
  PROVE  \A i \in 1 .. Len(s) : s[i] \in S
OBVIOUS

LEMMA ReleaseFacts ==
  ASSUME NEW m \in Migrators
  PROVE  /\ Len(Release[m]) \in Nat
         /\ \A i \in 1 .. Len(Release[m]) :
              /\ Release[m][i] \in [name : Nat, checksum : STRING]
              /\ Release[m][i].name = i
<1>1. Release[m] \in Seq([name : Nat, checksum : STRING])
  OBVIOUS
<1>2. \A i \in 1 .. Len(Release[m]) : Release[m][i].name = i
  OBVIOUS
<1>3. Len(Release[m]) \in Nat
  BY <1>1
<1>4. \A i \in 1 .. Len(Release[m]) : Release[m][i] \in [name : Nat, checksum : STRING]
  BY <1>1, ElementOfSeq
<1> QED
  BY <1>2, <1>3, <1>4

LEMMA SchemaFacts ==
  ASSUME SchemaOK
  PROVE  /\ Len(schema) \in Nat
         /\ \A j \in 1 .. Len(schema) : schema[j].name = j /\ schema[j] \in ledger
         /\ \A row \in ledger : \E j \in 1 .. Len(schema) : schema[j] = row
<1>1. PICK o \in Migrators : IsPrefix(schema, Release[o])
  BY DEF SchemaOK
<1>2. Len(schema) \in Nat /\ DOMAIN schema = 1 .. Len(schema)
  BY DEF SchemaOK
<1>3. ledger = {schema[j] : j \in 1 .. Len(schema)}
  BY <1>2 DEF SchemaOK, ToSet
<1>4. Len(schema) <= Len(Release[o]) /\ Len(Release[o]) \in Nat
  BY <1>1, ReleaseFacts DEF IsPrefix
<1>5. ASSUME NEW j \in 1 .. Len(schema)
      PROVE  schema[j] = Release[o][j]
  <2>1. SubSeq(schema, 1, Len(schema)) = SubSeq(Release[o], 1, Len(schema))
    BY <1>1 DEF IsPrefix
  <2>2. SubSeq(schema, 1, Len(schema))[j] = schema[j]
    BY <1>2 DEF SchemaOK
  <2>3. SubSeq(Release[o], 1, Len(schema))[j] = Release[o][j]
    BY <1>2, <1>4
  <2> QED
    BY <2>1, <2>2, <2>3
<1>6. ASSUME NEW j \in 1 .. Len(schema)
      PROVE  schema[j].name = j
  BY <1>4, <1>2, <1>5, ReleaseFacts
<1> QED
  BY <1>2, <1>3, <1>6

\* As files are numbered, the files of a release that a schema has are at its
\* beginning, in the order of the release.
LEMMA NumberedPrefix ==
  ASSUME SchemaOK, NEW m \in Migrators, NEW n \in Nat, n <= Len(Release[m]),
         \A i \in 1 .. Len(Release[m]) : i <= n => Release[m][i] \in ledger
  PROVE  n <= Len(schema) /\ \A i \in 1 .. n : schema[i] = Release[m][i]
<1>1. ASSUME NEW i \in 1 .. n
      PROVE  i <= Len(schema) /\ schema[i] = Release[m][i]
  <2>1. i \in 1 .. Len(Release[m]) /\ Release[m][i] \in ledger /\ Release[m][i].name = i
    BY ReleaseFacts
  <2>2. PICK j \in 1 .. Len(schema) : schema[j] = Release[m][i]
    BY <2>1, SchemaFacts
  <2>3. j = i
    BY <2>1, <2>2, SchemaFacts
  <2> QED
    BY <2>2, <2>3
<1> QED
  BY <1>1, SchemaFacts

\* A commit of the next file of m appends the file that comes next.
LEMMA CommitExtends ==
  ASSUME MigratorIInv, NEW m \in inserted, Commits(m)
  PROVE  /\ SchemaOK'
         /\ ledger' = ledger \cup {Current(m)}
         /\ inserted' = inserted \ {m}
<1> DEFINE i == file[m]
<1>1. /\ m \in Migrators /\ i \in 1 .. Len(Release[m]) /\ Len(Release[m]) \in Nat
      /\ Current(m) = Release[m][i] /\ Release[m][i].name = i
      /\ Release[m][i] \in [name : Nat, checksum : STRING]
  BY ReleaseFacts DEF MigratorIInv, RowOK, Current
<1>2. i - 1 <= Len(schema) /\ \A k \in 1 .. i - 1 : schema[k] = Release[m][k]
  <2>1. \A k \in 1 .. Len(Release[m]) : k <= i - 1 => Release[m][k] \in ledger
    <3>1. \A k \in 1 .. Len(Release[m]) : k < i => Release[m][k] \in ledger
      BY <1>1 DEF MigratorIInv, PlaceOK
    <3> QED
      BY <1>1, <3>1
  <2>2. i - 1 \in Nat /\ i - 1 <= Len(Release[m]) /\ SchemaOK
    BY <1>1 DEF MigratorIInv
  <2> HIDE DEF i
  <2> QED
    BY <1>1, <2>1, <2>2, NumberedPrefix
<1>3. Len(schema) = i - 1
  <2>1. \A row \in ledger : row.name # i
    BY <1>1 DEF MigratorIInv, RowOK
  <2>2. Len(schema) \in Nat /\ ~ (i <= Len(schema))
    BY <1>1, <2>1, SchemaFacts DEF MigratorIInv
  <2> QED
    BY <1>1, <1>2, <2>2
<1>4. schema' = Append(schema, Release[m][i]) /\ ledger' = ledger \cup {Release[m][i]}
  BY <1>1 DEF Commits, RowCommits
<1> DEFINE next == Append(schema, Release[m][i])
<1>5. schema \in Seq([name : Nat, checksum : STRING])
  BY DEF MigratorIInv, SchemaOK
<1>6. /\ next \in Seq([name : Nat, checksum : STRING])
      /\ Len(next) = i /\ DOMAIN next = 1 .. i
      /\ \A k \in 1 .. i - 1 : next[k] = schema[k]
      /\ next[i] = Release[m][i]
  BY <1>1, <1>3, <1>5
<1>7. IsPrefix(next, Release[m])
  BY <1>1, <1>2, <1>6 DEF IsPrefix
<1>8. ledger \cup {Release[m][i]} = ToSet(next)
  <2>1. ledger = {schema[k] : k \in 1 .. i - 1}
    BY <1>3, <1>5 DEF MigratorIInv, SchemaOK, ToSet
  <2>2. ToSet(next) = {next[k] : k \in 1 .. i}
    BY <1>6 DEF ToSet
  <2> QED
    BY <1>1, <1>6, <2>1, <2>2
<1> QED
  BY <1>1, <1>4, <1>6, <1>7, <1>8 DEF SchemaOK, Commits

LEMMA MigratorInitInv == MigratorInit => MigratorIInv
<1> SUFFICES ASSUME MigratorInit PROVE MigratorIInv
  OBVIOUS
<1>1. schema = <<>> /\ ledger = {} /\ inserted = {}
  BY DEF MigratorInit, MigratorStart
<1>2. SchemaOK
  BY <1>1 DEF SchemaOK, IsPrefix, ToSet
<1> QED
  BY <1>1, <1>2 DEF MigratorInit, MigratorStart, MigratorIInv, PlaceOK, Steps, InTransaction

------------------------------------------------------------------------------
\* A step of m that commits nothing and inserts nothing is right when m's own
\* place stays right.
LEMMA QuietStep ==
  ASSUME MigratorIInv, NEW m \in Migrators, NEW s \in Steps, NEW f \in Nat, NEW k \in SUBSET ledger,
         step' = [step EXCEPT ![m] = s],
         file' = [file EXCEPT ![m] = f],
         known' = [known EXCEPT ![m] = k],
         UNCHANGED <<ledger, schema>>,
         inserted' \in {inserted, inserted \ {m}},
         PlaceOK(m)',
         m \in inserted' => f = file[m] /\ s \in {"committing", "unlocking", "failed"}
  PROVE  MigratorIInv'
<1>1. SchemaOK'
  BY DEF MigratorIInv, SchemaOK
<1>2. \A o \in Migrators : PlaceOK(o)'
  <2> TAKE o \in Migrators
  <2>1. CASE o = m
    BY <2>1
  <2>2. CASE o # m
    <3>1. PlaceOK(o)
      BY DEF MigratorIInv
    <3>2. step'[o] = step[o] /\ file'[o] = file[o] /\ known'[o] = known[o]
      BY <2>2 DEF MigratorIInv
    <3>3. step[o] = "committing" => o \in inserted'
      BY <2>2, <3>1 DEF PlaceOK
    <3> QED
      BY <3>1, <3>2, <3>3 DEF PlaceOK
  <2> QED
    BY <2>1, <2>2
<1>3. \A o \in inserted' : RowOK(o)'
  <2> TAKE o \in inserted'
  <2>1. /\ \A x \in inserted' : x \in inserted /\ file'[x] = file[x] /\ Current(x)' = Current(x)
        /\ RowOK(o) /\ step \in [Migrators -> Steps]
    BY DEF MigratorIInv, Current
  <2>2. step'[o] \in {"committing", "unlocking", "failed"}
    BY <2>1 DEF RowOK, MigratorIInv
  <2> QED
    BY <2>1, <2>2 DEF RowOK
<1> QED
  BY <1>1, <1>2, <1>3 DEF MigratorIInv

LEMMA StartInv ==
  ASSUME MigratorIInv, NEW m \in Migrators, StartMigrator(m)
  PROVE  MigratorIInv'
<1>1. m \notin inserted /\ m \notin inserted'
  BY DEF StartMigrator
<1>2. PlaceOK(m)'
  BY ReleaseFacts DEF MigratorIInv, PlaceOK, StartMigrator, Step, SameTables, Steps, InTransaction
<1>3. /\ step' = [step EXCEPT ![m] = "ledger"] /\ "ledger" \in Steps
      /\ file' = [file EXCEPT ![m] = 0] /\ known' = [known EXCEPT ![m] = {}]
      /\ UNCHANGED <<ledger, schema, inserted>>
  BY DEF StartMigrator, Step, SameTables, Steps
<1>4. 0 \in Nat /\ {} \in SUBSET ledger
  OBVIOUS
<1> QED
  BY <1>1, <1>2, <1>3, <1>4, QuietStep

\* The steps that only go on to another place in the code.
LEMMA GotoInv ==
  ASSUME MigratorIInv, NEW m \in Migrators, NEW s \in Steps, Step(m, s),
         UNCHANGED <<ledger, schema, known, file, inserted>>,
         m \in inserted => s \in {"committing", "unlocking", "failed"},
         s \in {"files"} \cup InTransaction => file[m] >= 1,
         s \in InTransaction => file[m] <= Len(Release[m]),
         s = "committing" => m \in inserted,
         s = "applied" => file[m] > Len(Release[m])
  PROVE  MigratorIInv'
<1>1. PlaceOK(m)'
  BY DEF MigratorIInv, PlaceOK, Step
<1>2. known[m] \in SUBSET ledger /\ file[m] \in Nat
  BY DEF MigratorIInv
<1>3. file' = [file EXCEPT ![m] = file[m]] /\ known' = [known EXCEPT ![m] = known[m]]
  BY DEF MigratorIInv
<1> QED
  BY <1>1, <1>2, <1>3, QuietStep DEF Step

LEMMA StutterInv ==
  ASSUME MigratorIInv, UNCHANGED <<ledger, schema, step, known, file, inserted>>
  PROVE  MigratorIInv'
BY DEF MigratorIInv, SchemaOK, PlaceOK, RowOK, Current

LEMMA SkipFileInv ==
  ASSUME MigratorIInv, NEW m \in Migrators, SkipFile(m)
  PROVE  MigratorIInv'
<1>1. PICK row \in known[m] : /\ HasName(row, Current(m).name)
                              /\ IF row = Current(m)
                                 THEN file' = [file EXCEPT ![m] = @ + 1] /\ UNCHANGED step
                                 ELSE UNCHANGED file /\ Step(m, "unlocking")
  BY DEF SkipFile
<1>2. m \notin inserted
  BY DEF MigratorIInv, RowOK, SkipFile
<1>3. CASE row # Current(m)
  BY <1>1, <1>2, <1>3, GotoInv DEF SkipFile, SameTables, Steps, InTransaction
<1>4. CASE row = Current(m)
  <2>1. Current(m) \in ledger
    BY <1>1, <1>4 DEF MigratorIInv
  <2>2. PlaceOK(m)'
    <3>1. /\ file'[m] = file[m] + 1 /\ step'[m] = "files" /\ known'[m] = known[m]
          /\ ledger' = ledger /\ file[m] \in 1 .. Len(Release[m]) /\ Len(Release[m]) \in Nat
      BY <1>1, <1>4, ReleaseFacts DEF MigratorIInv, PlaceOK, SkipFile, SameTables
    <3>2. \A i \in 1 .. Len(Release[m]) : i < file[m] + 1 => Release[m][i] \in ledger
      BY <2>1, <3>1 DEF MigratorIInv, PlaceOK, Current
    <3>3. PlaceOK(m)
      BY DEF MigratorIInv
    <3> QED
      BY <3>1, <3>2, <3>3 DEF PlaceOK, InTransaction, Steps
  <2>3. /\ step' = [step EXCEPT ![m] = "files"] /\ "files" \in Steps
        /\ file[m] + 1 \in Nat /\ file' = [file EXCEPT ![m] = file[m] + 1]
        /\ known[m] \in SUBSET ledger /\ known' = [known EXCEPT ![m] = known[m]]
    BY <1>1, <1>4 DEF MigratorIInv, SkipFile, Steps
  <2> QED
    BY <1>2, <2>2, <2>3, QuietStep DEF SkipFile, SameTables
<1> QED
  BY <1>3, <1>4

LEMMA ReadLedgerInv ==
  ASSUME MigratorIInv, NEW m \in Migrators, ReadLedger(m)
  PROVE  MigratorIInv'
<1>1. m \notin inserted
  BY DEF MigratorIInv, RowOK, ReadLedger
<1>2. CASE Step(m, "unlocking") /\ UNCHANGED <<known, file>>
  BY <1>1, <1>2, GotoInv DEF ReadLedger, Steps, InTransaction, SameTables
<1>3. CASE /\ known' = [known EXCEPT ![m] = ledger]
           /\ file' = [file EXCEPT ![m] = 1]
           /\ Step(m, "files")
  <2>1. PlaceOK(m)'
    BY <1>3, ReleaseFacts
       DEF MigratorIInv, PlaceOK, ReadLedger, Step, SameTables, Steps, InTransaction
  <2> QED
    BY <1>1, <1>3, <2>1, QuietStep DEF ReadLedger, Step, SameTables, Steps
<1> QED
  BY <1>2, <1>3 DEF ReadLedger

\* The insert: nobody else's open transaction has the name, nor has the ledger.
LEMMA RecordFileInv ==
  ASSUME MigratorIInv, NEW m \in Migrators, RecordFile(m)
  PROVE  MigratorIInv'
<1>1. m \notin inserted /\ step[m] = "recording"
  BY DEF MigratorIInv, RowOK, RecordFile
<1>2. CASE \E row \in ledger : HasName(row, Current(m).name)
  BY <1>1, <1>2, GotoInv DEF RecordFile, SamePlace, Steps, InTransaction, SameTables
<1>3. CASE ~ \E row \in ledger : HasName(row, Current(m).name)
  <2>1. /\ step' = [step EXCEPT ![m] = "committing"] /\ inserted' = inserted \cup {m}
        /\ UNCHANGED <<ledger, schema, known, file>>
    BY <1>3 DEF RecordFile, Step, SameTables, SamePlace
  <2>2. step' \in [Migrators -> Steps]
    BY <2>1 DEF MigratorIInv, Steps
  <2>3. \A o \in Migrators : PlaceOK(o)'
    BY <1>1, <2>1, <2>2 DEF MigratorIInv, PlaceOK, InTransaction, Steps
  <2>4. \A o \in inserted : RowOK(o)'
    <3> TAKE o \in inserted
    <3>1. o # m /\ RowOK(o) /\ Current(m).name # Current(o).name
      BY <1>1 DEF MigratorIInv, RecordFile, InsertWaits, HasName
    <3>2. step'[o] = step[o]
      BY <2>1, <3>1 DEF MigratorIInv
    <3> QED
      BY <2>1, <3>1, <3>2 DEF RowOK, Current
  <2>5. RowOK(m)'
    <3>1. step'[m] = "committing" /\ file[m] \in 1 .. Len(Release[m])
      BY <1>1, <2>1, ReleaseFacts DEF MigratorIInv, PlaceOK, InTransaction
    <3>2. \A row \in ledger : row.name # Current(m).name
      BY <1>3 DEF HasName
    <3>3. \A o \in inserted : Current(o).name # Current(m).name
      BY DEF RecordFile, InsertWaits, HasName
    <3> QED
      BY <2>1, <3>1, <3>2, <3>3 DEF RowOK, Current
  <2>6. SchemaOK'
    BY <2>1 DEF MigratorIInv, SchemaOK
  <2> QED
    BY <2>1, <2>2, <2>3, <2>4, <2>5, <2>6 DEF MigratorIInv
<1> QED
  BY <1>2, <1>3

\* A commit leaves every other run where it was, and no other open transaction
\* has the name that is new in the ledger.
LEMMA OthersAtCommit ==
  ASSUME MigratorIInv, NEW m \in inserted, Commits(m), UNCHANGED known,
         \A x \in Migrators \ {m} : step'[x] = step[x] /\ file'[x] = file[x],
         NEW o \in Migrators \ {m}
  PROVE  PlaceOK(o)' /\ (o \in inserted' => RowOK(o)')
<1>1. ledger' = ledger \cup {Current(m)} /\ inserted' = inserted \ {m} /\ m \in Migrators
  BY CommitExtends DEF MigratorIInv
<1>2. PlaceOK(o)'
  BY <1>1 DEF MigratorIInv, PlaceOK
<1>3. ASSUME o \in inserted
      PROVE  RowOK(o)'
  <2>1. Current(m).name # Current(o).name /\ RowOK(o)
    BY <1>3 DEF MigratorIInv, RowOK
  <2>2. \A x \in inserted' : x \in inserted /\ Current(x)' = Current(x)
    BY <1>1 DEF MigratorIInv, Current
  <2> QED
    BY <1>1, <1>3, <2>1, <2>2 DEF RowOK
<1> QED
  BY <1>1, <1>2, <1>3

\* Whether its run goes on or has given it up, a commit is right when the
\* run's own place is.
LEMMA CommitInv ==
  ASSUME MigratorIInv, NEW m \in inserted, Commits(m), UNCHANGED known,
         NEW s \in Steps, NEW f \in Nat,
         step' = [step EXCEPT ![m] = s], file' = [file EXCEPT ![m] = f],
         PlaceOK(m)'
  PROVE  MigratorIInv'
<1>1. /\ SchemaOK' /\ ledger' = ledger \cup {Current(m)} /\ inserted' = inserted \ {m}
      /\ m \in Migrators
  BY CommitExtends DEF MigratorIInv
<1>2. \A x \in Migrators \ {m} : step'[x] = step[x] /\ file'[x] = file[x]
  BY DEF MigratorIInv
<1>3. \A o \in Migrators : PlaceOK(o)'
  BY <1>2, OthersAtCommit
<1>4. \A o \in inserted' : RowOK(o)'
  BY <1>1, <1>2, OthersAtCommit DEF MigratorIInv
<1> QED
  BY <1>1, <1>3, <1>4 DEF MigratorIInv

LEMMA CommitFileInv ==
  ASSUME MigratorIInv, NEW m \in Migrators, CommitFile(m)
  PROVE  MigratorIInv'
<1>1. /\ m \in inserted /\ step[m] = "committing" /\ Commits(m) /\ UNCHANGED known
      /\ step' = [step EXCEPT ![m] = "files"] /\ file' = [file EXCEPT ![m] = file[m] + 1]
      /\ "files" \in Steps /\ file[m] + 1 \in Nat
  BY DEF MigratorIInv, PlaceOK, CommitFile, Step, Steps
<1>2. ledger' = ledger \cup {Current(m)}
  BY <1>1, CommitExtends
<1>3. file[m] \in 1 .. Len(Release[m]) /\ Len(Release[m]) \in Nat /\ file'[m] = file[m] + 1
  BY <1>1, ReleaseFacts DEF MigratorIInv, RowOK
<1>4. \A i \in 1 .. Len(Release[m]) : i < file[m] + 1 => Release[m][i] \in ledger'
  BY <1>2, <1>3 DEF MigratorIInv, PlaceOK, Current
<1>5. PlaceOK(m)'
  <2>1. PlaceOK(m) /\ step'[m] = "files" /\ known' = known
    BY <1>1 DEF MigratorIInv
  <2> QED
    BY <1>2, <1>3, <1>4, <2>1 DEF PlaceOK, InTransaction, Steps
<1> QED
  BY <1>1, <1>5, CommitInv

LEMMA TransactionSettlesInv ==
  ASSUME MigratorIInv, NEW m \in Migrators, TransactionSettles(m)
  PROVE  MigratorIInv'
<1>1. /\ m \in inserted /\ step[m] \in {"unlocking", "failed"} /\ file[m] \in Nat
      /\ step[m] \in Steps /\ UNCHANGED <<known, file, step>> /\ PlaceOK(m)
      /\ step' = [step EXCEPT ![m] = step[m]] /\ file' = [file EXCEPT ![m] = file[m]]
      /\ known' = [known EXCEPT ![m] = known[m]] /\ known[m] \in SUBSET ledger
  BY DEF MigratorIInv, RowOK, TransactionSettles, SamePlace
<1>2. CASE Commits(m)
  <2>1. ledger' = ledger \cup {Current(m)}
    BY <1>1, <1>2, CommitExtends
  <2>2. PlaceOK(m)'
    BY <1>1, <2>1 DEF PlaceOK
  <2> QED
    BY <1>1, <1>2, <2>2, CommitInv
<1>3. CASE inserted' = inserted \ {m} /\ UNCHANGED <<ledger, schema>>
  <2>1. PlaceOK(m)'
    BY <1>1, <1>3 DEF PlaceOK
  <2> QED
    BY <1>1, <1>3, <2>1, QuietStep
<1> QED
  BY <1>2, <1>3 DEF TransactionSettles

------------------------------------------------------------------------------
\* An open transaction's run has not ended well, and what it does next is to
\* let go of the lock or to fail.
LEMMA MigratorStepInv ==
  ASSUME MigratorIInv, [MigratorNext]_migratorVars
  PROVE  MigratorIInv'
<1> USE DEF Steps, InTransaction
<1>1. CASE UNCHANGED migratorVars
  BY <1>1, StutterInv DEF migratorVars
<1>2. ASSUME NEW m \in Migrators, StartMigrator(m)
      PROVE  MigratorIInv'
  BY <1>2, StartInv
<1>3. ASSUME NEW m \in Migrators, LookForLedger(m) \/ RequestLock(m) \/ LockTimesOut(m)
      PROVE  MigratorIInv'
  <2>1. m \in inserted => FALSE
    BY <1>3 DEF MigratorIInv, RowOK, LookForLedger, RequestLock, LockTimesOut
  <2>2. CASE LookForLedger(m)
    BY <2>1, <2>2, GotoInv DEF LookForLedger, SamePlace, SameTables
  <2>3. CASE RequestLock(m)
    BY <2>3, StutterInv DEF RequestLock, SameTables, SamePlace
  <2>4. CASE LockTimesOut(m)
    BY <2>1, <2>4, GotoInv DEF LockTimesOut, SamePlace, SameTables
  <2> QED
    BY <1>3, <2>2, <2>3, <2>4
<1>4. ASSUME NEW m \in Migrators, CreateLedger(m) \/ SecureLedger(m)
      PROVE  MigratorIInv'
  <2>1. m \notin inserted
    BY <1>4 DEF MigratorIInv, RowOK, CreateLedger, SecureLedger
  <2>2. PICK s \in {"securing", "failed", "locking"} : Step(m, s)
    BY <1>4 DEF CreateLedger, SecureLedger
  <2> QED
    BY <1>4, <2>1, <2>2, GotoInv DEF CreateLedger, SecureLedger, SamePlace, SameTables
<1>5. ASSUME NEW m \in Migrators, GrantLock(m)
      PROVE  MigratorIInv'
  <2>1. CASE step[m] = "locking"
    <3>1. m \notin inserted
      BY <2>1 DEF MigratorIInv, RowOK
    <3> QED
      BY <1>5, <2>1, <3>1, GotoInv DEF GrantLock, SamePlace, SameTables
  <2>2. CASE step[m] # "locking"
    BY <1>5, <2>2, StutterInv DEF GrantLock, SameTables, SamePlace
  <2> QED
    BY <2>1, <2>2
<1>6. ASSUME NEW m \in Migrators, Unlock(m)
      PROVE  MigratorIInv'
  <2>1. CASE file[m] > Len(Release[m])
    <3>1. m \notin inserted
      BY <2>1, ReleaseFacts DEF MigratorIInv, RowOK
    <3> QED
      BY <1>6, <2>1, <3>1, GotoInv DEF Unlock, SamePlace, SameTables
  <2>2. CASE ~ (file[m] > Len(Release[m]))
    BY <1>6, <2>2, GotoInv DEF Unlock, SamePlace, SameTables
  <2> QED
    BY <2>1, <2>2
<1>7. ASSUME NEW m \in Migrators, ClosePool(m) \/ LockLost(m)
      PROVE  MigratorIInv'
  BY <1>7, StutterInv DEF ClosePool, LockLost, SameTables, SamePlace
<1>8. ASSUME NEW m \in Migrators, FilesDone(m) \/ BeginFile(m) \/ RunFile(m)
      PROVE  MigratorIInv'
  <2>1. /\ m \notin inserted /\ file[m] >= 1
        /\ step[m] = "applying" => file[m] <= Len(Release[m])
    BY <1>8 DEF MigratorIInv, RowOK, PlaceOK, FilesDone, BeginFile, RunFile
  <2>2. CASE FilesDone(m)
    BY <2>1, <2>2, GotoInv DEF FilesDone, SamePlace, SameTables
  <2>3. CASE BeginFile(m)
    BY <2>1, <2>3, GotoInv DEF BeginFile, SamePlace, SameTables
  <2>4. CASE RunFile(m)
    BY <2>1, <2>4, GotoInv DEF RunFile, SamePlace, SameTables
  <2> QED
    BY <1>8, <2>2, <2>3, <2>4
<1>9. ASSUME NEW m \in Migrators, TransactionFails(m) \/ MigratorDies(m)
      PROVE  MigratorIInv'
  BY <1>9, GotoInv DEF TransactionFails, MigratorDies, SamePlace, SameTables
<1>10. ASSUME NEW m \in Migrators,
              \/ ReadLedger(m) \/ SkipFile(m) \/ RecordFile(m)
              \/ CommitFile(m) \/ TransactionSettles(m)
       PROVE  MigratorIInv'
  BY <1>10, ReadLedgerInv, SkipFileInv, RecordFileInv, CommitFileInv, TransactionSettlesInv
<1> QED
  BY <1>1, <1>2, <1>3, <1>4, <1>5, <1>6, <1>7, <1>8, <1>9, <1>10
     DEF MigratorNext, MigratorStep

LEMMA InvHolds ==
  ASSUME MigratorIInv
  PROVE  SchemaIsARelease
<1>1. ASSUME NEW m \in Migrators, step[m] = "applied"
      PROVE  IsPrefix(Release[m], schema)
  <2> DEFINE n == Len(Release[m])
  <2>1. /\ n \in Nat /\ n <= Len(Release[m]) /\ SchemaOK
        /\ \A i \in 1 .. Len(Release[m]) : i <= n => Release[m][i] \in ledger
    BY <1>1, ReleaseFacts DEF MigratorIInv, PlaceOK
  <2>2. n <= Len(schema) /\ \A i \in 1 .. n : schema[i] = Release[m][i]
    <3> HIDE DEF n
    <3> QED
      BY <2>1, NumberedPrefix
  <2>3. Len(schema) \in Nat /\ schema \in Seq([name : Nat, checksum : STRING])
    BY DEF MigratorIInv, SchemaOK
  <2>4. SubSeq(Release[m], 1, n) = SubSeq(schema, 1, n)
    BY <2>1, <2>2, <2>3
  <2> QED
    BY <2>2, <2>4 DEF IsPrefix
<1> QED
  BY <1>1 DEF MigratorIInv, SchemaOK, SchemaIsARelease

\* For any number of runs, of any releases of numbered files, and with no lock
\* to speak of, the schema is the beginning of one release and the ledger
\* says which files it has.
THEOREM SchemaStaysARelease == MigratorSpec => []SchemaIsARelease
<1>1. MigratorInit => MigratorIInv
  BY MigratorInitInv
<1>2. MigratorIInv /\ [MigratorNext]_migratorVars => MigratorIInv'
  BY MigratorStepInv
<1>3. MigratorIInv => SchemaIsARelease
  BY InvHolds
<1> QED
  BY <1>1, <1>2, <1>3, PTL DEF MigratorSpec

HIDE MigratorAssumption DEF MigratorAssumption

-------------------------------------------------------------------------------
(***************************************************************************)
(* However often the set-up runs, wherever each run ends and whatever the  *)
(* operator archives, renames or edits in between, it makes one of each.   *)
(***************************************************************************)

USE ProvisioningAssumption DEF ProvisioningAssumption

AccountOK ==
  /\ product \in [Products -> [state : {"none", "active", "archived"},
                               tag : {"none", "ours", "other"}, current : BOOLEAN]]
  /\ price \in [Prices -> [state : {"none", "active", "archived"}, of : Products \cup {NoId},
                           terms : BOOLEAN, lookup : BOOLEAN]]
  /\ endpoint \in [Endpoints -> {"none", "some events", "all events"}]
  /\ \A q \in Prices : price[q].state # "none" => price[q].of \in Products

\* What the script has made says so where the next run looks: a product by its
\* tag, a price by the lookup key, an endpoint by its URL.
MadeOK ==
  /\ \A p \in made \cap Products : product[p].state = "active" => product[p].tag = "ours"
  /\ \A p1, p2 \in made \cap Products :
       product[p1].state = "active" /\ product[p2].state = "active" => p1 = p2
  /\ \A q \in made \cap Prices : price[q].lookup
  /\ \A e \in made \cap Endpoints : endpoint[e] # "none"
  /\ \A e1, e2 \in made \cap Endpoints : e1 = e2

OneHolder == \A q1, q2 \in Holders : q1 = q2

ChosenOK ==
  /\ chosen.product \in Products /\ chosen.price \in Prices
  /\ Holders = {chosen.price}
  /\ Matches(chosen.price) /\ price[chosen.price].of = chosen.product
  /\ Ours(chosen.product)

\* What a run knows of the account at each place in the code.
RunOK ==
  /\ script \in {"product", "price"} => Holders = {}
  /\ script = "price" => chosen.product \in Products /\ Ours(chosen.product)
  /\ script \in {"webhook", "portal", "environment", "done"} => ChosenOK
  /\ script \in {"portal", "environment", "done"} => \E e \in Endpoints : endpoint[e] # "none"

SetUpIInv ==
  /\ AccountOK /\ MadeOK /\ OneHolder /\ RunOK
  /\ chosen \in [product : Products \cup {NoId}, price : Prices \cup {NoId}]

------------------------------------------------------------------------------
LEMMA SetUpInitInv == ProvisioningInit => SetUpIInv
<1> SUFFICES ASSUME ProvisioningInit PROVE SetUpIInv
  OBVIOUS
<1>1. PICK p \in Products, q \in Prices, tag \in {"none", "other"}, terms, lookup \in BOOLEAN,
           some \in {"nothing", "product", "price"} :
         /\ product = [o \in Products |->
              IF o = p /\ some # "nothing" THEN [Contract EXCEPT !.tag = tag, !.current = FALSE]
              ELSE NoProduct]
         /\ price = [o \in Prices |->
              IF o = q /\ some = "price"
              THEN [state |-> "active", of |-> p, terms |-> terms, lookup |-> lookup] ELSE NoPrice]
  BY DEF ProvisioningInit, ProvisioningStart
<1>2. endpoint \in [Endpoints -> {"none", "some events", "all events"}]
  <2>1. PICK e \in Endpoints : endpoint \in {[o \in Endpoints |-> IF o = e THEN has ELSE "none"] :
                                               has \in {"none", "some events"}}
    BY DEF ProvisioningInit, ProvisioningStart
  <2>2. PICK has \in {"none", "some events"} :
          endpoint = [o \in Endpoints |-> IF o = e THEN has ELSE "none"]
    BY <2>1
  <2> QED
    BY <2>2
<1>3. AccountOK
  BY <1>1, <1>2 DEF AccountOK, Contract, NoProduct, NoPrice
<1>4. made = {} /\ script = "off" /\ chosen = Nothing
  BY DEF ProvisioningInit, ProvisioningStart
<1>5. OneHolder
  <2>1. \A o \in Prices : price[o].lookup => o = q
    BY <1>1 DEF NoPrice
  <2> QED
    BY <2>1 DEF OneHolder, Holders
<1> QED
  BY <1>3, <1>4, <1>5 DEF SetUpIInv, MadeOK, RunOK, Nothing

\* A step to a place where nothing is known, that leaves the account alone.
LEMMA IdleStep ==
  ASSUME SetUpIInv, UNCHANGED <<accountVars, made>>,
         script' \in {"off", "lookup", "refused", "failed"},
         chosen' \in {chosen, Nothing}
  PROVE  SetUpIInv'
<1>1. AccountOK' /\ MadeOK' /\ OneHolder'
  BY DEF SetUpIInv, AccountOK, MadeOK, OneHolder, Holders, accountVars
<1>2. chosen' \in [product : Products \cup {NoId}, price : Prices \cup {NoId}]
  BY DEF SetUpIInv, Nothing
<1> QED
  BY <1>1, <1>2 DEF SetUpIInv, RunOK

LEMMA LookUpPriceInv ==
  ASSUME SetUpIInv, LookUpPrice
  PROVE  SetUpIInv'
<1>1. CASE Refuse
  BY <1>1, IdleStep DEF Refuse, ScriptGoto
<1>2. CASE Holders = {} /\ ScriptGoto("product") /\ UNCHANGED <<accountVars, secret, made, chosen>>
  <2>1. AccountOK' /\ MadeOK' /\ OneHolder' /\ Holders' = {}
    BY <1>2 DEF SetUpIInv, AccountOK, MadeOK, OneHolder, Holders, accountVars
  <2> QED
    BY <1>2, <2>1 DEF SetUpIInv, RunOK, ScriptGoto
<1>3. ASSUME NEW q \in Holders, Matches(q), product[price[q].of].state = "active",
             product' = [product EXCEPT ![price[q].of] = Contract],
             chosen' = [product |-> price[q].of, price |-> q],
             Wrote("webhook"),
             UNCHANGED <<price, endpoint, portal, secret, made>>
      PROVE  SetUpIInv'
  <2> DEFINE p == price[q].of
  <2>1. q \in Prices /\ p \in Products /\ Holders = {q}
    <3>1. q \in Prices
      BY DEF Holders
    <3>2. p \in Products
      BY <1>3, <3>1 DEF SetUpIInv, AccountOK, Matches
    <3>3. Holders = {q}
      BY DEF SetUpIInv, OneHolder
    <3> QED
      BY <3>1, <3>2, <3>3
  <2>2. /\ product'[p] = Contract
        /\ \A o \in Products \ {p} : product'[o] = product[o]
    BY <1>3, <2>1 DEF SetUpIInv, AccountOK
  <2>3. AccountOK'
    BY <1>3, <2>1, <2>2 DEF SetUpIInv, AccountOK, Contract
  <2>4. \A o \in Products : product'[o].state = "active" => product[o].state = "active"
    BY <1>3, <2>2
  <2>5. MadeOK'
    BY <1>3, <2>2, <2>4 DEF SetUpIInv, MadeOK, Contract
  <2>6. Holders' = {q} /\ OneHolder' /\ Matches(q)'
    BY <1>3, <2>1 DEF Holders, OneHolder, Matches
  <2>7. chosen' \in [product : Products \cup {NoId}, price : Prices \cup {NoId}]
    BY <1>3, <2>1
  <2>8. script' = "webhook" => ChosenOK'
    <3>1. price'[q].of = p /\ chosen'.product = p /\ chosen'.price = q
      BY <1>3
    <3>2. Ours(chosen.product)' /\ Matches(chosen.price)'
      BY <1>3, <2>2, <3>1 DEF Ours, Contract, Matches
    <3> QED
      BY <2>1, <2>6, <3>1, <3>2 DEF ChosenOK
  <2>9. script' \in {"webhook", "failed"}
    BY <1>3 DEF Wrote, ScriptGoto
  <2> QED
    BY <2>3, <2>5, <2>6, <2>7, <2>8, <2>9 DEF SetUpIInv, RunOK
<1> QED
  BY <1>1, <1>2, <1>3 DEF LookUpPrice

\* Once MadeOK is known to hold, choosing a product disturbs nothing else.
LEMMA ProductChosen ==
  ASSUME SetUpIInv, script = "product", NEW p \in Products,
         product'[p] = Contract, AccountOK', MadeOK',
         chosen' = [chosen EXCEPT !.product = p],
         Wrote("price"), UNCHANGED price
  PROVE  SetUpIInv'
<1>1. Holders' = {} /\ OneHolder'
  BY DEF SetUpIInv, RunOK, OneHolder, Holders
<1>2. /\ chosen' \in [product : Products \cup {NoId}, price : Prices \cup {NoId}]
      /\ chosen'.product = p
  BY DEF SetUpIInv
<1>3. Ours(chosen.product)'
  BY <1>2 DEF Ours, Contract
<1>4. script' \in {"price", "failed"}
  BY DEF Wrote, ScriptGoto
<1> QED
  BY <1>1, <1>2, <1>3, <1>4 DEF SetUpIInv, RunOK

LEMMA EnsureProductInv ==
  ASSUME SetUpIInv, EnsureProduct
  PROVE  SetUpIInv'
<1> DEFINE found == {p \in Products : Ours(p)}
<1>1. CASE Refuse
  BY <1>1, IdleStep DEF Refuse, ScriptGoto
<1>2. ASSUME NEW p \in Products,
             IF found = {} THEN product[p].state = "none" /\ made' = made \cup {p}
             ELSE p \in found /\ UNCHANGED made,
             product' = [product EXCEPT ![p] = Contract],
             chosen' = [chosen EXCEPT !.product = p],
             Wrote("price"), UNCHANGED <<price, endpoint, portal, secret>>
      PROVE  SetUpIInv'
  <2>1. /\ product'[p] = Contract
        /\ \A o \in Products \ {p} : product'[o] = product[o]
    BY <1>2 DEF SetUpIInv, AccountOK
  <2>2. AccountOK'
    BY <1>2, <2>1 DEF SetUpIInv, AccountOK, Contract
  <2>3. made' \cap Prices = made \cap Prices /\ made' \cap Endpoints = made \cap Endpoints
    BY <1>2
  <2>4. CASE found = {}
    <3>1. \A o \in made \cap Products : product[o].state # "active"
      BY <2>4 DEF SetUpIInv, MadeOK, Ours
    <3>2. \A o \in made' \cap Products : product'[o].state = "active" => o = p
      BY <1>2, <2>1, <2>4, <3>1
    <3> QED
      <4>1. MadeOK'
        BY <2>1, <2>3, <3>2, <1>2 DEF MadeOK, Contract, SetUpIInv
      <4> QED
        BY <1>2, <2>1, <2>2, <4>1, ProductChosen DEF EnsureProduct
  <2>5. CASE found # {}
    <3>1. product[p].state = "active" /\ made' = made
      BY <1>2, <2>5 DEF Ours
    <3>2. \A o \in Products : product'[o].state = "active" => product[o].state = "active"
      BY <2>1, <3>1
    <3>3. MadeOK'
      BY <1>2, <2>1, <3>1, <3>2 DEF SetUpIInv, MadeOK, Contract
    <3> QED
      BY <1>2, <2>1, <2>2, <3>3, ProductChosen DEF EnsureProduct
  <2> QED
    BY <2>4, <2>5
<1> QED
  BY <1>1, <1>2 DEF EnsureProduct

\* A price is made only when none has the lookup key, and takes it.
LEMMA EnsurePriceInv ==
  ASSUME SetUpIInv, EnsurePrice
  PROVE  SetUpIInv'
<1> DEFINE found == {q \in Prices : Matches(q) /\ price[q].of = chosen.product}
<1>1. CASE Refuse
  BY <1>1, IdleStep DEF Refuse, ScriptGoto
<1>2. ASSUME NEW q \in Prices,
             IF found = {} THEN price[q].state = "none" /\ made' = made \cup {q}
             ELSE q \in found /\ UNCHANGED made,
             price' = [o \in Prices |->
               IF o = q THEN [state |-> "active", of |-> chosen.product,
                              terms |-> TRUE, lookup |-> TRUE]
               ELSE [price[o] EXCEPT !.lookup = FALSE]],
             chosen' = [chosen EXCEPT !.price = q],
             Wrote("webhook"), UNCHANGED <<product, endpoint, portal, secret>>
      PROVE  SetUpIInv'
  <2>1. chosen.product \in Products /\ Ours(chosen.product) /\ made \cap Prices = {}
    BY DEF EnsurePrice, SetUpIInv, RunOK, MadeOK, Holders
  <2>2. /\ price'[q] = [state |-> "active", of |-> chosen.product, terms |-> TRUE, lookup |-> TRUE]
        /\ \A o \in Prices \ {q} : price'[o] = [price[o] EXCEPT !.lookup = FALSE]
    BY <1>2
  <2>3. AccountOK'
    <3> DEFINE Shape == [state : {"none", "active", "archived"}, of : Products \cup {NoId},
                         terms : BOOLEAN, lookup : BOOLEAN]
    <3>1. ASSUME NEW o \in Prices, o # q
          PROVE  /\ price'[o] \in Shape
                 /\ price'[o].state = price[o].state /\ price'[o].of = price[o].of
      <4>1. price[o] \in Shape
        BY DEF SetUpIInv, AccountOK
      <4>2. price'[o] = [price[o] EXCEPT !.lookup = FALSE]
        BY <2>2, <3>1
      <4> QED
        BY <4>1, <4>2
    <3>2. price'[q] \in Shape /\ price'[q].of \in Products
      BY <2>1, <2>2
    <3>3. price' \in [Prices -> Shape]
      BY <1>2, <3>1, <3>2
    <3>4. \A o \in Prices : price'[o].state # "none" => price'[o].of \in Products
      BY <3>1, <3>2 DEF SetUpIInv, AccountOK
    <3> QED
      BY <1>2, <3>3, <3>4 DEF SetUpIInv, AccountOK
  <2>4. made' \cap Products = made \cap Products /\ made' \cap Endpoints = made \cap Endpoints
    BY <1>2
  <2>5. \A o \in made' \cap Prices : o = q
    BY <1>2, <2>1
  <2>6. MadeOK'
    BY <1>2, <2>2, <2>4, <2>5 DEF SetUpIInv, MadeOK
  <2>7. Holders' = {q}
    <3>1. price'[q].lookup = TRUE
      BY <2>2
    <3>2. ASSUME NEW o \in Prices, o # q
          PROVE  price'[o].lookup = FALSE
      <4>1. price'[o] = [price[o] EXCEPT !.lookup = FALSE]
        BY <2>2, <3>2
      <4>2. price[o] \in [state : {"none", "active", "archived"}, of : Products \cup {NoId},
                         terms : BOOLEAN, lookup : BOOLEAN]
        BY DEF SetUpIInv, AccountOK
      <4> QED
        BY <4>1, <4>2
    <3> QED
      BY <3>1, <3>2 DEF Holders
  <2>8. OneHolder'
    BY <2>7 DEF OneHolder
  <2>9. /\ chosen' \in [product : Products \cup {NoId}, price : Prices \cup {NoId}]
        /\ chosen'.product = chosen.product /\ chosen'.price = q
    BY <1>2 DEF SetUpIInv
  <2>10. ChosenOK'
    <3>1. Ours(chosen.product)'
      BY <1>2, <2>1, <2>9 DEF Ours
    <3>2. Matches(chosen.price)' /\ price'[chosen'.price].of = chosen'.product
      BY <2>2, <2>9 DEF Matches
    <3> QED
      BY <2>1, <2>7, <2>9, <3>1, <3>2 DEF ChosenOK
  <2>11. script' \in {"webhook", "failed"}
    BY <1>2 DEF Wrote, ScriptGoto
  <2> QED
    BY <2>3, <2>6, <2>8, <2>9, <2>10, <2>11 DEF SetUpIInv, RunOK
<1> QED
  BY <1>1, <1>2 DEF EnsurePrice

\* A step that leaves products and prices alone and takes no endpoint away.
LEMMA LaterStep ==
  ASSUME SetUpIInv, script \in {"webhook", "portal", "environment"},
         UNCHANGED <<product, price, chosen>>,
         endpoint' \in [Endpoints -> {"none", "some events", "all events"}],
         \A e \in Endpoints : endpoint[e] # "none" => endpoint'[e] # "none",
         made' \cap Products = made \cap Products, made' \cap Prices = made \cap Prices,
         \A e \in made' \cap Endpoints : endpoint'[e] # "none",
         \A e1, e2 \in made' \cap Endpoints : e1 = e2,
         script' \in {"portal", "environment", "done", "failed"},
         script' # "failed" => \E e \in Endpoints : endpoint'[e] # "none"
  PROVE  SetUpIInv'
<1>1. AccountOK'
  BY DEF SetUpIInv, AccountOK
<1>2. MadeOK'
  BY DEF SetUpIInv, MadeOK
<1>3. OneHolder' /\ ChosenOK'
  BY DEF SetUpIInv, OneHolder, RunOK, ChosenOK, Holders, Matches, Ours
<1> QED
  BY <1>1, <1>2, <1>3 DEF SetUpIInv, RunOK

LEMMA EnsureWebhookInv ==
  ASSUME SetUpIInv, EnsureWebhook
  PROVE  SetUpIInv'
<1> DEFINE found == {e \in Endpoints : endpoint[e] # "none"}
<1>1. CASE Refuse
  BY <1>1, IdleStep DEF Refuse, ScriptGoto
<1>2. ASSUME NEW e \in Endpoints,
             IF found = {}
             THEN /\ made' = made \cup {e}
                  /\ \/ secret' = "in memory" /\ ScriptGoto("portal")
                     \/ secret' = "lost" /\ ScriptGoto("failed")
             ELSE e \in found /\ UNCHANGED <<made, secret>> /\ Wrote("portal"),
             endpoint' = [endpoint EXCEPT ![e] = "all events"],
             UNCHANGED <<product, price, portal, chosen>>
      PROVE  SetUpIInv'
  <2>1. /\ endpoint' \in [Endpoints -> {"none", "some events", "all events"}]
        /\ endpoint'[e] = "all events"
        /\ \A o \in Endpoints \ {e} : endpoint'[o] = endpoint[o]
    BY <1>2 DEF SetUpIInv, AccountOK
  <2>2. made' \cap Products = made \cap Products /\ made' \cap Prices = made \cap Prices
    BY <1>2
  <2>3. /\ \A o \in made' \cap Endpoints : endpoint'[o] # "none"
        /\ \A e1, e2 \in made' \cap Endpoints : e1 = e2
    <3>1. CASE found = {}
      <4>1. made' \cap Endpoints = {e}
        BY <1>2, <3>1 DEF SetUpIInv, MadeOK
      <4> QED
        BY <2>1, <4>1
    <3>2. CASE found # {}
      BY <1>2, <2>1, <3>2 DEF SetUpIInv, MadeOK
    <3> QED
      BY <3>1, <3>2
  <2>4. script = "webhook" /\ script' \in {"portal", "failed"}
    BY <1>2 DEF EnsureWebhook, ScriptGoto, Wrote
  <2> QED
    BY <1>2, <2>1, <2>2, <2>3, <2>4, LaterStep
<1> QED
  BY <1>1, <1>2 DEF EnsureWebhook

\* The operator takes no lookup key, no tag and no endpoint away, and brings
\* nothing that was archived back.
LEMMA OperatorInv ==
  ASSUME SetUpIInv, Operator
  PROVE  SetUpIInv'
<1>1. /\ script' = "off" /\ UNCHANGED <<made, chosen>>
  BY DEF Operator, ScriptGoto
<1>2. ASSUME NEW p \in Products, product[p].state = "active",
             NEW after \in {[product[p] EXCEPT !.state = "archived"],
                            [product[p] EXCEPT !.current = FALSE]},
             product' = [product EXCEPT ![p] = after], UNCHANGED <<price, endpoint, portal>>
      PROVE  SetUpIInv'
  <2>1. AccountOK'
    BY <1>2 DEF SetUpIInv, AccountOK
  <2>2. \A o \in Products : /\ product'[o].tag = product[o].tag
                            /\ product'[o].state = "active" => product[o].state = "active"
    BY <1>2 DEF SetUpIInv, AccountOK
  <2>3. MadeOK'
    BY <1>1, <1>2, <2>2 DEF SetUpIInv, MadeOK
  <2> QED
    BY <1>1, <1>2, <2>1, <2>3 DEF SetUpIInv, OneHolder, Holders, RunOK
<1>3. ASSUME NEW q \in Prices, price[q].state = "active",
             price' = [price EXCEPT ![q].state = "archived"],
             UNCHANGED <<product, endpoint, portal>>
      PROVE  SetUpIInv'
  <2>1. AccountOK'
    BY <1>3 DEF SetUpIInv, AccountOK
  <2>2. \A o \in Prices : price'[o].lookup = price[o].lookup
    BY <1>3 DEF SetUpIInv, AccountOK
  <2>3. MadeOK'
    BY <1>1, <1>3, <2>2 DEF SetUpIInv, MadeOK
  <2>4. OneHolder'
    BY <2>2 DEF SetUpIInv, OneHolder, Holders
  <2> QED
    BY <1>1, <2>1, <2>3, <2>4 DEF SetUpIInv, RunOK
<1>4. ASSUME NEW e \in Endpoints, endpoint[e] = "all events",
             endpoint' = [endpoint EXCEPT ![e] = "some events"],
             UNCHANGED <<product, price, portal>>
      PROVE  SetUpIInv'
  <2>1. /\ endpoint' \in [Endpoints -> {"none", "some events", "all events"}]
        /\ \A o \in Endpoints : endpoint[o] # "none" => endpoint'[o] # "none"
    BY <1>4 DEF SetUpIInv, AccountOK
  <2> QED
    BY <1>1, <1>4, <2>1 DEF SetUpIInv, AccountOK, MadeOK, OneHolder, Holders, RunOK
<1>5. CASE portal' = "drifted" /\ UNCHANGED <<product, price, endpoint>>
  BY <1>1, <1>5, IdleStep DEF SetUpIInv, AccountOK, MadeOK, OneHolder, Holders, RunOK
<1> QED
  BY <1>2, <1>3, <1>4, <1>5 DEF Operator

------------------------------------------------------------------------------
LEMMA SetUpStepInv ==
  ASSUME SetUpIInv, [ProvisioningNext]_scriptVars
  PROVE  SetUpIInv'
<1>1. CASE UNCHANGED scriptVars
  <2>1. UNCHANGED <<product, price, endpoint, made, script, chosen>>
    BY <1>1 DEF scriptVars, accountVars
  <2>2. AccountOK' /\ MadeOK'
    BY <2>1 DEF SetUpIInv, AccountOK, MadeOK
  <2>3. OneHolder' /\ RunOK'
    BY <2>1 DEF SetUpIInv, OneHolder, RunOK, ChosenOK, Holders, Matches, Ours
  <2> QED
    BY <2>1, <2>2, <2>3 DEF SetUpIInv
<1>2. CASE BeginScript
  BY <1>2, IdleStep DEF BeginScript, ScriptGoto
<1>3. CASE ScriptFails
  BY <1>3, IdleStep DEF ScriptFails, ScriptGoto
<1>4. CASE EnsurePortal
  <2>1. /\ script = "portal" /\ script' \in {"environment", "failed"}
        /\ UNCHANGED <<product, price, endpoint, made, chosen>>
    BY <1>4 DEF EnsurePortal, Wrote, ScriptGoto
  <2> QED
    BY <2>1, LaterStep DEF SetUpIInv, AccountOK, MadeOK, RunOK
<1>5. CASE WriteEnvironment
  <2>1. /\ script = "environment" /\ script' = "done"
        /\ UNCHANGED <<product, price, endpoint, made, chosen>>
    BY <1>5 DEF WriteEnvironment, ScriptGoto, accountVars
  <2> QED
    BY <2>1, LaterStep DEF SetUpIInv, AccountOK, MadeOK, RunOK
<1> QED
  BY <1>1, <1>2, <1>3, <1>4, <1>5, LookUpPriceInv, EnsureProductInv, EnsurePriceInv,
     EnsureWebhookInv, OperatorInv
     DEF ProvisioningNext

\* For any number of runs, ids and changes by hand: no second active product,
\* no second active price and no second endpoint is ever made, and a run that
\* ends well leaves the contract's price, of our product, alone under its key.
THEOREM SetupIsRerunnable == ProvisioningSpec => []RerunsMakeOneOfEach
<1>1. ProvisioningInit => SetUpIInv
  BY SetUpInitInv
<1>2. SetUpIInv /\ [ProvisioningNext]_scriptVars => SetUpIInv'
  BY SetUpStepInv
<1>3. SetUpIInv => RerunsMakeOneOfEach
  <2> SUFFICES ASSUME SetUpIInv PROVE RerunsMakeOneOfEach
    OBVIOUS
  <2>1. \A q1, q2 \in made \cap Prices : q1 = q2
    BY DEF SetUpIInv, MadeOK, OneHolder, Holders
  <2>2. script = "done" => ChosenOK /\ {e \in Endpoints : endpoint[e] # "none"} # {}
    BY DEF SetUpIInv, RunOK
  <2>3. /\ \A p1, p2 \in made \cap {p \in Products : product[p].state = "active"} : p1 = p2
        /\ \A e1, e2 \in made \cap Endpoints : e1 = e2
    BY DEF SetUpIInv, MadeOK
  <2> QED
    BY <2>1, <2>2, <2>3 DEF RerunsMakeOneOfEach, ChosenOK
<1> QED
  BY <1>1, <1>2, <1>3, PTL DEF ProvisioningSpec

HIDE ProvisioningAssumption DEF ProvisioningAssumption

-------------------------------------------------------------------------------
(***************************************************************************)
(* Proofs about SubmissionThrottle, for any number of users and concurrent *)
(* calls, any limit, and any window that divides the hour.                 *)
(***************************************************************************)

USE ThrottleAssumption DEF ThrottleAssumption

------------------------------------------------------------------------------
(* Windows.                                                                  *)

LEMMA Division ==
  ASSUME NEW s \in Nat, NEW d \in Nat, d > 0
  PROVE  /\ s \div d \in Nat /\ s % d \in Nat
         /\ s % d < d
         /\ s = d * (s \div d) + (s % d)
<1>1. s \div d \in Nat
  OBVIOUS
<1>2. s % d \in 0 .. d - 1
  OBVIOUS
<1>3. s = d * (s \div d) + (s % d)
  OBVIOUS
<1> QED BY <1>1, <1>2, <1>3

\* A larger multiple has a larger factor.
LEMMA Factors ==
  ASSUME NEW i \in Int, NEW j \in Int, NEW w \in Nat, w > 0, w * i < w * j
  PROVE  i < j
OBVIOUS

LEMMA Distributes ==
  ASSUME NEW w \in Nat, NEW i \in Int, NEW j \in Int, NEW k \in Int
  PROVE  w * (i * k + j) = (w * i) * k + w * j
OBVIOUS

\* Windows are the multiples of their length, over the ends of hours too.
LEMMA WindowOf ==
  ASSUME NEW s \in Nat
  PROVE  \E i \in Nat : /\ WindowStart(s) = Window * i
                        /\ Window * i <= s /\ s < Window * (i + 1)
<1> DEFINE k == Hour \div Window
           q == s \div Hour
           m == s % Hour
           j == m \div Window
<1>1. k \in Nat /\ Hour = Window * k
  BY Division
<1>2. q \in Nat /\ m \in Nat /\ s = Hour * q + m
  BY Division
<1>3. j \in Nat /\ m % Window \in Nat /\ m % Window < Window /\ m = Window * j + (m % Window)
  BY <1>2, Division
<1> HIDE DEF k, q, j
<1>4. WindowStart(s) = (s - m) + j * Window
  BY DEF WindowStart, j
<1> HIDE DEF m
<1>5. k * q + j \in Nat
  BY <1>1, <1>2, <1>3
<1>6. Window * (k * q + j) = (Window * k) * q + Window * j
  BY <1>1, <1>2, <1>3, Distributes
<1>7. j * Window = Window * j
  BY <1>3
<1>8. Hour * q \in Nat /\ Window * j \in Nat
  BY <1>2, <1>3
<1>9. WindowStart(s) = Window * (k * q + j)
  BY <1>1, <1>2, <1>4, <1>6, <1>7, <1>8
<1>10. Window * (k * q + j) <= s /\ s < Window * (k * q + j) + Window
  BY <1>1, <1>2, <1>3, <1>6, <1>8
<1>11. Window * ((k * q + j) + 1) = Window * (k * q + j) + Window
  BY <1>5
<1> QED BY <1>5, <1>9, <1>10, <1>11

\* A window's length from any instant on meets two windows.
LEMMA TwoWindows ==
  ASSUME NEW t \in Nat
  PROVE  \E first \in Nat :
           \A s \in Nat : t <= s /\ s < t + Window =>
             WindowStart(s) \in {first, first + Window}
<1>1. PICK i \in Nat : WindowStart(t) = Window * i /\ Window * i <= t /\ t < Window * (i + 1)
  BY WindowOf
<1>2. ASSUME NEW s \in Nat, t <= s, s < t + Window
      PROVE  WindowStart(s) \in {Window * i, Window * i + Window}
  <2>1. PICK j \in Nat : WindowStart(s) = Window * j /\ Window * j <= s /\ s < Window * (j + 1)
    BY WindowOf
  <2>2. /\ Window * (i + 1) = Window * i + Window
        /\ Window * (i + 2) = Window * (i + 1) + Window
    OBVIOUS
  <2>3. /\ Window * i \in Nat /\ Window * j \in Nat /\ Window * (i + 1) \in Nat
        /\ Window * (j + 1) \in Nat /\ Window * (i + 2) \in Nat
    OBVIOUS
  <2>4. Window * i < Window * (j + 1) /\ Window * j < Window * (i + 2)
    BY <1>1, <1>2, <2>1, <2>2, <2>3
  <2>5. i < j + 1 /\ j < i + 2
    BY <2>4, Factors
  <2>6. j = i \/ j = i + 1
    BY <2>5
  <2> QED BY <2>1, <2>2, <2>6
<1>3. Window * i \in Nat
  OBVIOUS
<1> QED BY <1>2, <1>3

------------------------------------------------------------------------------
(* A call that passes has a place of its own in its window.                  *)

Call == [user : Submitters, start : Times, place : 0 .. ThrottleLimit - 1]

PlacesOK ==
  /\ accepted \subseteq Call
  /\ \A a \in accepted : a.place < submissions[<<a.user, WindowStart(a.start)>>]
  /\ \A a, b \in accepted :
       /\ a.user = b.user /\ a.place = b.place
       /\ WindowStart(a.start) = WindowStart(b.start)
       => a = b

ThrottleIInv ==
  /\ now \in Times
  /\ submitter \in [Calls -> Submitters \cup {NoSubmitter}]
  /\ start \in [Calls -> Times]
  /\ submissions \in [Submitters \X Times -> 0 .. ThrottleLimit]
  /\ PlacesOK

LEMMA WindowIsATime ==
  ASSUME NEW s \in Times
  PROVE  WindowStart(s) \in Times
<1>1. s \in Nat /\ s <= MaxTime
  BY DEF Times
<1>2. PICK i \in Nat : WindowStart(s) = Window * i /\ Window * i <= s
  BY <1>1, WindowOf
<1>3. Window * i \in Nat
  OBVIOUS
<1> QED BY <1>1, <1>2, <1>3 DEF Times

LEMMA ThrottleInitInv == ThrottleInit => ThrottleIInv
<1>1. 0 \in Times /\ 0 \in 0 .. ThrottleLimit
  BY DEF Times
<1> QED BY <1>1 DEF ThrottleInit, ThrottleStart, ThrottleIInv, PlacesOK

LEMMA ThrottleStepInv == ThrottleIInv /\ [ThrottleNext]_throttleVars => ThrottleIInv'
<1> SUFFICES ASSUME ThrottleIInv, [ThrottleNext]_throttleVars PROVE ThrottleIInv'
  OBVIOUS
<1> USE DEF ThrottleIInv
<1>1. CASE Tick
  BY <1>1 DEF Tick, Times, PlacesOK
<1>2. ASSUME NEW c \in Calls, NEW u \in Submitters, BeginCall(c, u) PROVE ThrottleIInv'
  BY <1>2 DEF BeginCall, PlacesOK
<1>3. ASSUME NEW c \in Calls, EndCall(c)
      PROVE  /\ now' \in Times /\ submitter' \in [Calls -> Submitters \cup {NoSubmitter}]
             /\ start' \in [Calls -> Times]
  BY <1>3 DEF EndCall, Times
<1>4. ASSUME NEW c \in Calls, Throttled(c) PROVE ThrottleIInv'
  BY <1>3, <1>4 DEF Throttled, PlacesOK
<1>5. ASSUME NEW c \in Calls, Pass(c) PROVE ThrottleIInv'
  <2> DEFINE r == <<submitter[c], WindowStart(start[c])>>
             new == [user |-> submitter[c], start |-> start[c], place |-> submissions[r]]
  <2>1. /\ submitter[c] \in Submitters /\ start[c] \in Times
        /\ submissions' = [submissions EXCEPT ![r] = @ + 1] /\ submissions[r] < ThrottleLimit
        /\ accepted' = accepted \cup {new}
        /\ EndCall(c)
    BY <1>5 DEF Pass, HasRoom
  <2>2. r \in Submitters \X Times
    BY <2>1, WindowIsATime
  <2>3. submissions[r] \in 0 .. ThrottleLimit - 1 /\ submissions[r] + 1 \in 0 .. ThrottleLimit
    BY <2>1, <2>2
  <2>4. submissions' \in [Submitters \X Times -> 0 .. ThrottleLimit]
    BY <2>1, <2>2, <2>3
  <2>5. new \in Call
    BY <2>1, <2>3 DEF Call
  <2>6. \A x \in Submitters \X Times : submissions'[x] = IF x = r THEN submissions[r] + 1 ELSE submissions[x]
    BY <2>1, <2>2
  <2>7. ASSUME NEW a \in accepted
        PROVE  /\ a.place < submissions'[<<a.user, WindowStart(a.start)>>]
               /\ a.place \in Nat
               /\ <<a.user, WindowStart(a.start)>> = r => a.place < submissions[r]
    <3>1. a.user \in Submitters /\ a.start \in Times /\ a.place \in 0 .. ThrottleLimit - 1
      BY DEF PlacesOK, Call
    <3>2. /\ <<a.user, WindowStart(a.start)>> \in Submitters \X Times
          /\ a.place < submissions[<<a.user, WindowStart(a.start)>>]
      BY <3>1, WindowIsATime DEF PlacesOK
    <3> QED BY <2>3, <2>6, <3>1, <3>2
  <2>8. <<new.user, WindowStart(new.start)>> = r /\ new.place < submissions'[r]
    BY <2>2, <2>3, <2>6
  <2> HIDE DEF new
  <2>9. PlacesOK'
    <3>1. accepted' \subseteq Call
      BY <2>1, <2>5 DEF PlacesOK
    <3>2. \A a \in accepted' : a.place < submissions'[<<a.user, WindowStart(a.start)>>]
      BY <2>1, <2>7, <2>8
    <3>3. new.place = submissions[r]
      BY DEF new
    <3>4. ASSUME NEW a \in accepted', NEW b \in accepted', a.user = b.user, a.place = b.place,
                 WindowStart(a.start) = WindowStart(b.start)
          PROVE  a = b
      <4>1. <<a.user, WindowStart(a.start)>> = <<b.user, WindowStart(b.start)>>
        BY <3>4
      <4>2. CASE a \in accepted /\ b \in accepted
        BY <3>4, <4>2 DEF PlacesOK
      <4>3. CASE a = new /\ b \in accepted
        <5>1. b.place < submissions[r] /\ b.place \in Nat
          BY <2>7, <2>8, <4>1, <4>3
        <5> QED BY <2>3, <3>3, <3>4, <4>3, <5>1
      <4>4. CASE a \in accepted /\ b = new
        <5>1. a.place < submissions[r] /\ a.place \in Nat
          BY <2>7, <2>8, <4>1, <4>4
        <5> QED BY <2>3, <3>3, <3>4, <4>4, <5>1
      <4> QED BY <2>1, <4>2, <4>3, <4>4
    <3> QED BY <3>1, <3>2, <3>4 DEF PlacesOK
  <2> QED BY <1>3, <2>1, <2>4, <2>9
<1>6. CASE UNCHANGED throttleVars
  BY <1>6 DEF throttleVars, PlacesOK
<1> QED BY <1>1, <1>2, <1>4, <1>5, <1>6 DEF ThrottleNext

------------------------------------------------------------------------------
(* The bound.                                                                *)

\* There are as many places in two windows as twice the limit.
LEMMA PlacesOfTwo ==
  ASSUME NEW first \in Nat
  PROVE  LET seats == {first, first + Window} \X (0 .. ThrottleLimit - 1) IN
         IsFiniteSet(seats) /\ Cardinality(seats) <= 2 * ThrottleLimit
<1>1. IsFiniteSet({first, first + Window}) /\ Cardinality({first, first + Window}) \in {1, 2}
  <2>1. IsFiniteSet({first}) /\ Cardinality({first}) = 1
    BY FS_Singleton
  <2>2. {first, first + Window} = {first} \cup {first + Window}
    OBVIOUS
  <2>3. /\ IsFiniteSet({first} \cup {first + Window})
        /\ \/ Cardinality({first} \cup {first + Window}) = Cardinality({first})
           \/ Cardinality({first} \cup {first + Window}) = Cardinality({first}) + 1
    BY <2>1, FS_AddElement
  <2> HIDE ThrottleAssumption
  <2>4. Cardinality({first} \cup {first + Window}) \in {1, 1 + 1}
    BY <2>1, <2>3
  <2> QED BY <2>2, <2>3, <2>4
<1>2. IsFiniteSet(0 .. ThrottleLimit - 1) /\ Cardinality(0 .. ThrottleLimit - 1) = ThrottleLimit
  BY FS_Interval
<1>3. /\ IsFiniteSet({first, first + Window} \X (0 .. ThrottleLimit - 1))
      /\ Cardinality({first, first + Window} \X (0 .. ThrottleLimit - 1))
           = Cardinality({first, first + Window}) * Cardinality(0 .. ThrottleLimit - 1)
  BY <1>1, <1>2, FS_Product
<1> QED BY <1>1, <1>2, <1>3

\* Whenever calls start and however long they wait for the counter's row, at
\* most twice the limit of a user's submissions pass of those that start within
\* one window's length.
THEOREM NeverMoreThanTwice == ThrottleSpec => []AtMostTwice
<1>1. ASSUME ThrottleIInv, NEW u \in Submitters, NEW t \in Times
      PROVE  Cardinality(Within(u, t)) <= 2 * ThrottleLimit
  <2>1. t \in Nat
    BY DEF Times
  <2>2. PICK first \in Nat :
          \A s \in Nat : t <= s /\ s < t + Window => WindowStart(s) \in {first, first + Window}
    BY <2>1, TwoWindows
  <2> DEFINE W == Within(u, t)
             seats == {first, first + Window} \X (0 .. ThrottleLimit - 1)
             f == [a \in W |-> <<WindowStart(a.start), a.place>>]
  <2>3. ASSUME NEW a \in W
        PROVE  /\ a \in accepted /\ a.user = u
               /\ <<WindowStart(a.start), a.place>> \in seats
    <3>1. a \in accepted /\ a.user = u /\ t <= a.start /\ a.start < t + Window
      BY DEF Within
    <3>2. a.start \in Nat /\ a.place \in 0 .. ThrottleLimit - 1
      BY <1>1, <3>1 DEF ThrottleIInv, PlacesOK, Call, Times
    <3> QED BY <2>2, <3>1, <3>2
  <2>4. f \in [W -> seats]
    BY <2>3
  <2>5. ASSUME NEW a \in W, NEW b \in W, f[a] = f[b] PROVE a = b
    BY <1>1, <2>3, <2>5 DEF ThrottleIInv, PlacesOK
  <2>6. f \in Injection(W, seats)
    BY <2>4, <2>5 DEF Injection, IsInjective
  <2>7. IsFiniteSet(seats) /\ Cardinality(seats) <= 2 * ThrottleLimit
    BY PlacesOfTwo
  <2> HIDE DEF W, seats, f
  <2>8. Cardinality(W) \in Nat /\ Cardinality(seats) \in Nat /\ Cardinality(W) <= Cardinality(seats)
    BY <2>6, <2>7, FS_Injection, FS_CardinalityType DEF ExistsInjection
  <2> QED BY <2>7, <2>8 DEF W
<1>2. ThrottleIInv => AtMostTwice
  BY <1>1 DEF AtMostTwice
<1> QED BY <1>2, ThrottleInitInv, ThrottleStepInv, PTL DEF ThrottleSpec

HIDE ThrottleAssumption DEF ThrottleAssumption
-------------------------------------------------------------------------------
(***************************************************************************)
(* However the checkouts of a user race, fail and are repeated, their      *)
(* sessions are those of one customer, the one that is stored.             *)
(***************************************************************************)

USE CheckoutAssumption DEF CheckoutAssumption, Stages

\* A stored customer was created by a request of that user, ...
Stored(u) ==
  customer[u] # NoCustomer =>
    /\ customer[u] \in created
    /\ owner[customer[u]] = u
    /\ stage[customer[u]] \in {"opening", "done", "failed"}

\* ... and a request that opens a session holds the stored one.
RequestOK(r) ==
  /\ stage[r] # "idle" => owner[r] \in Users
  /\ stage[r] = "linking" => r \in created
  /\ stage[r] = "opening" => customerId[r] # NoCustomer /\ customerId[r] = customer[owner[r]]

CheckoutIInv ==
  /\ TypeOK
  /\ \A u \in Users : Stored(u)
  /\ \A r \in Requests : RequestOK(r)
  /\ SessionsAreLinked

\* A customer that is stored stays, so what depends on it stays.
LEMMA StaysStored ==
  ASSUME CheckoutIInv, created \subseteq created',
         \A u \in Users : customer[u] # NoCustomer => customer'[u] = customer[u]
  PROVE  \A s \in sessions : s.customer \in created' /\ customer'[s.user] = s.customer
<1> SUFFICES ASSUME NEW s \in sessions
             PROVE  s.customer \in created' /\ customer'[s.user] = s.customer
  OBVIOUS
<1>1. s.user \in Users /\ s.customer \in Requests
  BY DEF CheckoutIInv, TypeOK
<1>2. s.customer \in created /\ customer[s.user] = s.customer
  BY DEF CheckoutIInv, SessionsAreLinked
<1> QED BY <1>1, <1>2

LEMMA CheckoutInitInv == Init => CheckoutIInv
BY DEF Init, CheckoutIInv, TypeOK, Stored, RequestOK, SessionsAreLinked

\* What storing a customer for the user of r does, whether the request goes on
\* or fails afterwards.
LEMMA StoreEffect ==
  ASSUME CheckoutIInv,
         NEW r \in Requests, stage[r] = "linking", NEW next \in {"opening", "failed"},
         Goto(r, next),
         customer' = [customer EXCEPT ![owner[r]] = Coalesce(owner[r], r)],
         UNCHANGED <<owner, created, sessions>>,
         customerId' = customerId \/ customerId' = [customerId EXCEPT ![r] = Coalesce(owner[r], r)],
         next = "opening" => customerId' = [customerId EXCEPT ![r] = Coalesce(owner[r], r)]
  PROVE  CheckoutIInv'
<1> DEFINE u == owner[r]
<1>1. u \in Users /\ r \in created
  BY DEF CheckoutIInv, RequestOK
<1>2. /\ Coalesce(u, r) \in Requests
      /\ \A v \in Users : customer[v] # NoCustomer => customer'[v] = customer[v]
      /\ \A v \in Users \ {u} : customer'[v] = customer[v]
      /\ customer'[u] = Coalesce(u, r)
  BY <1>1 DEF Coalesce, CheckoutIInv, TypeOK
<1>3. TypeOK'
  BY <1>1, <1>2 DEF CheckoutIInv, TypeOK, Goto
<1>4. SessionsAreLinked'
  BY <1>2, StaysStored DEF SessionsAreLinked
<1>5. ASSUME NEW v \in Users PROVE Stored(v)'
  <2>1. CASE customer'[v] = customer[v]
    BY <2>1 DEF CheckoutIInv, TypeOK, Stored, Goto
  <2>2. CASE customer'[v] # customer[v]
    <3>1. v = u /\ customer'[v] = r
      BY <1>1, <1>2, <2>2 DEF Coalesce
    <3> QED BY <1>1, <3>1 DEF Stored, Goto, CheckoutIInv, TypeOK
  <2> QED BY <2>1, <2>2
<1>6. ASSUME NEW q \in Requests PROVE RequestOK(q)'
  <2>1. CASE q = r
    BY <1>1, <1>2, <2>1 DEF RequestOK, Goto, CheckoutIInv, TypeOK
  <2>2. CASE q # r
    <3>1. stage'[q] = stage[q] /\ customerId'[q] = customerId[q] /\ RequestOK(q)
      BY <2>2 DEF Goto, CheckoutIInv, TypeOK
    <3> QED BY <1>2, <3>1 DEF RequestOK
  <2> QED BY <2>1, <2>2
<1> QED BY <1>3, <1>4, <1>5, <1>6 DEF CheckoutIInv

\* What opening the session does, whether the request sees it or not.
LEMMA OpenEffect ==
  ASSUME CheckoutIInv,
         NEW r \in Requests, stage[r] = "opening", NEW next \in {"done", "failed"},
         Goto(r, next),
         sessions' = sessions \cup {[user |-> owner[r], customer |-> customerId[r]]},
         UNCHANGED <<owner, customerId, created, customer>>
  PROVE  CheckoutIInv'
<1>1. /\ owner[r] \in Users /\ customerId[r] \in Requests /\ customerId[r] = customer[owner[r]]
      /\ customerId[r] \in created
  BY DEF CheckoutIInv, TypeOK, RequestOK, Stored
<1>2. TypeOK'
  BY <1>1 DEF CheckoutIInv, TypeOK, Goto
<1>3. SessionsAreLinked'
  BY <1>1 DEF CheckoutIInv, SessionsAreLinked
<1>4. \A v \in Users : Stored(v)'
  BY DEF CheckoutIInv, TypeOK, Stored, Goto
<1>5. \A q \in Requests : RequestOK(q)'
  BY DEF CheckoutIInv, TypeOK, RequestOK, Goto
<1> QED BY <1>2, <1>3, <1>4, <1>5 DEF CheckoutIInv

LEMMA CheckoutStepInv == CheckoutIInv /\ [Next]_vars => CheckoutIInv'
<1> SUFFICES ASSUME CheckoutIInv, [Next]_vars PROVE CheckoutIInv'
  OBVIOUS
<1>1. ASSUME NEW r \in Requests, NEW u \in Users, Begin(r, u) PROVE CheckoutIInv'
  <2>1. TypeOK' /\ SessionsAreLinked'
    BY <1>1 DEF Begin, Goto, CheckoutIInv, TypeOK, SessionsAreLinked
  <2>2. ASSUME NEW v \in Users PROVE Stored(v)'
    BY <1>1 DEF Begin, Goto, CheckoutIInv, TypeOK, Stored
  <2>3. ASSUME NEW q \in Requests PROVE RequestOK(q)'
    BY <1>1 DEF Begin, Goto, CheckoutIInv, TypeOK, RequestOK
  <2> QED BY <2>1, <2>2, <2>3 DEF CheckoutIInv
<1>2. ASSUME NEW r \in Requests, ReadCustomer(r) PROVE CheckoutIInv'
  <2>0. owner[r] \in Users
    BY <1>2 DEF ReadCustomer, CheckoutIInv, RequestOK
  <2>1. TypeOK' /\ SessionsAreLinked'
    BY <1>2, <2>0 DEF ReadCustomer, Goto, CheckoutIInv, TypeOK, SessionsAreLinked
  <2>2. ASSUME NEW v \in Users PROVE Stored(v)'
    BY <1>2 DEF ReadCustomer, Goto, CheckoutIInv, TypeOK, Stored
  <2>3. ASSUME NEW q \in Requests PROVE RequestOK(q)'
    BY <1>2, <2>0 DEF ReadCustomer, Goto, CheckoutIInv, TypeOK, RequestOK
  <2> QED BY <2>1, <2>2, <2>3 DEF CheckoutIInv
<1>3. ASSUME NEW r \in Requests, stage[r] = "creating",
             \/ stage' = [stage EXCEPT ![r] = "linking"] /\ created' = created \cup {r}
             \/ stage' = [stage EXCEPT ![r] = "failed"] /\ created' \in {created, created \cup {r}},
             UNCHANGED <<owner, customerId, sessions, customer>>
      PROVE  CheckoutIInv'
  <2>1. TypeOK'
    BY <1>3 DEF CheckoutIInv, TypeOK
  <2>2. SessionsAreLinked'
    BY <1>3 DEF CheckoutIInv, SessionsAreLinked
  <2>3. ASSUME NEW v \in Users PROVE Stored(v)'
    BY <1>3 DEF CheckoutIInv, TypeOK, Stored
  <2>4. ASSUME NEW q \in Requests PROVE RequestOK(q)'
    BY <1>3 DEF CheckoutIInv, TypeOK, RequestOK
  <2> QED BY <2>1, <2>2, <2>3, <2>4 DEF CheckoutIInv
<1>4. ASSUME NEW r \in Requests, LinkCustomer(r) PROVE CheckoutIInv'
  BY <1>4, StoreEffect DEF LinkCustomer, Winner
<1>5. ASSUME NEW r \in Requests, OpenSession(r) PROVE CheckoutIInv'
  BY <1>5, OpenEffect DEF OpenSession
<1>6. ASSUME NEW r \in Requests, Fails(r) PROVE CheckoutIInv'
  <2>1. CASE stage[r] \in {"reading", "creating", "linking", "opening"}
             /\ UNCHANGED <<created, customer, sessions>>
    <3>1. TypeOK' /\ SessionsAreLinked'
      BY <1>6, <2>1 DEF Fails, Goto, CheckoutIInv, TypeOK, SessionsAreLinked
    <3>2. ASSUME NEW v \in Users PROVE Stored(v)'
      BY <1>6, <2>1 DEF Fails, Goto, CheckoutIInv, TypeOK, Stored
    <3>3. ASSUME NEW q \in Requests PROVE RequestOK(q)'
      BY <1>6, <2>1 DEF Fails, Goto, CheckoutIInv, TypeOK, RequestOK
    <3> QED BY <3>1, <3>2, <3>3 DEF CheckoutIInv
  <2>2. CASE stage[r] = "creating" /\ created' = created \cup {r} /\ UNCHANGED <<customer, sessions>>
    BY <1>3, <1>6, <2>2 DEF Fails, Goto
  <2>3. CASE /\ stage[r] = "linking" /\ UNCHANGED <<created, sessions>>
             /\ customer' = [customer EXCEPT ![owner[r]] = Coalesce(owner[r], r)]
    BY <1>6, <2>3, StoreEffect DEF Fails
  <2>4. CASE /\ stage[r] = "opening" /\ UNCHANGED <<created, customer>>
             /\ sessions' = sessions \cup {[user |-> owner[r], customer |-> customerId[r]]}
    BY <1>6, <2>4, OpenEffect DEF Fails
  <2> QED BY <1>6, <2>1, <2>2, <2>3, <2>4 DEF Fails
<1>7. CASE UNCHANGED vars
  BY <1>7 DEF vars, CheckoutIInv, TypeOK, Stored, RequestOK, SessionsAreLinked
<1>8. ASSUME NEW r \in Requests, CreateCustomer(r) PROVE CheckoutIInv'
  BY <1>3, <1>8 DEF CreateCustomer, Goto
<1> QED BY <1>1, <1>2, <1>4, <1>5, <1>6, <1>7, <1>8 DEF Next, RequestStep

LEMMA CheckoutInvariant == Spec => []CheckoutIInv
BY CheckoutInitInv, CheckoutStepInv, PTL DEF Spec

\* However requests race, fail and are repeated, a session is opened for the
\* customer stored for its user: the webhook can always map its events.
THEOREM SessionsLinked == Spec => []SessionsAreLinked
<1>1. CheckoutIInv => SessionsAreLinked
  BY DEF CheckoutIInv
<1> QED BY <1>1, CheckoutInvariant, PTL

\* All sessions of a user share one customer, and two users never share one.
THEOREM BillingHistoryIsOne == Spec => []OneBillingHistory
<1>1. ASSUME CheckoutIInv PROVE OneBillingHistory
  <2> SUFFICES ASSUME NEW s \in sessions, NEW t \in sessions
               PROVE  s.user = t.user <=> s.customer = t.customer
    BY DEF OneBillingHistory
  <2>1. /\ s.user \in Users /\ t.user \in Users
        /\ s.customer \in Requests /\ t.customer \in Requests
    BY <1>1 DEF CheckoutIInv, TypeOK
  <2>2. customer[s.user] = s.customer /\ customer[t.user] = t.customer
    BY <1>1 DEF CheckoutIInv, SessionsAreLinked
  <2>3. owner[s.customer] = s.user /\ owner[t.customer] = t.user
    BY <1>1, <2>1, <2>2 DEF CheckoutIInv, Stored
  <2> QED BY <2>2, <2>3
<1> QED BY <1>1, CheckoutInvariant, PTL

\* Requests, customers and sessions keep their types: every session names a
\* user and a customer that some request created.
THEOREM CheckoutTypeCorrect == Spec => []TypeOK
<1>1. CheckoutIInv => TypeOK
  BY DEF CheckoutIInv
<1> QED BY <1>1, CheckoutInvariant, PTL

\* A step of a request stores no customer, or stores its own for a user who
\* has none, which nobody else can have.
LEMMA StoringIsLinking ==
  ASSUME CheckoutIInv, NEW r \in Requests, RequestStep(r), customer' # customer
  PROVE  \E u \in Users : Mirror!Link(u, r)
<1>1. /\ stage[r] = "linking"
      /\ customer' = [customer EXCEPT ![owner[r]] = Coalesce(owner[r], r)]
  BY DEF RequestStep, Begin, ReadCustomer, CreateCustomer, LinkCustomer, OpenSession, Fails
<1>2. owner[r] \in Users
  BY <1>1 DEF CheckoutIInv, RequestOK
<1>3. customer[owner[r]] = NoCustomer
  <2>1. ASSUME customer[owner[r]] # NoCustomer PROVE FALSE
    <3>1. Coalesce(owner[r], r) = customer[owner[r]]
      BY <2>1 DEF Coalesce
    <3>2. customer \in [Users -> Requests \cup {NoCustomer}]
      BY DEF CheckoutIInv, TypeOK
    <3> QED BY <1>1, <1>2, <3>1, <3>2
  <2> QED BY <2>1
<1>4. \A v \in Users : customer[v] # r
  BY <1>1 DEF CheckoutIInv, Stored
<1>5. customer' = [customer EXCEPT ![owner[r]] = r]
  BY <1>1, <1>3 DEF Coalesce
<1> QED BY <1>2, <1>3, <1>4, <1>5 DEF Mirror!Link

\* Checkout writes the subscriptions table only as SubscriptionMirror allows:
\* a customer is stored once, for one user, and never replaced.
THEOREM MirrorKept == Spec => KeepsMirror
<1>1. Init => Mirror!Init
  BY DEF Init, Mirror!Init
<1>2. ASSUME CheckoutIInv, [Next]_vars PROVE [Mirror!Next]_(Mirror!mirror)
  <2>1. CASE customer' = customer
    BY <2>1 DEF Mirror!mirror
  <2>2. CASE customer' # customer
    <3>1. PICK r \in Requests : RequestStep(r)
      BY <1>2, <2>2 DEF Next, vars
    <3>2. \E u \in Users : Mirror!Link(u, r)
      BY <1>2, <2>2, <3>1, StoringIsLinking
    <3> QED BY <3>2 DEF Mirror!Next
  <2> QED BY <2>1, <2>2
<1> QED BY <1>1, <1>2, CheckoutInvariant, PTL DEF Spec, KeepsMirror, Mirror!Spec

HIDE CheckoutAssumption DEF CheckoutAssumption, Stages
===============================================================================
