--------------------------- MODULE PipelineProofs ---------------------------
(***************************************************************************)
(* For every number of objects, revisions, bundles, workers and faults:    *)
(* what the components hand to each other is what the next one takes.      *)
(***************************************************************************)
EXTENDS Pipeline, WellFoundedInduction, TLAPS

Accepted ==
  {i \in 1 .. Len(Candidates) : IsCandidate(Candidates[i]) /\ CanBuildCommand(Candidates[i])}

CommandSet == {CommandFor(Candidates[i], b) : i \in Accepted, b \in Bundles}

SelectionSet ==
  [coarse : DOMAIN SourceType, source : {NoSource} \cup {RunOf(c.job) : c \in CommandSet},
   sourceRevision : Int, sourceEpochs : Int]

RunSet ==
  {Run(c, s, e, x) : c \in CommandSet, s \in SelectionSet, e \in Int, x \in BOOLEAN}

ResultSet == {ResultFor(r) : r \in RunSet}

TaskSet ==
  [pc : {"prepare", "classify", "publish", "reject"}, command : Nat, selection : SelectionSet]

TypeInv ==
  /\ TypeOK
  /\ commands \in Seq(CommandSet)
  /\ results \in Seq(ResultSet)
  /\ rows \in Seq(RunSet)
  /\ task \in [Workers -> TaskSet \cup {NoTask}]

(* The row that a selection reuses is in the table. *)
HasSource(s, c, table) ==
  s.coarse = "REUSE_PREVIOUS" =>
    \E k \in 1 .. Len(table) :
      /\ table[k].run = s.source
      /\ table[k].object = c.object /\ table[k].bundle = c.bundle
      /\ table[k].revision = s.sourceRevision /\ table[k].revision < c.revision
      /\ table[k].epochs = s.sourceEpochs
      /\ table[k].xgboost

CurveOf(c) == Curves[<<c.object, c.revision>>]

Fits(c, bundle) ==
  /\ ReadsRevision(CurveOf(c), c.object, c.revision)
  /\ Prepares(CurveOf(c), c.declaredEpochs)
  /\ bundle = c.bundle

(* What a worker knows between the preparation and the publish: the curve  *)
(* it read will not go away, and the mode was selected for it.             *)
Selected(c, bundle, s, missing, table) ==
  /\ <<c.object, c.revision>> \notin missing
  /\ Fits(c, bundle)
  /\ SourceMaps(c, s, CurveOf(c).count, s.coarse # "REUSE_PREVIOUS")
  /\ s.coarse # "REUSE_PREVIOUS" => s.source = NoSource
  /\ HasSource(s, c, table)

WorkHolds(t, known, bundle, missing, table) ==
  t # NoTask =>
    /\ t.pc \in {"classify", "publish"} =>
         Selected(known[t.command], bundle, t.selection, missing, table)
    /\ t.pc = "reject" => ~Fits(known[t.command], bundle)

WorkInv == \A w \in Workers : WorkHolds(task[w], commands, Serves[w], late, rows)

(* The source of a run is in the table. *)
SourceStored(r, table) ==
  r.sourceType = "REUSED_PREVIOUS" =>
    \E k \in 1 .. Len(table) :
      /\ table[k].run = r.source
      /\ table[k].object = r.object /\ table[k].bundle = r.bundle
      /\ table[k].revision = r.sourceRevision /\ table[k].revision < r.revision
      /\ table[k].epochs = r.sourceEpochs
      /\ table[k].xgboost

Good(m, table) == IsResult(m) /\ TableAccepts(table, m.run) /\ SourceStored(m.run, table)

ResultsInv == \A i \in 1 .. Len(results) : Good(results[i], rows)

LettersInv == \A d \in commandDLQ : ~Fits(d.message, Serves[d.by])

IInv == TypeInv /\ WorkInv /\ ResultsInv /\ LettersInv

(* A topic or a table only grows. *)
Grew(old, new) ==
  /\ Len(old) <= Len(new)
  /\ \A i \in 1 .. Len(old) : new[i] = old[i]

-----------------------------------------------------------------------------
(* Commands, selections and runs. *)

(* Every command that is built decodes. *)
LEMMA CommandFacts ==
  ASSUME PipelineAssumption, NEW c \in CommandSet
  PROVE  /\ IsCommand(c)
         /\ c.object \in Objects
         /\ c.revision \in Int /\ c.candidateRevision \in Int
         /\ c.job = JobOf(c.object, c.revision, c.bundle, c.mode)
<1>1. PICK i \in Accepted, b \in Bundles : c = CommandFor(Candidates[i], b)
  BY DEF CommandSet
<1>2. /\ i \in 1 .. Len(Candidates)
      /\ IsCandidate(Candidates[i]) /\ CanBuildCommand(Candidates[i])
      /\ Candidates[i].revision \in Int /\ Candidates[i].candidateRevision \in Int
  BY DEF Accepted, PipelineAssumption
<1> QED
  BY <1>1, <1>2 DEF IsCommand, CommandFor, IsCandidate, CanBuildCommand, Modes, Objects

LEMMA RunFacts ==
  ASSUME PipelineAssumption, NEW r \in RunSet
  PROVE  /\ r.object \in Objects
         /\ r.revision \in Int /\ r.epochs \in Int /\ r.xgboost \in BOOLEAN
         /\ r.job = JobOf(r.object, r.revision, r.bundle, r.mode)
         /\ r.run = RunOf(r.job)
         /\ r.run \in {RunOf(c.job) : c \in CommandSet}
<1>1. PICK c \in CommandSet, s \in SelectionSet, e \in Int, x \in BOOLEAN : r = Run(c, s, e, x)
  BY DEF RunSet
<1>2. /\ r.object = c.object /\ r.revision = c.revision /\ r.epochs = e /\ r.xgboost = x
      /\ r.job = c.job /\ r.bundle = c.bundle /\ r.mode = c.mode /\ r.run = RunOf(c.job)
  BY <1>1 DEF Run
<1> QED
  BY <1>2, CommandFacts

LEMMA LeastNatural ==
  ASSUME NEW S \in SUBSET Nat, S # {}
  PROVE  \E n \in S : \A m \in S : n <= m
<1> DEFINE Smaller == {ss \in Nat \X Nat : ss[1] < ss[2]}
<1>1. IsWellFoundedOn(Smaller, Nat)
  BY NatLessThanWellFounded, Zenon DEF OpToRel
<1> HIDE DEF Smaller
<1>2. PICK n \in S : \A m \in S : <<m, n>> \notin Smaller
  BY <1>1, WFMin, Zenon
<1>3. \A m \in S : ~(m < n)
  BY <1>2 DEF Smaller
<1> QED
  BY <1>3

LEMMA GreatestInteger ==
  ASSUME NEW S \in SUBSET Int, S # {}, NEW bound \in Int, \A x \in S : x <= bound
  PROVE  \E n \in S : \A m \in S : m <= n
<1> DEFINE Back == {b \in Nat : bound - b \in S}
<1>1. \A x \in S : bound - x \in Back /\ bound - (bound - x) = x
  OBVIOUS
<1>2. Back \in SUBSET Nat /\ Back # {}
  BY <1>1
<1>3. PICK b \in Back : \A c \in Back : b <= c
  BY <1>2, LeastNatural
<1>4. ASSUME NEW m \in S PROVE m <= bound - b
  <2>1. b <= bound - m /\ b \in Nat /\ m \in Int
    BY <1>1, <1>3
  <2> QED
    BY <2>1
<1> QED
  BY <1>3, <1>4

(* ORDER BY ... LIMIT 1 finds one of the compatible rows, if there are any. *)
LEMMA LatestIsCompatible ==
  ASSUME PipelineAssumption, rows \in Seq(RunSet), NEW c \in CommandSet,
         Compatible(rows, c.object, c.revision, c.bundle) # {}
  PROVE  \E i \in Compatible(rows, c.object, c.revision, c.bundle) :
           LatestCompatible(rows, c.object, c.revision, c.bundle) = rows[i]
<1> DEFINE found == Compatible(rows, c.object, c.revision, c.bundle)
           Revisions == {rows[i].revision : i \in found}
<1>1. /\ found \subseteq 1 .. Len(rows) /\ found # {}
      /\ Len(rows) \in Nat /\ c.revision \in Int
      /\ \A i \in found : rows[i].revision \in Int /\ rows[i].revision <= c.revision
  <2>1. \A i \in 1 .. Len(rows) : rows[i].revision \in Int
    BY RunFacts
  <2>2. Len(rows) \in Nat /\ c.revision \in Int
    BY CommandFacts
  <2>3. \A i \in found : i \in 1 .. Len(rows) /\ rows[i].revision < c.revision
    BY DEF Compatible
  <2> HIDE DEF found
  <2>4. found # {}
    BY DEF found
  <2> QED
    BY <2>1, <2>2, <2>3, <2>4
<1> HIDE DEF found
<1>2. Revisions \in SUBSET Int /\ Revisions # {} /\ \A r \in Revisions : r <= c.revision
  BY <1>1
<1>3. PICK newest \in Revisions : \A r \in Revisions : r <= newest
  BY <1>1, <1>2, GreatestInteger
<1>4. \A i \in found : rows[i].revision <= newest
  BY <1>3
<1> DEFINE Newest == {i \in found : rows[i].revision = newest}
<1>5. Newest \in SUBSET Int /\ Newest # {} /\ \A i \in Newest : i <= Len(rows)
  <2>1. PICK i \in found : newest = rows[i].revision
    BY <1>3
  <2>2. i \in Newest
    BY <2>1
  <2>3. \A j \in found : j \in Int /\ j <= Len(rows)
    BY <1>1
  <2> QED
    BY <2>2, <2>3
<1>6. PICK i \in Newest : \A j \in Newest : j <= i
  <2>1. Len(rows) \in Int
    BY <1>1
  <2> HIDE DEF Newest
  <2> QED
    BY <2>1, <1>5, GreatestInteger
<1>7. ASSUME NEW j \in found \ {i}
      PROVE  rows[j].revision < newest \/ (rows[j].revision = newest /\ j < i)
  <2>1. rows[j].revision \in Int /\ newest \in Int /\ i \in Int /\ j \in Int
    BY <1>1, <1>2, <1>5, <1>6
  <2>2. CASE rows[j].revision = newest
    <3>1. j <= i /\ j # i
      BY <1>6, <2>2
    <3> QED
      BY <2>1, <2>2, <3>1
  <2>3. CASE rows[j].revision # newest
    <3>1. rows[j].revision <= newest
      BY <1>4
    <3> QED
      BY <2>1, <2>3, <3>1
  <2> QED
    BY <2>2, <2>3
<1>8. i \in found /\ rows[i].revision = newest
  BY <1>6
<1>9. IsLatest(rows, found, i)
  BY <1>7, <1>8 DEF IsLatest
<1>10. (CHOOSE k \in found : IsLatest(rows, found, k)) \in found
  BY <1>8, <1>9
<1> QED
  BY <1>10 DEF LatestCompatible, found

(* What is selected names a row that is there, and can be built.           *)
LEMMA SelectFacts ==
  ASSUME PipelineAssumption, rows \in Seq(RunSet), NEW c \in CommandSet, NEW e \in Int
  PROVE  LET s == Select(rows, c, e)
         IN  /\ s \in SelectionSet
             /\ s.coarse # "REUSE_PREVIOUS" => s.source = NoSource
             /\ IF s.coarse = "COMPUTE_CURRENT"
                THEN e <= MaximumComputeCurrentEpochs ELSE e > MaximumComputeCurrentEpochs
             /\ HasSource(s, c, rows)
<1> DEFINE s == Select(rows, c, e)
<1>1. CASE e <= MaximumComputeCurrentEpochs
  <2>1. s = Computed("COMPUTE_CURRENT")
    BY <1>1 DEF Select
  <2> QED
    BY <1>1, <2>1 DEF Computed, SelectionSet, SourceType, HasSource
<1>2. CASE e > MaximumComputeCurrentEpochs /\ Compatible(rows, c.object, c.revision, c.bundle) = {}
  <2>1. s = Computed("COMPUTE_BOOTSTRAP")
    BY <1>2 DEF Select, MaximumComputeCurrentEpochs
  <2> QED
    BY <1>2, <2>1 DEF Computed, SelectionSet, SourceType, HasSource
<1>3. CASE e > MaximumComputeCurrentEpochs /\ Compatible(rows, c.object, c.revision, c.bundle) # {}
  <2>1. PICK i \in Compatible(rows, c.object, c.revision, c.bundle) :
          LatestCompatible(rows, c.object, c.revision, c.bundle) = rows[i]
    BY <1>3, LatestIsCompatible
  <2>2. s = Reused(rows[i])
    BY <1>3, <2>1 DEF Select, MaximumComputeCurrentEpochs
  <2>3. /\ i \in 1 .. Len(rows) /\ rows[i] \in RunSet
        /\ rows[i].object = c.object /\ rows[i].bundle = c.bundle
        /\ rows[i].xgboost /\ rows[i].revision < c.revision
    BY <2>1 DEF Compatible
  <2>4. /\ rows[i].revision \in Int /\ rows[i].epochs \in Int
        /\ rows[i].run \in {RunOf(d.job) : d \in CommandSet}
    BY <2>3, RunFacts
  <2>5. s = [coarse |-> "REUSE_PREVIOUS", source |-> rows[i].run,
             sourceRevision |-> rows[i].revision, sourceEpochs |-> rows[i].epochs]
    BY <2>2 DEF Reused
  <2>6. HasSource(s, c, rows)
    BY <2>3, <2>5 DEF HasSource
  <2>7. s \in SelectionSet
    BY <2>4, <2>5 DEF SelectionSet, SourceType
  <2> QED
    BY <1>3, <2>5, <2>6, <2>7
<1> QED
  BY <1>1, <1>2, <1>3 DEF MaximumComputeCurrentEpochs

LEMMA EpochRange == \A e \in MinimumEpochs .. MaximumEpochs : e \in Int /\ e >= 3
  BY DEF MinimumEpochs, MaximumEpochs

(* What was selected becomes a result that every later stage takes. *)
LEMMA PublishedIsGood ==
  ASSUME PipelineAssumption, NEW table \in Seq(RunSet), NEW c \in CommandSet,
         NEW s \in SelectionSet, NEW bundle, NEW missing,
         Selected(c, bundle, s, missing, table)
  PROVE  LET r == Run(c, s, CurveOf(c).count, s.coarse # "REUSE_PREVIOUS")
         IN  r \in RunSet /\ Good(ResultFor(r), table)
<1> DEFINE e == CurveOf(c).count
           x == s.coarse # "REUSE_PREVIOUS"
           r == Run(c, s, e, x)
<1>1. /\ c.candidateRevision > 0 /\ c.revision > 0 /\ c.mode \in Modes
      /\ c.revision \in Int /\ c.candidateRevision \in Int
      /\ c.job = JobOf(c.object, c.revision, c.bundle, c.mode)
  BY CommandFacts DEF IsCommand
<1>2. e \in MinimumEpochs .. MaximumEpochs /\ e \in Int
  BY SMTT(30) DEF Selected, Fits, Prepares, MinimumEpochs, MaximumEpochs
<1>3. /\ s.coarse \in DOMAIN SourceType
      /\ s.coarse # "REUSE_PREVIOUS" => s.source = NoSource
      /\ HasSource(s, c, table) /\ SelectionHolds(s, c)
      /\ IF s.coarse = "COMPUTE_CURRENT"
         THEN e <= MaximumComputeCurrentEpochs ELSE e > MaximumComputeCurrentEpochs
  BY DEF Selected, SelectionSet, SourceMaps
<1> HIDE DEF e
<1>x. /\ x \in BOOLEAN
      /\ s.coarse = "REUSE_PREVIOUS" => x = FALSE
      /\ s.coarse # "REUSE_PREVIOUS" => x = TRUE
  OBVIOUS
<1> HIDE DEF x
<1>4. r \in RunSet
  BY <1>2, <1>x DEF RunSet
<1>5. /\ r.run = RunOf(c.job) /\ r.job = c.job /\ r.object = c.object
      /\ r.candidateRevision = c.candidateRevision /\ r.revision = c.revision
      /\ r.epochs = e /\ r.mode = c.mode /\ r.bundle = c.bundle /\ r.xgboost = x
      /\ r.sourceType = SourceType[s.coarse] /\ r.source = s.source
      /\ r.sourceRevision = IF s.coarse = "REUSE_PREVIOUS" THEN s.sourceRevision ELSE c.revision
      /\ r.sourceEpochs = IF s.coarse = "REUSE_PREVIOUS" THEN s.sourceEpochs ELSE e
  BY DEF Run
<1> HIDE DEF r
<1> DEFINE m == ResultFor(r)
<1>d. m.run = r /\ m.key = r.object
  BY DEF ResultFor
<1> HIDE DEF m
<1>s. SourceDecodes(r) => IsResult(m)
  BY <1>1, <1>2, <1>5, <1>d DEF IsResult, RunHolds
<1>6. ASSUME s.coarse = "REUSE_PREVIOUS" PROVE Good(m, table)
  <2>0. r.revision \in Int /\ r.epochs >= 3 /\ r.sourceEpochs >= 3
    <3>1. s.sourceEpochs \in MinimumEpochs .. MaximumEpochs
      BY <1>3, <1>6 DEF SelectionHolds
    <3>2. s.sourceEpochs >= 3 /\ e >= 3
      BY <1>2, <3>1, EpochRange
    <3> QED
      BY <1>1, <1>5, <1>6, <3>2
  <2>1. PICK k \in 1 .. Len(table) :
          /\ table[k].run = s.source
          /\ table[k].object = c.object /\ table[k].bundle = c.bundle
          /\ table[k].revision = s.sourceRevision /\ table[k].revision < c.revision
          /\ table[k].epochs = s.sourceEpochs
          /\ table[k].xgboost
    BY <1>3, <1>6 DEF HasSource
  <2>2. /\ table[k].run = RunOf(table[k].job)
        /\ table[k].job = JobOf(table[k].object, table[k].revision, table[k].bundle, table[k].mode)
        /\ table[k].revision \in Int
    BY RunFacts
  <2>3. r.source # NoSource /\ r.source # r.run
    <3>1. table[k].job # c.job
      BY <1>1, <2>1, <2>2 DEF JobOf
    <3> QED
      BY <1>5, <2>1, <2>2, <3>1 DEF RunOf, NoSource
  <2>4. /\ r.sourceType = "REUSED_PREVIOUS" /\ r.xgboost = FALSE
        /\ r.epochs > MaximumComputeCurrentEpochs
        /\ r.sourceRevision \in 1 .. r.revision - 1
        /\ r.sourceEpochs \in MinimumEpochs .. MaximumEpochs
    BY <1>2, <1>3, <1>5, <1>6, <1>x DEF SelectionHolds, SourceType, MinimumEpochs, MaximumEpochs,
                                        MaximumComputeCurrentEpochs
  <2>5. SourceStored(r, table)
    BY <1>5, <1>6, <2>1 DEF SourceStored
  <2>6. SourceDecodes(r)
    BY <2>3, <2>4 DEF SourceDecodes
  <2>7. TableAccepts(table, r)
    <3>1. r.sourceRevision > 0 /\ r.sourceRevision < r.revision
      BY <2>0, <2>4
    <3> QED
      BY <1>1, <1>5, <2>1, <2>3, <2>0, <2>4, <3>1 DEF TableAccepts
  <2> QED
    BY <1>d, <1>s, <2>5, <2>6, <2>7 DEF Good
<1>7. ASSUME s.coarse # "REUSE_PREVIOUS" PROVE Good(m, table)
  <2>1. /\ r.source = NoSource /\ r.xgboost = TRUE
        /\ r.sourceRevision = r.revision /\ r.sourceEpochs = r.epochs
        /\ \/ /\ r.sourceType = "COMPUTED_CURRENT"
              /\ r.epochs <= MaximumComputeCurrentEpochs
           \/ /\ r.sourceType = "COMPUTED_BOOTSTRAP"
              /\ r.epochs > MaximumComputeCurrentEpochs
    BY <1>2, <1>3, <1>5, <1>7, <1>x DEF SourceType, MaximumComputeCurrentEpochs
  <2>2. r.source # r.run
    BY <1>5, <2>1 DEF RunOf, NoSource
  <2>3. SourceDecodes(r) /\ SourceStored(r, table)
    BY <2>1 DEF SourceDecodes, SourceStored
  <2>4. TableAccepts(table, r)
    <3>1. r.epochs >= 3 /\ r.sourceEpochs >= 3 /\ r.sourceRevision > 0
      BY <1>1, <1>2, <1>5, <2>1 DEF MinimumEpochs, MaximumEpochs
    <3> QED
      BY <1>1, <1>5, <2>1, <2>2, <3>1 DEF TableAccepts
  <2> QED
    BY <1>d, <1>s, <2>3, <2>4 DEF Good
<1>8. Good(m, table)
  BY <1>6, <1>7
<1> QED
  BY <1>4, <1>8 DEF r, e, x, m

-----------------------------------------------------------------------------
(* What stays true while topics and tables grow. *)

LEMMA AppendGrows ==
  ASSUME NEW S, NEW old \in Seq(S), NEW new \in S
  PROVE  /\ Append(old, new) \in Seq(S) /\ Grew(old, Append(old, new))
         /\ Len(Append(old, new)) = Len(old) + 1
         /\ Append(old, new)[Len(old) + 1] = new
  BY DEF Grew

LEMMA SameGrows == ASSUME NEW old, Len(old) \in Nat PROVE Grew(old, old)
  BY DEF Grew

LEMMA GoodStays ==
  ASSUME NEW old \in Seq(RunSet), NEW new \in Seq(RunSet), Grew(old, new), NEW m, Good(m, old)
  PROVE  Good(m, new)
<1>1. \A k \in 1 .. Len(old) : k \in 1 .. Len(new) /\ new[k] = old[k]
  BY DEF Grew
<1>2. SourceStored(m.run, new)
  BY <1>1 DEF Good, SourceStored
<1>3. TableAccepts(new, m.run)
  BY <1>1 DEF Good, TableAccepts
<1> QED
  BY <1>2, <1>3 DEF Good

LEMMA WorkStays ==
  ASSUME NEW known \in Seq(CommandSet), NEW known2 \in Seq(CommandSet), Grew(known, known2),
         NEW table \in Seq(RunSet), NEW table2 \in Seq(RunSet), Grew(table, table2),
         NEW missing, NEW missing2 \in SUBSET missing, NEW bundle,
         NEW t, t # NoTask => t.command \in 1 .. Len(known),
         WorkHolds(t, known, bundle, missing, table)
  PROVE  WorkHolds(t, known2, bundle, missing2, table2)
<1> SUFFICES ASSUME t # NoTask PROVE WorkHolds(t, known2, bundle, missing2, table2)
  BY DEF WorkHolds
<1>1. known2[t.command] = known[t.command]
  BY DEF Grew
<1>2. \A k \in 1 .. Len(table) : k \in 1 .. Len(table2) /\ table2[k] = table[k]
  BY DEF Grew
<1>3. ASSUME NEW s, NEW c, HasSource(s, c, table) PROVE HasSource(s, c, table2)
  BY <1>2, <1>3 DEF HasSource
<1>4. ASSUME NEW s, NEW c, Selected(c, bundle, s, missing, table)
      PROVE  Selected(c, bundle, s, missing2, table2)
  BY <1>3, <1>4 DEF Selected
<1> QED
  BY <1>1, <1>4 DEF WorkHolds

-----------------------------------------------------------------------------
(* The parts of the invariant that a step has to show beyond the types:    *)
(* what changed of the tasks, the results and the dead letters.            *)
LEMMA Frame ==
  ASSUME PipelineAssumption, IInv, TypeInv',
         Grew(commands, commands'), Grew(rows, rows'), late' \subseteq late,
         Grew(results, results'),
         \A w \in Workers :
           task'[w] = task[w] \/ WorkHolds(task'[w], commands', Serves[w], late', rows'),
         \A i \in 1 .. Len(results') : i <= Len(results) \/ Good(results'[i], rows'),
         \A d \in commandDLQ' : d \in commandDLQ \/ ~Fits(d.message, Serves[d.by])
  PROVE  IInv'
<1>1. /\ commands \in Seq(CommandSet) /\ commands' \in Seq(CommandSet)
      /\ rows \in Seq(RunSet) /\ rows' \in Seq(RunSet)
      /\ \A w \in Workers : task[w] # NoTask => task[w].command \in 1 .. Len(commands)
  BY DEF IInv, TypeInv, TypeOK
<1>2. ASSUME NEW w \in Workers PROVE WorkHolds(task'[w], commands', Serves[w], late', rows')
  <2>1. CASE task'[w] = task[w]
    <3>1. WorkHolds(task[w], commands, Serves[w], late, rows)
      BY DEF IInv, WorkInv
    <3> QED
      BY <1>1, <2>1, <3>1, WorkStays
  <2> QED
    BY <2>1
<1>3. ASSUME NEW i \in 1 .. Len(results') PROVE Good(results'[i], rows')
  <2>1. CASE i <= Len(results)
    <3>1. i \in 1 .. Len(results)
      BY <2>1 DEF IInv, TypeInv
    <3>2. Good(results[i], rows) /\ results'[i] = results[i]
      BY <3>1 DEF IInv, ResultsInv, Grew
    <3> QED
      BY <1>1, <3>2, GoodStays
  <2> QED
    BY <2>1
<1>4. WorkInv'
  BY <1>2 DEF WorkInv
<1>5. ResultsInv'
  BY <1>3 DEF ResultsInv
<1>6. LettersInv'
  BY DEF IInv, LettersInv
<1> QED
  BY <1>4, <1>5, <1>6 DEF IInv

LEMMA InitInv == PipelineAssumption /\ Init => IInv
<1> SUFFICES ASSUME PipelineAssumption, Init PROVE IInv
  OBVIOUS
<1>1. TypeInv
  BY DEF PipelineAssumption, Init, TypeInv, TypeOK
<1>2. WorkInv
  BY DEF PipelineAssumption, Init, WorkInv, WorkHolds
<1>3. ResultsInv /\ LettersInv
  BY DEF Init, ResultsInv, LettersInv
<1> QED
  BY <1>1, <1>2, <1>3 DEF IInv

LEMMA PublishCommandInv ==
  ASSUME PipelineAssumption, IInv, CanCommand, PublishCommand,
         position' \in {position, position + 1}, faults' \in 0 .. MaxFaults,
         UNCHANGED <<deployed, candidateDLQ, handled, late, task, results, writer>>
  PROVE  IInv'
<1> USE DEF handled, writer
<1>1. position \in 1 .. Len(Candidates) /\ position \in Accepted /\ Len(Candidates) \in Nat
  BY DEF IInv, TypeInv, TypeOK, CanCommand, HasCandidate, Candidate, Accepted, PipelineAssumption
<1>2. CommandFor(Candidate, deployed) \in CommandSet
  BY <1>1 DEF IInv, TypeInv, TypeOK, CommandSet, Candidate
<1>3. /\ commands' \in Seq(CommandSet) /\ Grew(commands, commands')
      /\ Len(commands') = Len(commands) + 1 /\ Len(commands) \in Nat
  BY <1>2, AppendGrows DEF PublishCommand, IInv, TypeInv
<1>4. TypeInv'
  <2>1. commandsDone' \subseteq 1 .. Len(commands')
    BY <1>3 DEF IInv, TypeInv, TypeOK
  <2>2. \A d \in commandDLQ' :
          d.place \in commandsDone' /\ d.message = commands'[d.place] /\ d.by \in Workers
    BY <1>3 DEF IInv, TypeInv, TypeOK, Grew
  <2>3. \A w \in Workers :
         task'[w] # NoTask =>
           /\ task'[w].pc \in {"prepare", "classify", "publish", "reject"}
           /\ task'[w].command \in 1 .. Len(commands')
    BY <1>3 DEF IInv, TypeInv, TypeOK
  <2>4. position' \in 1 .. Len(Candidates) + 1
    BY <1>1
  <2>5. \A d \in candidateDLQ' : d.place \in 1 .. position' - 1 /\ d.message = Candidates[d.place]
    BY <1>1 DEF IInv, TypeInv, TypeOK
  <2> QED
    BY <1>3, <2>1, <2>2, <2>3, <2>4, <2>5 DEF IInv, TypeInv, TypeOK
<1>5. Grew(rows, rows') /\ Grew(results, results')
  BY SameGrows DEF IInv, TypeInv
<1> QED
  BY <1>3, <1>4, <1>5, Frame DEF IInv, TypeInv

LEMMA OrchestratorInv ==
  PipelineAssumption /\ IInv
    /\ (RejectCandidate \/ HandleCandidate \/ HandleCandidateAgain \/ Redeploy \/ CurveArrives)
    => IInv'
<1> SUFFICES ASSUME PipelineAssumption, IInv
             PROVE  RejectCandidate \/ HandleCandidate \/ HandleCandidateAgain \/ Redeploy
                      \/ CurveArrives => IInv'
  OBVIOUS
<1>1. faults \in 0 .. MaxFaults /\ MaxFaults \in Nat /\ Len(Candidates) \in Nat
      /\ position \in 1 .. Len(Candidates) + 1
  BY DEF IInv, TypeInv, TypeOK, PipelineAssumption
<1>2. HandleCandidate => IInv'
  BY <1>1, PublishCommandInv DEF HandleCandidate
<1>3. HandleCandidateAgain => IInv'
  BY <1>1, PublishCommandInv DEF HandleCandidateAgain, Fault, orchestrator
<1>4. Grew(commands, commands) /\ Grew(rows, rows) /\ Grew(results, results)
  BY SameGrows DEF IInv, TypeInv
<1>5. ASSUME RejectCandidate PROVE IInv'
  <2>1. /\ position \in 1 .. Len(Candidates) /\ position' = position + 1
        /\ candidateDLQ' = candidateDLQ \cup {CandidateDeadLetter}
        /\ UNCHANGED <<deployed, commands, handled, late, task, results, writer, faults>>
    BY <1>1, <1>5 DEF RejectCandidate, HasCandidate
  <2>2. \A d \in candidateDLQ' : d.place \in 1 .. position' - 1 /\ d.message = Candidates[d.place]
    BY <2>1 DEF IInv, TypeInv, TypeOK, CandidateDeadLetter, Candidate
  <2>3. TypeInv'
    BY <1>1, <2>1, <2>2 DEF IInv, TypeInv, TypeOK, handled, writer
  <2> QED
    BY <1>4, <2>1, <2>3, Frame DEF IInv, TypeInv, handled, writer
<1>6. ASSUME Redeploy \/ CurveArrives PROVE IInv'
  <2>1. /\ deployed' \in Bundles /\ late' \subseteq late
        /\ UNCHANGED <<position, candidateDLQ, commands, handled, task, results, writer, faults>>
    BY <1>6 DEF Redeploy, CurveArrives, orchestrator, IInv, TypeInv, TypeOK
  <2>2. TypeInv'
    BY <2>1 DEF IInv, TypeInv, TypeOK, handled, writer
  <2> QED
    BY <1>4, <2>1, <2>2, Frame DEF IInv, TypeInv, handled, writer
<1> QED
  BY <1>2, <1>3, <1>5, <1>6

-----------------------------------------------------------------------------
(* The workers. *)

(* A step of one worker that changes its task and publishes nothing. *)
LEMMA TaskInv ==
  ASSUME PipelineAssumption, IInv, NEW w \in Workers,
         NEW t \in TaskSet \cup {NoTask}, task' = [task EXCEPT ![w] = t],
         t # NoTask => t.command \in 1 .. Len(commands),
         WorkHolds(t, commands, Serves[w], late, rows),
         faults' \in 0 .. MaxFaults,
         UNCHANGED <<orchestrator, commands, handled, late, results, writer>>
  PROVE  IInv'
<1> USE DEF orchestrator, handled, writer
<1>1. task \in [Workers -> TaskSet \cup {NoTask}]
  BY DEF IInv, TypeInv
<1>2. \A v \in Workers : task'[v] = IF v = w THEN t ELSE task[v]
  BY <1>1
<1>3. \A v \in Workers :
        task'[v] # NoTask =>
          /\ task'[v].pc \in {"prepare", "classify", "publish", "reject"}
          /\ task'[v].command \in 1 .. Len(commands')
  BY <1>2 DEF IInv, TypeInv, TypeOK, TaskSet
<1>4. TypeInv'
  BY <1>1, <1>3 DEF IInv, TypeInv, TypeOK
<1>5. Grew(commands, commands') /\ Grew(rows, rows') /\ Grew(results, results')
  BY SameGrows DEF IInv, TypeInv
<1> QED
  BY <1>2, <1>4, <1>5, Frame DEF IInv, TypeInv

LEMMA TaskFacts ==
  ASSUME IInv, NEW w \in Workers, task[w] # NoTask
  PROVE  /\ task[w] \in TaskSet /\ task[w].command \in 1 .. Len(commands)
         /\ Command(w) \in CommandSet /\ Command(w) = commands[task[w].command]
         /\ WorkHolds(task[w], commands, Serves[w], late, rows)
  BY DEF IInv, TypeInv, TypeOK, WorkInv, Command

LEMMA ComputedSelection == Computed("COMPUTE_CURRENT") \in SelectionSet
  BY DEF Computed, SelectionSet, SourceType

LEMMA BeginInv ==
  ASSUME PipelineAssumption, IInv, NEW w \in Workers, NEW i \in 1 .. Len(commands), Begin(w, i),
         faults' \in 0 .. MaxFaults
  PROVE  IInv'
<1> DEFINE t == [pc |-> "prepare", command |-> i, selection |-> Computed("COMPUTE_CURRENT")]
<1>1. commands[i] \in CommandSet /\ i \in Nat
  BY DEF IInv, TypeInv
<1>2. task' = [task EXCEPT ![w] = t]
  BY <1>1, CommandFacts DEF Begin
<1>3. t \in TaskSet /\ t.command = i /\ t.pc = "prepare"
  BY <1>1, ComputedSelection DEF TaskSet
<1>4. WorkHolds(t, commands, Serves[w], late, rows)
  BY <1>3 DEF WorkHolds
<1> HIDE DEF t
<1> QED
  BY <1>2, <1>3, <1>4, TaskInv DEF Begin

(* The step of a worker that changes where it stands or what it selected.  *)
LEMMA SetTaskInv ==
  ASSUME PipelineAssumption, IInv, NEW w \in Workers, task[w] # NoTask,
         NEW pc \in {"prepare", "classify", "publish", "reject"}, NEW s \in SelectionSet,
         SetTask(w, pc, s),
         pc \in {"classify", "publish"} => Selected(Command(w), Serves[w], s, late, rows),
         pc = "reject" => ~Fits(Command(w), Serves[w]),
         faults' \in 0 .. MaxFaults,
         UNCHANGED <<orchestrator, commands, handled, late, results, writer>>
  PROVE  IInv'
<1> DEFINE t == [pc |-> pc, command |-> task[w].command, selection |-> s]
<1>1. task \in [Workers -> TaskSet \cup {NoTask}] /\ task[w] \in TaskSet
  BY TaskFacts DEF IInv, TypeInv
<1>2. task' = [task EXCEPT ![w] = t]
  BY DEF SetTask
<1>3. /\ t \in TaskSet /\ t.command \in 1 .. Len(commands) /\ commands[t.command] = Command(w)
      /\ t.pc = pc /\ t.selection = s
  BY <1>1, TaskFacts DEF TaskSet
<1>4. WorkHolds(t, commands, Serves[w], late, rows)
  BY <1>3 DEF WorkHolds
<1> HIDE DEF t
<1> QED
  BY <1>2, <1>3, <1>4, TaskInv

LEMMA PrepareInv == ASSUME PipelineAssumption, IInv, NEW w \in Workers, Prepare(w) PROVE IInv'
<1> DEFINE c == Command(w)
           s == Select(rows, c, Curve(w).count)
<1>1. /\ task[w] # NoTask /\ ~ReadAgain(Curve(w)) /\ faults' \in 0 .. MaxFaults
      /\ UNCHANGED <<orchestrator, commands, handled, late, results, writer>>
  BY DEF Prepare, IInv, TypeInv, TypeOK
<1>2. c \in CommandSet /\ task[w].selection \in SelectionSet
  BY <1>1, TaskFacts DEF TaskSet
<1>3. <<c.object, c.revision>> \notin late /\ Curve(w) = CurveOf(c)
  <2>1. CASE <<c.object, c.revision>> \in late
    <3>1. Curve(w) = [status |-> 409]
      BY <2>1 DEF Curve, CurveKey
    <3> QED
      BY <1>1, <3>1 DEF ReadAgain
  <2>2. CASE <<c.object, c.revision>> \notin late
    BY <2>2 DEF Curve, CurveKey, CurveOf
  <2> QED
    BY <2>1, <2>2
<1>4. CanPrepare(w) <=> Fits(c, Serves[w])
  BY <1>3 DEF CanPrepare, Fits
<1>5. CASE ~CanPrepare(w)
  <2>1. SetTask(w, "reject", task[w].selection)
    BY <1>5 DEF Prepare
  <2> QED
    BY <1>1, <1>2, <1>4, <1>5, <2>1, SetTaskInv
<1>6. CASE CanPrepare(w)
  <2>1. Curve(w).count \in Int
    BY <1>6 DEF CanPrepare, Prepares, MinimumEpochs, MaximumEpochs
  <2>2. rows \in Seq(RunSet)
    BY DEF IInv, TypeInv
  <2>3. /\ s \in SelectionSet
        /\ s.coarse # "REUSE_PREVIOUS" => s.source = NoSource
        /\ IF s.coarse = "COMPUTE_CURRENT"
           THEN Curve(w).count <= MaximumComputeCurrentEpochs
           ELSE Curve(w).count > MaximumComputeCurrentEpochs
        /\ HasSource(s, c, rows)
    BY <1>2, <2>1, <2>2, SelectFacts
  <2>4. SelectionHolds(s, c) => Selected(c, Serves[w], s, late, rows)
    BY <1>3, <1>4, <1>6, <2>3 DEF Selected, SourceMaps
  <2>5. SetTask(w, IF SelectionHolds(s, c) THEN "classify" ELSE "prepare", s)
    BY <1>6 DEF Prepare
  <2> HIDE DEF c, s
  <2>6. CASE SelectionHolds(s, c)
    <3>1. SetTask(w, "classify", s) /\ Selected(c, Serves[w], s, late, rows)
      BY <2>4, <2>5, <2>6
    <3> QED
      BY <1>1, <2>3, <3>1, SetTaskInv DEF c
  <2>7. CASE ~SelectionHolds(s, c)
    <3>1. SetTask(w, "prepare", s)
      BY <2>5, <2>7
    <3> QED
      BY <1>1, <2>3, <3>1, SetTaskInv
  <2> QED
    BY <2>6, <2>7
<1> QED
  BY <1>5, <1>6

(* What was selected can be built: no command is rejected after its        *)
(* preparation.                                                            *)
LEMMA ClassifyInv == ASSUME PipelineAssumption, IInv, NEW w \in Workers, Classify(w) PROVE IInv'
<1> DEFINE c == Command(w)
           s == task[w].selection
<1>1. /\ task[w] # NoTask /\ task[w].pc = "classify" /\ faults' \in 0 .. MaxFaults
      /\ UNCHANGED <<orchestrator, commands, handled, late, results, writer>>
  BY DEF Classify, IInv, TypeInv, TypeOK
<1>2. /\ c \in CommandSet /\ s \in SelectionSet
      /\ Selected(c, Serves[w], s, late, rows)
  BY <1>1, TaskFacts DEF TaskSet, WorkHolds
<1>3. Curve(w) = CurveOf(c)
  BY <1>2 DEF Curve, CurveKey, CurveOf, Selected
<1>4. /\ c.candidateRevision > 0 /\ c.revision > 0 /\ c.mode \in Modes
  BY <1>2, CommandFacts DEF IsCommand
<1>5. PreparedForRun(Curve(w)) /\ Serves[w] = c.bundle
  BY <1>2, <1>3, <1>4 DEF Selected, Fits, ReadsRevision, Prepares, PreparedForRun
<1>6. SourceMaps(c, s, Curve(w).count, Executed(w))
  BY <1>2, <1>3 DEF Selected, Executed
<1>7. CanBuildRun(c, Serves[w], Curve(w), s, Executed(w))
  BY <1>4, <1>5, <1>6 DEF CanBuildRun
<1>8. SetTask(w, "publish", s)
  BY <1>7 DEF Classify
<1> QED
  BY <1>1, <1>2, <1>8, SetTaskInv

(* The result of a worker is appended to the topic, and its task goes on   *)
(* with t.                                                                 *)
LEMMA PublishedInv ==
  ASSUME PipelineAssumption, IInv, NEW w \in Workers, task[w] # NoTask, task[w].pc = "publish",
         PublishResult(w),
         NEW t \in {NoTask, [pc |-> "prepare", command |-> task[w].command,
                             selection |-> task[w].selection]},
         task' = [task EXCEPT ![w] = t],
         commandsDone' \in {commandsDone, commandsDone \cup {task[w].command}},
         faults' \in 0 .. MaxFaults,
         UNCHANGED <<orchestrator, commands, commandDLQ, late, writer>>
  PROVE  IInv'
<1> DEFINE c == Command(w)
           s == task[w].selection
           x == s.coarse # "REUSE_PREVIOUS"
           m == ResultFor(Run(c, s, CurveOf(c).count, x))
<1>1. /\ c \in CommandSet /\ s \in SelectionSet /\ task[w].command \in 1 .. Len(commands)
      /\ Selected(c, Serves[w], s, late, rows)
      /\ task[w] \in TaskSet
  BY TaskFacts DEF TaskSet, WorkHolds
<1>2. Curve(w) = CurveOf(c)
  BY <1>1 DEF Curve, CurveKey, CurveOf, Selected
<1>3. results' = Append(results, m)
  BY <1>2 DEF PublishResult, Executed
<1>4. m \in ResultSet /\ Good(m, rows)
  <2>1. rows \in Seq(RunSet)
    BY DEF IInv, TypeInv
  <2>2. Run(c, s, CurveOf(c).count, x) \in RunSet /\ Good(m, rows)
    BY <1>1, <2>1, PublishedIsGood
  <2> QED
    BY <2>2 DEF ResultSet
<1> HIDE DEF m
<1>5. /\ results' \in Seq(ResultSet) /\ Grew(results, results')
      /\ Len(results) \in Nat /\ Len(results') = Len(results) + 1
      /\ results'[Len(results) + 1] = m
  BY <1>3, <1>4, AppendGrows DEF IInv, TypeInv
<1>6. \A i \in 1 .. Len(results') : i <= Len(results) \/ Good(results'[i], rows')
  <2>1. rows' = rows
    BY DEF writer
  <2>2. \A i \in 1 .. Len(results') : i <= Len(results) \/ i = Len(results) + 1
    BY <1>5
  <2> QED
    BY <1>4, <1>5, <2>1, <2>2
<1>7. \A v \in Workers : task'[v] = task[v] \/ task'[v] = t
  BY DEF IInv, TypeInv
<1>8. /\ t \in TaskSet \cup {NoTask}
      /\ t # NoTask => t.pc = "prepare" /\ t.command = task[w].command
  BY <1>1 DEF TaskSet
<1>9. WorkHolds(t, commands', Serves[w], late', rows')
  BY <1>8 DEF WorkHolds
<1>10. TypeInv'
  <2>1. task' \in [Workers -> TaskSet \cup {NoTask}]
    BY <1>8 DEF IInv, TypeInv
  <2>2. \A v \in Workers :
          task'[v] # NoTask =>
            /\ task'[v].pc \in {"prepare", "classify", "publish", "reject"}
            /\ task'[v].command \in 1 .. Len(commands')
    BY <1>1, <1>7, <1>8 DEF IInv, TypeInv, TypeOK
  <2>3. commandsDone' \subseteq 1 .. Len(commands') /\ commandsDone \subseteq commandsDone'
    BY <1>1 DEF IInv, TypeInv, TypeOK
  <2>4. resultsDone' \subseteq 1 .. Len(results')
    BY <1>5 DEF IInv, TypeInv, TypeOK, writer
  <2>5. \A d \in resultDLQ' : d.place \in 1 .. Len(results') /\ d.message = results'[d.place]
    BY <1>5 DEF IInv, TypeInv, TypeOK, writer, Grew
  <2> QED
    BY <1>5, <2>1, <2>2, <2>3, <2>4, <2>5 DEF IInv, TypeInv, TypeOK, orchestrator, writer
<1>11. Grew(commands, commands') /\ Grew(rows, rows')
  BY SameGrows DEF IInv, TypeInv, writer
<1>12. \A v \in Workers :
         task'[v] = task[v] \/ WorkHolds(task'[v], commands', Serves[v], late', rows')
  BY <1>7, <1>8 DEF WorkHolds
<1> QED
  BY <1>5, <1>6, <1>10, <1>11, <1>12, Frame

LEMMA PublishInv ==
  ASSUME PipelineAssumption, IInv, NEW w \in Workers, Publish(w) \/ Retry(w) PROVE IInv'
<1> DEFINE again == [pc |-> "prepare", command |-> task[w].command, selection |-> task[w].selection]
<1>1. faults \in 0 .. MaxFaults /\ MaxFaults \in Nat /\ task[w] # NoTask
  BY DEF IInv, TypeInv, TypeOK, PipelineAssumption, Publish, Retry
<1>2. CASE Publish(w)
  <2>1. /\ task[w].pc = "publish" /\ PublishResult(w)
        /\ task' = [task EXCEPT ![w] = NoTask]
        /\ commandsDone' = commandsDone \cup {task[w].command}
        /\ faults' \in 0 .. MaxFaults
        /\ UNCHANGED <<orchestrator, commands, commandDLQ, late, writer>>
    BY <1>1, <1>2 DEF Publish, EndTask, CommandDone
  <2> QED
    BY <1>1, <2>1, PublishedInv
<1>3. CASE Retry(w)
  <2>1. /\ SetTask(w, "prepare", task[w].selection)
        /\ faults' \in 0 .. MaxFaults
        /\ UNCHANGED <<orchestrator, commands, handled, late, writer>>
        /\ UNCHANGED results \/ (task[w].pc = "publish" /\ PublishResult(w))
    BY <1>1, <1>3 DEF Retry, Fault
  <2>2. CASE UNCHANGED results
    <3>1. task[w].selection \in SelectionSet
      BY <1>1, TaskFacts DEF TaskSet
    <3> QED
      BY <1>1, <2>1, <2>2, <3>1, SetTaskInv
  <2>3. CASE task[w].pc = "publish" /\ PublishResult(w)
    <3>1. task' = [task EXCEPT ![w] = again]
      BY <2>1 DEF SetTask
    <3>2. UNCHANGED <<commandsDone, commandDLQ>>
      BY <2>1 DEF handled
    <3> HIDE DEF again
    <3>3. again \in {NoTask, again}
      OBVIOUS
    <3> QED
      BY <1>1, <2>1, <2>3, <3>1, <3>2, <3>3, PublishedInv DEF again
  <2> QED
    BY <2>1, <2>2, <2>3
<1> QED
  BY <1>2, <1>3

LEMMA RejectInv == ASSUME PipelineAssumption, IInv, NEW w \in Workers, Reject(w) PROVE IInv'
<1> USE DEF orchestrator, writer
<1>1. /\ task[w] # NoTask /\ task[w].pc = "reject"
      /\ task' = [task EXCEPT ![w] = NoTask]
      /\ commandsDone' = commandsDone \cup {task[w].command}
      /\ commandDLQ' = commandDLQ \cup {CommandDeadLetter(w)}
      /\ UNCHANGED <<orchestrator, commands, late, results, writer, faults>>
  BY DEF Reject, CommandDone, EndTask
<1>2. /\ task[w].command \in 1 .. Len(commands) /\ Command(w) = commands[task[w].command]
      /\ ~Fits(Command(w), Serves[w])
  BY <1>1, TaskFacts DEF WorkHolds
<1>3. \A v \in Workers : task'[v] = task[v] \/ task'[v] = NoTask
  BY <1>1 DEF IInv, TypeInv
<1>4. TypeInv'
  <2>1. \A d \in commandDLQ' :
          d.place \in commandsDone' /\ d.message = commands'[d.place] /\ d.by \in Workers
    BY <1>1, <1>2 DEF IInv, TypeInv, TypeOK, CommandDeadLetter
  <2>2. commandsDone' \subseteq 1 .. Len(commands')
    BY <1>1, <1>2 DEF IInv, TypeInv, TypeOK
  <2>3. task' \in [Workers -> TaskSet \cup {NoTask}]
    BY <1>1 DEF IInv, TypeInv
  <2>4. \A v \in Workers :
          task'[v] # NoTask =>
            /\ task'[v].pc \in {"prepare", "classify", "publish", "reject"}
            /\ task'[v].command \in 1 .. Len(commands')
    BY <1>1, <1>3 DEF IInv, TypeInv, TypeOK
  <2> QED
    BY <1>1, <2>1, <2>2, <2>3, <2>4 DEF IInv, TypeInv, TypeOK
<1>5. Grew(commands, commands') /\ Grew(rows, rows') /\ Grew(results, results')
  BY <1>1, SameGrows DEF IInv, TypeInv
<1>6. \A d \in commandDLQ' : d \in commandDLQ \/ ~Fits(d.message, Serves[d.by])
  BY <1>1, <1>2 DEF CommandDeadLetter
<1>7. \A v \in Workers :
        task'[v] = task[v] \/ WorkHolds(task'[v], commands', Serves[v], late', rows')
  BY <1>3 DEF WorkHolds
<1> QED
  BY <1>1, <1>4, <1>5, <1>6, <1>7, Frame DEF IInv, TypeInv

LEMMA WorkerInv ==
  ASSUME PipelineAssumption, IInv, NEW w \in Workers, Work(w) \/ Fails(w) PROVE IInv'
<1>1. faults \in 0 .. MaxFaults /\ MaxFaults \in Nat
  BY DEF IInv, TypeInv, TypeOK, PipelineAssumption
<1>2. CASE Take(w) \/ TakeAgain(w)
  <2>1. faults' \in 0 .. MaxFaults
    BY <1>1, <1>2 DEF Take, TakeAgain, Fault
  <2>2. PICK i \in 1 .. Len(commands) : Begin(w, i)
    BY <1>2 DEF Take, TakeAgain
  <2> QED
    BY <2>1, <2>2, BeginInv
<1>3. CASE Abandon(w)
  <2>1. /\ task' = [task EXCEPT ![w] = NoTask] /\ faults' \in 0 .. MaxFaults
        /\ UNCHANGED <<orchestrator, commands, handled, late, results, writer>>
    BY <1>1, <1>3 DEF Abandon, EndTask, Fault
  <2>2. WorkHolds(NoTask, commands, Serves[w], late, rows)
    BY DEF WorkHolds
  <2> QED
    BY <2>1, <2>2, TaskInv
<1> QED
  BY <1>2, <1>3, PrepareInv, ClassifyInv, PublishInv, RejectInv DEF Work, Fails

-----------------------------------------------------------------------------
(* The writers. *)

LEMMA WriterInv == ASSUME PipelineAssumption, IInv, Write \/ WriteAgain PROVE IInv'
<1> USE DEF orchestrator, handled
<1>1. PICK i \in 1 .. Len(results) :
        WriteResult(i) /\ resultsDone' \in {resultsDone, resultsDone \cup {i}}
  BY DEF Write, WriteAgain
<1>2. faults' \in 0 .. MaxFaults
  BY DEF IInv, TypeInv, TypeOK, PipelineAssumption, Write, WriteAgain, Fault
<1> DEFINE r == results[i].run
<1>3. r \in RunSet /\ IsResult(results[i]) /\ r.object \in Objects /\ r.revision \in Nat
  <2>1. results[i] \in ResultSet /\ Good(results[i], rows)
    BY DEF IInv, TypeInv, ResultsInv
  <2>2. r \in RunSet
    BY <2>1 DEF ResultSet, ResultFor
  <2>3. r.object \in Objects /\ r.revision \in Int /\ r.revision > 0
    BY <2>1, <2>2, RunFacts DEF Good, IsResult, RunHolds
  <2> QED
    BY <2>1, <2>2, <2>3 DEF Good
<1>4. /\ UNCHANGED <<orchestrator, commands, handled, late, task, results, resultDLQ>>
      /\ \/ UNCHANGED <<rows, current>>
         \/ rows' = Append(rows, r) /\ Advance(r)
  BY <1>1, <1>3 DEF WriteResult
<1> HIDE DEF r
<1>5. rows' \in Seq(RunSet) /\ Grew(rows, rows')
  <2>1. rows \in Seq(RunSet)
    BY DEF IInv, TypeInv
  <2>2. Append(rows, r) \in Seq(RunSet) /\ Grew(rows, Append(rows, r))
    BY <1>3, <2>1, AppendGrows
  <2>3. Grew(rows, rows)
    BY <2>1, SameGrows
  <2> QED
    BY <1>4, <2>1, <2>2, <2>3
<1>6. current' \in [Objects -> Nat]
  BY <1>3, <1>4 DEF Advance, IInv, TypeInv, TypeOK
<1>7. resultsDone' \subseteq 1 .. Len(results')
  BY <1>1, <1>4 DEF IInv, TypeInv, TypeOK
<1>8. TypeInv'
  BY <1>2, <1>4, <1>5, <1>6, <1>7 DEF IInv, TypeInv, TypeOK
<1>9. Grew(commands, commands') /\ Grew(results, results')
  BY <1>4, SameGrows DEF IInv, TypeInv
<1> QED
  BY <1>4, <1>5, <1>8, <1>9, Frame DEF IInv, TypeInv

-----------------------------------------------------------------------------
LEMMA StepInv == PipelineAssumption /\ IInv /\ [Next]_vars => IInv'
<1>1. ASSUME PipelineAssumption, IInv, UNCHANGED vars PROVE IInv'
  BY <1>1 DEF vars, orchestrator, handled, writer, IInv, TypeInv, TypeOK, WorkInv, ResultsInv,
              LettersInv
<1> QED
  BY <1>1, OrchestratorInv, WorkerInv, WriterInv DEF Next, Progress, Done

THEOREM Invariant == Spec => []IInv
  BY InitInv, StepInv, PipelineAssumption, PTL DEF Spec

(* The state of all processes and topics has its type. *)
THEOREM TypeCorrect == Spec => []TypeOK
<1>1. IInv => TypeOK
  BY DEF IInv, TypeInv
<1> QED
  BY <1>1, Invariant, PTL

(* Whatever is redelivered, retried or stored in between: a result that    *)
(* reuses coarse probabilities names a stored run that computed them.      *)
THEOREM SourcesAreStored == Spec => []SourceIsStored
<1>1. IInv => SourceIsStored
  BY DEF IInv, ResultsInv, Good, SourceStored, SourceIsStored
<1> QED
  BY <1>1, Invariant, PTL

(* Every result a worker publishes, the decoder of the writer and the      *)
(* constraints of the table accept.                                        *)
THEOREM ResultsCanBeStored == Spec => []EveryResultCanBeStored
<1>1. IInv => EveryResultCanBeStored
  BY DEF IInv, ResultsInv, Good, EveryResultCanBeStored
<1> QED
  BY <1>1, Invariant, PTL

(* A worker rejects no command of its bundle whose light curve is good.    *)
THEOREM RejectedForCause == Spec => []OnlyCurvesAndBundlesRejected
<1>1. IInv => OnlyCurvesAndBundlesRejected
  BY DEF IInv, LettersInv, Fits, CurveOf, OnlyCurvesAndBundlesRejected
<1> QED
  BY <1>1, Invariant, PTL
=============================================================================
