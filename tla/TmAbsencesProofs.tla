-------------------------- MODULE TmAbsencesProofs --------------------------
(* Proofs about TmAbsences for every calendar, file and set of requests.   *)
EXTENDS TmAbsences, FiniteSetTheorems, TLAPS

USE DaysAssumption, MonthsAssumption, YearsAssumption, EventsAssumption,
    UnknownAssumption, FilesAssumption, BoundsAssumption

(* What a request has gathered is of the kind that it replaces: absences   *)
(* of the calendar in the window, or of a file on its days.                *)
SyncScope(j) ==
  j.pc = "synced" => \A x \in j.seen \union j.new : x.source = "confluence" /\ x.day \in j.period
ImportScope(j) ==
  j.pc = "importing" =>
    /\ j.got \subseteq FileRow /\ j.todo \subseteq j.got
    /\ \A x \in j.seen \union j.new :
          x.source = "csv" /\ \E y \in j.got : y.res = x.res /\ y.day = x.day
Scoped(j) == j \in Job /\ SyncScope(j) /\ ImportScope(j)
ScopeInv == TypeOK /\ \A w \in Workers : Scoped(job[w])

LEMMA IdleScoped == Scoped(Idle)
  BY DEF Scoped, Idle, Job, SyncScope, ImportScope

LEMMA ScopeInit == Init => ScopeInv
<1> SUFFICES ASSUME Init PROVE ScopeInv
  OBVIOUS
<1>1. \A w \in Workers : job[w] = Idle
  BY DEF Init
<1>2. Idle \in Job
  BY IdleScoped DEF Scoped
<1> QED BY <1>1, <1>2, IdleScoped DEF Init, TypeOK, ScopeInv

(* The steps of one request that only change what it has gathered. *)
LEMMA PhaseScoped ==
  ASSUME ScopeInv, NEW w \in Workers, NEW j, Scoped(j), Goto(w, j),
         UNCHANGED <<shown, active, rows, writes, changes>>
  PROVE  ScopeInv'
<1>1. job' \in [Workers -> Job]
  BY DEF ScopeInv, TypeOK, Scoped, Goto
<1>2. \A v \in Workers : job'[v] = IF v = w THEN j ELSE job[v]
  BY DEF ScopeInv, TypeOK, Goto
<1>3. \A v \in Workers : Scoped(job[v])
  BY DEF ScopeInv
<1>4. ASSUME NEW v \in Workers PROVE Scoped(job[v])'
  <2>1. Scoped(job'[v])
    BY <1>2, <1>3
  <2> QED BY <2>1 DEF Scoped, SyncScope, ImportScope, Job, Row, NewRow
<1> QED BY <1>1, <1>4 DEF ScopeInv, TypeOK

LEMMA CalmScoped ==
  ASSUME NEW j, Scoped(j) PROVE Scoped([j EXCEPT !.calm = FALSE])
<1>1. [j EXCEPT !.calm = FALSE] \in Job
  BY DEF Scoped, Job
<1> QED BY <1>1 DEF Scoped, Job, SyncScope, ImportScope

LEMMA StirredScoped ==
  ASSUME ScopeInv, NEW v \in Workers
  PROVE  Scoped(Stirred[v])
  BY CalmScoped DEF ScopeInv, Stirred

LEMMA ReplacedScoped ==
  ASSUME ScopeInv, NEW p \in SUBSET Days
  PROVE  /\ Replaced(p) \in SUBSET Row
         /\ \A x \in Replaced(p) : x.source = "confluence" /\ x.day \in p
  BY DEF ScopeInv, TypeOK, Replaced

LEMMA WantedScoped ==
  ASSUME ScopeInv, NEW p \in SUBSET Days, NEW got
  PROVE  /\ Wanted(got, p) \in SUBSET NewRow
         /\ \A x \in Wanted(got, p) : x.source = "confluence" /\ x.day \in p
  BY DEF ScopeInv, TypeOK, Wanted, NewRow, AbsenceTypes

LEMMA UpsertedScoped ==
  ASSUME ScopeInv, NEW x
  PROVE  /\ Upserted(x) \in SUBSET Row
         /\ \A y \in Upserted(x) : y.source = "csv" /\ y.res = x.res /\ y.day = x.day
  BY DEF ScopeInv, TypeOK, Upserted

LEMMA SyncStepScoped ==
  ASSUME ScopeInv, NEW w \in Workers,
         StartSync(w) \/ Read(w) \/ ReadFails(w) \/ Delete(w) \/ Abandon(w)
  PROVE  ScopeInv'
<1>0. job[w] \in Job /\ Scoped(job[w])
  BY DEF ScopeInv, TypeOK
<1>1. CASE StartSync(w)
  <2>1. PICK p \in Periods :
          Goto(w, [Idle EXCEPT !.pc = "reading", !.period = p, !.todo = Requests(p)])
    BY <1>1 DEF StartSync
  <2>2. p \in SUBSET Days /\ Requests(p) \in SUBSET Request
    <3>1. p \in SUBSET Days
      BY DEF Periods
    <3>2. \A z \in Chunks(p) : z \in SUBSET Days
      <4>1. \A y \in Years : y \cap p \subseteq Days
        BY <3>1
      <4> QED BY <4>1 DEF Chunks
    <3>3. ASSUME NEW q \in Requests(p) PROVE q \in Request
      <4>1. q \in [cal : Calendars, days : Chunks(p)]
        BY DEF Requests
      <4>2. q.cal \in Calendars /\ q.days \in SUBSET Days
        BY <3>2, <4>1
      <4> QED BY <4>1, <4>2 DEF Request
    <3> QED BY <3>1, <3>3
  <2>3. Scoped([Idle EXCEPT !.pc = "reading", !.period = p, !.todo = Requests(p)])
    BY <2>2 DEF Scoped, Idle, Job, SyncScope, ImportScope
  <2> QED BY <1>1, <2>1, <2>3, PhaseScoped DEF StartSync
<1>2. CASE Read(w)
  <2> DEFINE q == CHOOSE q \in job[w].todo : TRUE
             answer == {e \in shown : e.cal = q.cal /\ EventDays(e) \cap q.days # {}}
             j == [job[w] EXCEPT !.todo = @ \ {q}, !.got = @ \union answer]
  <2>1. answer \in SUBSET Events
    BY DEF ScopeInv, TypeOK
  <2>2. Scoped(j)
    <3> HIDE DEF answer, q
    <3> QED BY <1>0, <1>2, <2>1 DEF Scoped, Read, Job, SyncScope, ImportScope
  <2>3. Goto(w, j)
    BY <1>2 DEF Read
  <2> QED BY <1>2, <2>2, <2>3, PhaseScoped DEF Read
<1>3. CASE ReadFails(w) \/ Abandon(w)
  BY <1>3, IdleScoped, PhaseScoped DEF ReadFails, Abandon, Failed
<1>4. CASE Delete(w)
  <2> DEFINE j == [job[w] EXCEPT !.pc = "synced",
                                 !.seen = Replaced(job[w].period),
                                 !.new = Wanted(job[w].got, job[w].period)]
  <2>1. job[w].period \in SUBSET Days
    BY <1>0 DEF Job
  <2>2. Scoped(j)
    BY <1>0, <2>1, ReplacedScoped, WantedScoped DEF Scoped, Job, SyncScope, ImportScope
  <2> QED BY <1>4, <2>2, PhaseScoped DEF Delete
<1> QED BY <1>1, <1>2, <1>3, <1>4

LEMMA ImportStepScoped ==
  ASSUME ScopeInv, NEW w \in Workers, StartImport(w) \/ ImportRow(w)
  PROVE  ScopeInv'
<1>0. job[w] \in Job /\ Scoped(job[w])
  BY DEF ScopeInv, TypeOK
<1>1. CASE StartImport(w)
  <2>1. PICK f \in Files :
          Goto(w, [Idle EXCEPT !.pc = "importing", !.todo = f, !.got = f])
    BY <1>1 DEF StartImport
  <2>2. f \in SUBSET FileRow
    OBVIOUS
  <2>3. Scoped([Idle EXCEPT !.pc = "importing", !.todo = f, !.got = f])
    BY <2>2 DEF Scoped, Idle, Job, SyncScope, ImportScope
  <2> QED BY <1>1, <2>1, <2>3, PhaseScoped DEF StartImport
<1>2. CASE ImportRow(w)
  <2>1. PICK x \in job[w].todo :
          Goto(w, IF x.res = Unknown THEN [job[w] EXCEPT !.todo = @ \ {x}]
                  ELSE [job[w] EXCEPT !.todo = @ \ {x}, !.seen = @ \union Upserted(x),
                                      !.new = Replacing(@, x)])
    BY <1>2 DEF ImportRow
  <2>2. job[w].pc = "importing" /\ x \in FileRow /\ x \in job[w].got
    BY <1>0, <1>2, <2>1 DEF ImportRow, Scoped, ImportScope
  <2>3. CASE x.res = Unknown
    <3>1. Scoped([job[w] EXCEPT !.todo = @ \ {x}])
      BY <1>0, <2>2 DEF Scoped, Job, SyncScope, ImportScope
    <3> QED BY <1>2, <2>1, <2>3, <3>1, PhaseScoped DEF ImportRow
  <2>4. CASE x.res # Unknown
    <3> DEFINE j == [job[w] EXCEPT !.todo = @ \ {x}, !.seen = @ \union Upserted(x),
                                   !.new = Replacing(@, x)]
    <3>1. CsvRow(x) \in NewRow
      BY <2>2, <2>4 DEF CsvRow, FileRow, NewRow, AbsenceType, AbsenceTypes
    <3>2. Replacing(job[w].new, x) \subseteq job[w].new \union {CsvRow(x)}
      BY DEF Replacing
    <3>3. j \in Job
      BY <1>0, <3>1, <3>2, UpsertedScoped DEF Job
    <3>4. /\ j.pc = "importing" /\ j.got = job[w].got /\ j.todo \subseteq job[w].todo
          /\ j.seen \subseteq job[w].seen \union Upserted(x)
          /\ j.new \subseteq job[w].new \union {CsvRow(x)}
      BY <1>0, <2>2, <3>2 DEF Job
    <3>5. \A z \in job[w].seen \union job[w].new :
             z.source = "csv" /\ \E y \in job[w].got : y.res = z.res /\ y.day = z.day
      BY <1>0, <2>2 DEF Scoped, ImportScope
    <3>6. CsvRow(x).source = "csv" /\ CsvRow(x).res = x.res /\ CsvRow(x).day = x.day
      BY DEF CsvRow
    <3>7. Scoped(j)
      <4> HIDE DEF j
      <4>1. \A z \in j.seen \union j.new :
               z.source = "csv" /\ \E y \in j.got : y.res = z.res /\ y.day = z.day
        BY <2>2, <3>4, <3>5, <3>6, UpsertedScoped
      <4> QED BY <1>0, <2>2, <3>3, <3>4, <4>1 DEF Scoped, SyncScope, ImportScope
    <3>8. Goto(w, j)
      BY <2>1, <2>4
    <3> HIDE DEF j
    <3> QED BY <1>2, <3>7, <3>8, PhaseScoped DEF ImportRow
  <2> QED BY <2>3, <2>4
<1> QED BY <1>1, <1>2

LEMMA StampedRow ==
  ASSUME ScopeInv, NEW n \in NewRow
  PROVE  /\ Stamped(n) \in Row
         /\ Stamped(n).res = n.res /\ Stamped(n).day = n.day
         /\ Stamped(n).source = n.source /\ Stamped(n).type = n.type
  BY DEF ScopeInv, TypeOK, Stamped, Row, NewRow

LEMMA ManualRow ==
  ASSUME ScopeInv, NEW r \in Resources, NEW d \in Days, NEW t \in FreeTypes
  PROVE  Stamped([res |-> r, day |-> d, source |-> "manual", type |-> t]) \in Row
<1>1. t \in STRING
  OBVIOUS
<1> QED BY <1>1 DEF ScopeInv, TypeOK, Stamped, Row

(* A change that leaves the requests alone, or stirs those under way. *)
LEMMA TableScoped ==
  ASSUME ScopeInv, shown' \in SUBSET Events, active' \in SUBSET Resources,
         rows' \in SUBSET Row, writes' \in 0..MaxWrites, changes' \in 0..MaxChanges,
         job' \in [Workers -> Job],
         \A v \in Workers : job'[v] = job[v] \/ job'[v] = Idle \/ job'[v] = Stirred[v]
  PROVE  ScopeInv'
<1>1. ASSUME NEW v \in Workers PROVE Scoped(job[v])'
  <2>1. Scoped(job'[v])
    BY IdleScoped, StirredScoped DEF ScopeInv
  <2> QED BY <2>1 DEF Scoped, SyncScope, ImportScope, Job, Row, NewRow
<1> QED BY <1>1 DEF ScopeInv, TypeOK

LEMMA StirredType == ScopeInv => Stirred \in [Workers -> Job]
<1> SUFFICES ASSUME ScopeInv PROVE Stirred \in [Workers -> Job]
  OBVIOUS
<1>1. \A v \in Workers : Stirred[v] \in Job
  BY StirredScoped DEF Scoped
<1> QED BY <1>1 DEF Stirred

LEMMA CommitScoped ==
  ASSUME ScopeInv, NEW w \in Workers, Commit(w) PROVE ScopeInv'
<1>1. job[w] \in Job
  BY DEF ScopeInv, TypeOK
<1>2. rows' \in SUBSET Row
  <2>1. \A n \in job[w].new : Stamped(n) \in Row
    BY <1>1, StampedRow DEF Job
  <2> QED BY <2>1 DEF Commit, ScopeInv, TypeOK
<1>3. writes' \in 0..MaxWrites
  BY DEF Commit, ScopeInv, TypeOK
<1>4. \A v \in Workers : job'[v] = IF v = w THEN Idle ELSE Stirred[v]
  BY DEF Commit, Disturbed, Stirred
<1>5. job' \in [Workers -> Job]
  <2>1. job' = [v \in Workers |-> job'[v]]
    BY DEF Commit, Disturbed
  <2>2. \A v \in Workers : job'[v] \in Job
    BY <1>4, StirredType, IdleScoped DEF Scoped
  <2> QED BY <2>1, <2>2
<1> QED BY <1>2, <1>3, <1>4, <1>5, TableScoped DEF Commit, ScopeInv, TypeOK

LEMMA PeopleScoped ==
  ASSUME ScopeInv,
         \/ \E r \in Resources, d \in Days, t \in FreeTypes : CreateAbsence(r, d, t)
         \/ \E x \in rows : DeleteAbsence(x)
         \/ DeleteAllAbsences
         \/ \E r \in Resources : SetActive(r)
         \/ \E e \in Events : ChangeEvent(e)
  PROVE  ScopeInv'
<1>1. ASSUME NEW r \in Resources, NEW d \in Days, NEW t \in FreeTypes, CreateAbsence(r, d, t)
      PROVE  ScopeInv'
  <2>1. rows' \in SUBSET Row
    BY <1>1, ManualRow DEF CreateAbsence, ScopeInv, TypeOK
  <2>2. writes' \in 0..MaxWrites
    BY <1>1 DEF CreateAbsence, ScopeInv, TypeOK
  <2> QED BY <1>1, <2>1, <2>2, TableScoped DEF CreateAbsence, ScopeInv, TypeOK
<1>2. ASSUME (\E x \in rows : DeleteAbsence(x)) \/ DeleteAllAbsences PROVE ScopeInv'
  <2>1. rows' \in SUBSET Row
    BY <1>2 DEF DeleteAbsence, DeleteAllAbsences, ScopeInv, TypeOK
  <2> QED BY <1>2, <2>1, TableScoped DEF DeleteAbsence, DeleteAllAbsences, ScopeInv, TypeOK
<1>3. ASSUME NEW r \in Resources, SetActive(r) PROVE ScopeInv'
  <2>1. active' \in SUBSET Resources /\ changes' \in 0..MaxChanges
    BY <1>3 DEF SetActive, ScopeInv, TypeOK
  <2> QED BY <1>3, <2>1, StirredType, TableScoped DEF SetActive, ScopeInv, TypeOK
<1>4. ASSUME NEW e \in Events, ChangeEvent(e) PROVE ScopeInv'
  <2>1. shown' \in SUBSET Events /\ changes' \in 0..MaxChanges
    BY <1>4 DEF ChangeEvent, ScopeInv, TypeOK
  <2> QED BY <1>4, <2>1, StirredType, TableScoped DEF ChangeEvent, ScopeInv, TypeOK
<1> QED BY <1>1, <1>2, <1>3, <1>4

LEMMA StutterScoped == ScopeInv /\ UNCHANGED vars => ScopeInv'
  BY DEF ScopeInv, TypeOK, vars, Scoped, SyncScope, ImportScope, Job, Row, NewRow

LEMMA ScopeStep == ScopeInv /\ [Next]_vars => ScopeInv'
  BY SyncStepScoped, ImportStepScoped, CommitScoped, PeopleScoped, StutterScoped DEF Next

LEMMA ScopeInvariant == Spec => []ScopeInv
  BY ScopeInit, ScopeStep, PTL DEF Spec

(* Every variable keeps its type along every behaviour. *)
THEOREM TypeCorrect == Spec => []TypeOK
<1>1. ScopeInv => TypeOK
  BY DEF ScopeInv
<1> QED BY <1>1, ScopeInvariant, PTL

(* A sync writes and removes absences of the calendar in its window, an    *)
(* import those of its file, however many of them overlap                  *)
(* (sync_from_confluence, import_absences_rows).                           *)
THEOREM OnlyItsOwnRows == Spec => OthersKept
<1> DEFINE Kept(w) ==
      Commit(w) =>
        \A x \in (rows \ rows') \union (rows' \ rows) :
           IF job[w].pc = "synced"
           THEN x.source = "confluence" /\ x.day \in job[w].period
           ELSE x.source = "csv" /\ \E y \in job[w].got : y.res = x.res /\ y.day = x.day
<1>1. ASSUME ScopeInv, NEW w \in Workers PROVE Kept(w)
  <2> SUFFICES ASSUME Commit(w), NEW x \in (rows \ rows') \union (rows' \ rows)
               PROVE  IF job[w].pc = "synced"
                      THEN x.source = "confluence" /\ x.day \in job[w].period
                      ELSE x.source = "csv" /\ \E y \in job[w].got : y.res = x.res /\ y.day = x.day
    OBVIOUS
  <2>1. job[w] \in Job /\ SyncScope(job[w]) /\ ImportScope(job[w])
    BY <1>1 DEF ScopeInv, Scoped
  <2>2. PICK n \in job[w].seen \union job[w].new :
          x.res = n.res /\ x.day = n.day /\ x.source = n.source
    <3>1. CASE x \in job[w].seen
      BY <3>1
    <3>2. CASE x \notin job[w].seen
      <4>1. PICK n \in job[w].new : x = Stamped(n)
        BY <3>2 DEF Commit
      <4>2. n \in NewRow
        BY <2>1 DEF Job
      <4> QED BY <1>1, <4>1, <4>2, StampedRow
    <3> QED BY <3>1, <3>2
  <2> QED BY <2>1, <2>2 DEF Commit, MayCommit, SyncScope, ImportScope
<1>2. ScopeInv => \A w \in Workers : Kept(w)
  BY <1>1
<1>3. ScopeInv /\ [Next]_vars => [\A w \in Workers : Kept(w)]_vars
  BY <1>2
<1> QED BY <1>3, ScopeInvariant, PTL DEF Spec, OthersKept

(* The cost report bills the working days without any absence, whatever    *)
(* the rows of a day (compute_cost_report).                                *)
THEOREM BilledOnce == Spec => []DeductedOnce
<1>1. ScopeInv => DeductedOnce
  <2> SUFFICES ASSUME NEW r \in Resources, NEW month \in Months
               PROVE  BillableDays(r, month) =
                        Cardinality({d \in month : d \in WorkDays
                                       /\ \A x \in rows : x.res = r => x.day # d})
    BY DEF DeductedOnce
  <2> DEFINE W == WorkDays \cap month
             A == {d \in W : d \in {x.day : x \in AbsencesIn(r, month)}}
             B == {d \in month : d \in WorkDays /\ \A x \in rows : x.res = r => x.day # d}
  <2>1. IsFiniteSet(W)
    BY FS_Subset
  <2>2. IsFiniteSet(A) /\ A \subseteq W
    BY <2>1, FS_Subset
  <2>3. B = W \ A
    BY DEF AbsencesIn
  <2>4. A = W \cap A
    BY <2>2
  <2>5. Cardinality(W \ A) = Cardinality(W) - Cardinality(W \cap A)
    <3> HIDE DEF W, A
    <3> QED BY <2>1, <2>2, FS_Difference
  <2> QED BY <2>3, <2>4, <2>5 DEF BillableDays, AbsenceDays
<1> QED BY <1>1, ScopeInvariant, PTL

-----------------------------------------------------------------------------
(* What a request that nobody disturbed knows of the calendars and of the  *)
(* table.                                                                  *)
ReadSoFar(j) ==
  j.pc = "reading" =>
    /\ j.got \subseteq shown
    /\ \A e \in shown : \A d \in EventDays(e) \cap j.period :
          e \in j.got \/ \E q \in j.todo : q.cal = e.cal /\ d \in q.days
Pictured(j) ==
  j.pc = "synced" => Replaced(j.period) \subseteq j.seen /\ j.new = Wanted(shown, j.period)
Imported(j) ==
  j.pc = "importing" =>
    \A y \in j.got : y.res # Unknown => y \in j.todo \/ Upserted(y) \subseteq j.seen
Faithful(j) == j.calm => ReadSoFar(j) /\ Pictured(j) /\ Imported(j)

(* An import adds one row for each person and day of the file that it went *)
(* through.                                                                *)
About(new, y) == {n \in new : n.res = y.res /\ n.day = y.day}
Filed(j) ==
  j.pc = "importing" =>
    \A y \in j.got \ j.todo : y.res # Unknown => \E n \in j.new : About(j.new, y) = {n}
FaithInv == \A w \in Workers : Faithful(job[w]) /\ Filed(job[w])

LEMMA IdleFaithful == Faithful(Idle) /\ Filed(Idle)
  BY DEF Faithful, ReadSoFar, Pictured, Imported, Filed, Idle

LEMMA FaithInit == Init => FaithInv
  BY IdleFaithful DEF Init, FaithInv

(* Steps that leave calendars, resources and table alone. *)
LEMMA PhaseFaithful ==
  ASSUME ScopeInv, FaithInv, NEW w \in Workers, NEW j, Faithful(j), Filed(j), Goto(w, j),
         UNCHANGED <<shown, active, rows, writes, changes>>
  PROVE  FaithInv'
<1>1. ASSUME NEW v \in Workers PROVE (Faithful(job[v]) /\ Filed(job[v]))'
  <2>1. job'[v] = IF v = w THEN j ELSE job[v]
    BY DEF ScopeInv, TypeOK, Goto
  <2>2. Faithful(job'[v]) /\ Filed(job'[v])
    BY <2>1 DEF FaithInv
  <2> QED BY <2>2 DEF Faithful, ReadSoFar, Pictured, Imported, Filed, Replaced, Wanted, Upserted
<1> QED BY <1>1 DEF FaithInv

(* Every day of the window is in a request of its own. *)
LEMMA RequestsCover ==
  ASSUME NEW p \in SUBSET Days, NEW e \in Events, NEW d \in p
  PROVE  \E q \in Requests(p) : q.cal = e.cal /\ d \in q.days
<1>1. PICK y \in Years : d \in y
  OBVIOUS
<1>2. e.cal \in Calendars
  BY DEF Event
<1>3. y \cap p \in Chunks(p)
  BY <1>1 DEF Chunks
<1>4. [cal |-> e.cal, days |-> y \cap p] \in Requests(p)
  BY <1>2, <1>3 DEF Requests
<1> QED BY <1>1, <1>4

LEMMA SameWanted ==
  ASSUME ScopeInv, NEW p \in SUBSET Days, NEW got \in SUBSET shown,
         \A e \in shown : \A d \in EventDays(e) \cap p : e \in got
  PROVE  Wanted(got, p) = Wanted(shown, p)
<1>1. ASSUME NEW r, NEW d \in p
      PROVE  {e \in got : r \in e.who /\ d \in EventDays(e)}
               = {e \in shown : r \in e.who /\ d \in EventDays(e)}
  OBVIOUS
<1> DEFINE On(S, n) == {e \in S : n.res \in e.who /\ n.day \in EventDays(e)}
           All == [res : active, day : p \cap WorkDays, source : {"confluence"},
                   type : {"ferie", "permesso"}]
           Kept(S) == {n \in All : On(S, n) # {}
                                    /\ (n.type = "ferie" <=> \E e \in On(S, n) : e.allDay)}
<1>2. \A n \in All : On(got, n) = On(shown, n)
  BY <1>1
<1>3. Kept(got) = Kept(shown)
  <2> HIDE DEF On, All
  <2> QED BY <1>2
<1>4. Wanted(got, p) = Kept(got) /\ Wanted(shown, p) = Kept(shown)
  BY DEF Wanted
<1> QED BY <1>3, <1>4

LEMMA SyncFaithful ==
  ASSUME ScopeInv, FaithInv, NEW w \in Workers,
         StartSync(w) \/ Read(w) \/ ReadFails(w) \/ Delete(w) \/ Abandon(w)
  PROVE  FaithInv'
<1>0. job[w] \in Job /\ Scoped(job[w]) /\ Faithful(job[w]) /\ Filed(job[w])
      /\ shown \subseteq Events
  BY DEF ScopeInv, TypeOK, FaithInv
<1>1. CASE StartSync(w)
  <2>1. PICK p \in Periods :
          Goto(w, [Idle EXCEPT !.pc = "reading", !.period = p, !.todo = Requests(p)])
    BY <1>1 DEF StartSync
  <2> DEFINE j == [Idle EXCEPT !.pc = "reading", !.period = p, !.todo = Requests(p)]
  <2>2. p \in SUBSET Days
    BY DEF Periods
  <2>3. j.pc = "reading" /\ j.period = p /\ j.todo = Requests(p) /\ j.got = {}
    BY DEF Idle
  <2>4. Faithful(j) /\ Filed(j)
    <3>1. \A e \in shown : \A d \in EventDays(e) \cap p :
             \E q \in Requests(p) : q.cal = e.cal /\ d \in q.days
      BY <1>0, <2>2, RequestsCover
    <3> HIDE DEF j
    <3>2. ReadSoFar(j)
      BY <2>3, <3>1, Zenon DEF ReadSoFar
    <3> QED BY <2>3, <3>2 DEF Faithful, Filed, Pictured, Imported
  <2> QED BY <1>1, <2>1, <2>4, PhaseFaithful DEF StartSync
<1>2. CASE Read(w)
  <2> DEFINE q == CHOOSE q \in job[w].todo : TRUE
             answer == {e \in shown : e.cal = q.cal /\ EventDays(e) \cap q.days # {}}
             j == [job[w] EXCEPT !.todo = @ \ {q}, !.got = @ \union answer]
  <2>1. /\ j.pc = "reading" /\ j.period = job[w].period /\ j.calm = job[w].calm
        /\ j.todo = job[w].todo \ {q} /\ j.got = job[w].got \union answer
    BY <1>0, <1>2 DEF Read, Job
  <2>2. ReadSoFar(j) \/ ~j.calm
    <3> SUFFICES ASSUME j.calm
                 PROVE  /\ j.got \subseteq shown
                        /\ \A e \in shown : \A d \in EventDays(e) \cap j.period :
                             e \in j.got \/ \E z \in j.todo : z.cal = e.cal /\ d \in z.days
      BY DEF ReadSoFar
    <3>1. ReadSoFar(job[w]) /\ job[w].pc = "reading"
      BY <1>0, <1>2, <2>1 DEF Faithful, Read
    <3>2. \A e \in shown : \A d \in EventDays(e) : e.cal = q.cal /\ d \in q.days => e \in answer
      OBVIOUS
    <3>3. answer \subseteq shown
      OBVIOUS
    <3>4. j.got \subseteq shown
      BY <2>1, <3>1, <3>3 DEF ReadSoFar
    <3>5. ASSUME NEW e \in shown, NEW d \in EventDays(e) \cap j.period
          PROVE  e \in j.got \/ \E z \in j.todo : z.cal = e.cal /\ d \in z.days
      <4>1. e \in job[w].got \/ \E z \in job[w].todo : z.cal = e.cal /\ d \in z.days
        BY <2>1, <3>1, <3>5 DEF ReadSoFar
      <4> HIDE DEF q, answer, j
      <4> QED BY <2>1, <3>2, <3>5, <4>1
    <3> QED BY <3>4, <3>5
  <2>3. Faithful(j) /\ Filed(j)
    <3> HIDE DEF j
    <3> QED BY <2>1, <2>2 DEF Faithful, Filed, Pictured, Imported
  <2>4. Goto(w, j)
    BY <1>2 DEF Read
  <2> QED BY <1>2, <2>3, <2>4, PhaseFaithful DEF Read
<1>3. CASE ReadFails(w) \/ Abandon(w)
  BY <1>3, IdleFaithful, PhaseFaithful DEF ReadFails, Abandon, Failed
<1>4. CASE Delete(w)
  <2> DEFINE j == [job[w] EXCEPT !.pc = "synced",
                                 !.seen = Replaced(job[w].period),
                                 !.new = Wanted(job[w].got, job[w].period)]
  <2>1. /\ j.pc = "synced" /\ j.period = job[w].period /\ j.calm = job[w].calm
        /\ j.seen = Replaced(job[w].period) /\ j.new = Wanted(job[w].got, job[w].period)
    BY <1>0 DEF Job
  <2>2. job[w].period \in SUBSET Days /\ job[w].pc = "reading" /\ job[w].todo = {}
    BY <1>0, <1>4 DEF Job, Delete
  <2>3. j.calm => j.new = Wanted(shown, job[w].period)
    <3> HIDE DEF j
    <3> SUFFICES ASSUME j.calm PROVE j.new = Wanted(shown, job[w].period)
      OBVIOUS
    <3>1. ReadSoFar(job[w])
      BY <1>0, <2>1 DEF Faithful
    <3> QED BY <2>1, <2>2, <3>1, SameWanted DEF ReadSoFar
  <2>4. Faithful(j) /\ Filed(j)
    <3> HIDE DEF j
    <3> QED BY <2>1, <2>3 DEF Faithful, Filed, ReadSoFar, Pictured, Imported
  <2> QED BY <1>4, <2>4, PhaseFaithful DEF Delete
<1> QED BY <1>1, <1>2, <1>3, <1>4

LEMMA ImportFaithful ==
  ASSUME ScopeInv, FaithInv, NEW w \in Workers, StartImport(w) \/ ImportRow(w)
  PROVE  FaithInv'
<1>0. job[w] \in Job /\ Scoped(job[w]) /\ Faithful(job[w]) /\ Filed(job[w])
  BY DEF ScopeInv, TypeOK, FaithInv
<1>1. CASE StartImport(w)
  <2>1. PICK f \in Files :
          Goto(w, [Idle EXCEPT !.pc = "importing", !.todo = f, !.got = f])
    BY <1>1 DEF StartImport
  <2> DEFINE j == [Idle EXCEPT !.pc = "importing", !.todo = f, !.got = f]
  <2>2. j.pc = "importing" /\ j.todo = f /\ j.got = f
    BY DEF Idle
  <2>3. Faithful(j) /\ Filed(j)
    <3> HIDE DEF j
    <3> QED BY <2>2 DEF Faithful, Filed, ReadSoFar, Pictured, Imported
  <2> QED BY <1>1, <2>1, <2>3, PhaseFaithful DEF StartImport
<1>2. CASE ImportRow(w)
  <2>1. PICK x \in job[w].todo :
          Goto(w, IF x.res = Unknown THEN [job[w] EXCEPT !.todo = @ \ {x}]
                  ELSE [job[w] EXCEPT !.todo = @ \ {x}, !.seen = @ \union Upserted(x),
                                      !.new = Replacing(@, x)])
    BY <1>2 DEF ImportRow
  <2>2. job[w].pc = "importing"
    BY <1>2 DEF ImportRow
  <2>3. job[w].calm => \A y \in job[w].got :
           y.res # Unknown => y \in job[w].todo \/ Upserted(y) \subseteq job[w].seen
    BY <1>0, <2>2 DEF Faithful, Imported
  <2>4. \A y \in job[w].got \ job[w].todo :
           y.res # Unknown => \E n \in job[w].new : About(job[w].new, y) = {n}
    BY <1>0, <2>2 DEF Filed
  <2>5. CASE x.res = Unknown
    <3> DEFINE j == [job[w] EXCEPT !.todo = @ \ {x}]
    <3>1. /\ j.pc = "importing" /\ j.got = job[w].got /\ j.todo = job[w].todo \ {x}
          /\ j.calm = job[w].calm /\ j.seen = job[w].seen /\ j.new = job[w].new
      BY <1>0, <2>2 DEF Job
    <3>2. Goto(w, j)
      BY <2>1, <2>5
    <3> HIDE DEF j
    <3>3. Faithful(j) /\ Filed(j)
      BY <2>3, <2>4, <2>5, <3>1 DEF Faithful, Filed, ReadSoFar, Pictured, Imported
    <3> QED BY <1>2, <3>2, <3>3, PhaseFaithful DEF ImportRow
  <2>6. CASE x.res # Unknown
    <3> DEFINE j == [job[w] EXCEPT !.todo = @ \ {x}, !.seen = @ \union Upserted(x),
                                   !.new = Replacing(@, x)]
    <3>1. /\ j.pc = "importing" /\ j.got = job[w].got /\ j.todo = job[w].todo \ {x}
          /\ j.calm = job[w].calm /\ j.seen = job[w].seen \union Upserted(x)
          /\ j.new = Replacing(job[w].new, x)
      BY <1>0, <2>2 DEF Job
    <3>2. Goto(w, j)
      BY <2>1, <2>6
    <3> HIDE DEF j
    <3>3. Faithful(j)
      BY <2>3, <3>1 DEF Faithful, ReadSoFar, Pictured, Imported
    <3>4. ASSUME NEW y \in j.got \ j.todo, y.res # Unknown
          PROVE  \E n \in j.new : About(j.new, y) = {n}
      <4>1. CsvRow(x).res = x.res /\ CsvRow(x).day = x.day
        BY DEF CsvRow
      <4>2. CASE y.res = x.res /\ y.day = x.day
        <5>1. About(j.new, y) = {CsvRow(x)} /\ CsvRow(x) \in j.new
          BY <3>1, <4>1, <4>2 DEF About, Replacing
        <5> QED BY <5>1
      <4>3. CASE ~(y.res = x.res /\ y.day = x.day)
        <5>1. About(j.new, y) = About(job[w].new, y)
          BY <3>1, <4>1, <4>3 DEF About, Replacing
        <5>2. y \in job[w].got \ job[w].todo
          BY <3>1, <3>4, <4>3
        <5>3. PICK n \in job[w].new : About(job[w].new, y) = {n}
          BY <2>4, <3>4, <5>2
        <5>4. n \in j.new
          BY <5>1, <5>3 DEF About
        <5> QED BY <5>1, <5>3, <5>4
      <4> QED BY <4>2, <4>3
    <3>5. Filed(j)
      BY <3>4 DEF Filed
    <3> QED BY <1>2, <3>2, <3>3, <3>5, PhaseFaithful DEF ImportRow
  <2> QED BY <2>5, <2>6
<1> QED BY <1>1, <1>2

(* A request that others disturb keeps only the rows of its file. *)
LEMMA DisturbedFaithful ==
  ASSUME ScopeInv, FaithInv,
         \A v \in Workers : job'[v] = Idle \/ job'[v] = Stirred[v]
  PROVE  FaithInv'
<1>1. ASSUME NEW v \in Workers PROVE (Faithful(job[v]) /\ Filed(job[v]))'
  <2>1. job[v] \in Job /\ Filed(job[v])
    BY DEF ScopeInv, TypeOK, FaithInv
  <2>2. CASE job'[v] = Idle
    BY <2>2 DEF Idle, Faithful, ReadSoFar, Pictured, Imported, Filed
  <2>3. CASE job'[v] = Stirred[v] /\ job[v].pc = "idle"
    <3>1. job'[v].pc = "idle"
      BY <2>3 DEF Stirred
    <3> QED BY <3>1 DEF Faithful, ReadSoFar, Pictured, Imported, Filed
  <2>4. CASE job'[v] = Stirred[v] /\ job[v].pc # "idle"
    <3>1. /\ job'[v].calm = FALSE /\ job'[v].pc = job[v].pc /\ job'[v].got = job[v].got
          /\ job'[v].new = job[v].new /\ job'[v].todo = job[v].todo
      BY <2>1, <2>4 DEF Stirred, Job
    <3> QED BY <2>1, <3>1 DEF Faithful, Filed
  <2> QED BY <1>1, <2>2, <2>3, <2>4
<1> QED BY <1>1 DEF FaithInv

(* Absences that go, and absences written by hand, are none of their       *)
(* business.                                                               *)
LEMMA TableFaithful ==
  ASSUME ScopeInv, FaithInv, UNCHANGED <<shown, active, job>>,
         \A x \in rows' : x \in rows \/ x.source = "manual"
  PROVE  FaithInv'
<1>1. ASSUME NEW v \in Workers PROVE (Faithful(job[v]) /\ Filed(job[v]))'
  <2>1. Faithful(job[v]) /\ Filed(job[v])
    BY DEF FaithInv
  <2>2. \A p : Replaced(p)' \subseteq Replaced(p) /\ Wanted(shown, p)' = Wanted(shown, p)
    BY DEF Replaced, Wanted
  <2>3. \A x : Upserted(x)' \subseteq Upserted(x)
    BY DEF Upserted
  <2> QED BY <2>1, <2>2, <2>3 DEF Faithful, ReadSoFar, Pictured, Imported, Filed
<1> QED BY <1>1 DEF FaithInv

LEMMA FaithStep == ScopeInv /\ FaithInv /\ [Next]_vars => FaithInv'
<1> SUFFICES ASSUME ScopeInv, FaithInv, [Next]_vars PROVE FaithInv'
  OBVIOUS
<1>1. ASSUME NEW w \in Workers, Commit(w) PROVE FaithInv'
  <2>1. \A v \in Workers : job'[v] = IF v = w THEN Idle ELSE Stirred[v]
    BY <1>1 DEF Commit, Disturbed, Stirred, ScopeInv, TypeOK
  <2> QED BY <2>1, DisturbedFaithful
<1>2. ASSUME NEW r \in Resources, NEW d \in Days, NEW t \in FreeTypes, CreateAbsence(r, d, t)
      PROVE  FaithInv'
  BY <1>2, TableFaithful DEF CreateAbsence, Stamped
<1>3. CASE (\E x \in rows : DeleteAbsence(x)) \/ DeleteAllAbsences
  BY <1>3, TableFaithful DEF DeleteAbsence, DeleteAllAbsences
<1>4. CASE (\E r \in Resources : SetActive(r)) \/ (\E e \in Events : ChangeEvent(e))
  BY <1>4, DisturbedFaithful DEF SetActive, ChangeEvent
<1>5. CASE UNCHANGED vars
  BY <1>5, TableFaithful DEF vars
<1> QED BY <1>1, <1>2, <1>3, <1>4, <1>5, SyncFaithful, ImportFaithful DEF Next

LEMMA FaithInvariant == Spec => [](ScopeInv /\ FaithInv)
  BY ScopeInit, ScopeStep, FaithInit, FaithStep, PTL DEF Spec

(* An import that nobody disturbs leaves one row per person and day of its *)
(* file, also when it was imported before (import_absences_rows).          *)
THEOREM ImportIdempotent == Spec => ImportedOnce
<1> DEFINE Csv(y) == {z \in rows' : z.source = "csv" /\ z.res = y.res /\ z.day = y.day}
           Once(w) == Commit(w) /\ job[w].pc = "importing" /\ job[w].calm =>
                        \A y \in job[w].got : y.res # Unknown => \E x \in rows' : Csv(y) = {x}
<1>1. ASSUME ScopeInv, FaithInv, NEW w \in Workers PROVE Once(w)
  <2> SUFFICES ASSUME Commit(w), job[w].pc = "importing", job[w].calm,
                      NEW y \in job[w].got, y.res # Unknown
               PROVE  \E x \in rows' : Csv(y) = {x}
    OBVIOUS
  <2>1. job[w] \in Job /\ Faithful(job[w]) /\ Filed(job[w]) /\ job[w].todo = {}
    BY <1>1 DEF ScopeInv, TypeOK, FaithInv, Commit, MayCommit
  <2>2. PICK n \in job[w].new : About(job[w].new, y) = {n}
    BY <2>1 DEF Filed
  <2>3. Stamped(n) \in rows'
    BY DEF Commit
  <2>4. Upserted(y) \subseteq job[w].seen
    BY <2>1 DEF Faithful, Imported
  <2>5. Stamped(n) \in Csv(y)
    <3>1. n.source = "csv" /\ n.res = y.res /\ n.day = y.day
      BY <1>1, <2>2 DEF About, ScopeInv, Scoped, ImportScope
    <3> QED BY <2>3, <3>1 DEF Stamped
  <2>6. ASSUME NEW z \in Csv(y) PROVE z = Stamped(n)
    <3>1. z \in rows => z \in Upserted(y)
      BY DEF Upserted
    <3>2. PICK m \in job[w].new : z = Stamped(m)
      BY <2>4, <3>1 DEF Commit
    <3>3. m \in About(job[w].new, y)
      BY <3>2 DEF Stamped, About
    <3> QED BY <2>2, <3>2, <3>3
  <2> HIDE DEF Csv
  <2> QED BY <2>3, <2>5, <2>6
<1>2. ScopeInv /\ FaithInv => \A w \in Workers : Once(w)
  BY <1>1
<1>3. ScopeInv /\ FaithInv /\ [Next]_vars => [\A w \in Workers : Once(w)]_vars
  BY <1>2
<1> QED BY <1>3, FaithInvariant, PTL DEF Spec, ImportedOnce

(* The days of an event, in words: from its start to the day before its    *)
(* end, or to its end when it has hours.                                   *)
LEMMA AbsentDays ==
  ASSUME ScopeInv, NEW r, NEW d \in Days, NEW wholeDay \in BOOLEAN
  PROVE  Absent(r, d, wholeDay) <=>
           \E e \in shown : e.allDay = wholeDay /\ r \in e.who /\ d \in EventDays(e)
<1>1. ASSUME NEW e \in shown, e.allDay = wholeDay
      PROVE  d \in EventDays(e) <=>
               /\ e.start <= d
               /\ IF wholeDay THEN d < e.end \/ d = e.start ELSE d <= e.end
  <2>1. e \in Event
    BY DEF ScopeInv, TypeOK
  <2>2. e.start \in Int /\ e.end \in Int /\ d \in Int /\ e.allDay \in BOOLEAN
    BY <2>1 DEF Event
  <2>3. d \in EventDays(e) <=> e.start <= d /\ d <= LastDay(e)
    BY DEF EventDays
  <2> QED BY <1>1, <2>2, <2>3 DEF LastDay
<1> QED BY <1>1 DEF Absent

(* What is wanted of a person on a day of the window is what the calendars *)
(* show, and one row of it.                                                *)
WantedOn(p, r, d) == {n \in Wanted(shown, p) : n.res = r /\ n.day = d}
ShownOn(r, d) ==
  IF r \in active /\ d \in WorkDays /\ (Absent(r, d, TRUE) \/ Absent(r, d, FALSE))
  THEN {[res |-> r, day |-> d, source |-> "confluence",
         type |-> IF Absent(r, d, TRUE) THEN "ferie" ELSE "permesso"]}
  ELSE {}

LEMMA WantedDay ==
  ASSUME ScopeInv, NEW p \in SUBSET Days, NEW r \in Resources, NEW d \in p
  PROVE  WantedOn(p, r, d) = ShownOn(r, d)
<1> DEFINE about == {e \in shown : r \in e.who /\ d \in EventDays(e)}
           mine == {n \in Wanted(shown, p) : n.res = r /\ n.day = d}
           type == IF Absent(r, d, TRUE) THEN "ferie" ELSE "permesso"
           one == [res |-> r, day |-> d, source |-> "confluence", type |-> type]
<1>0. d \in Days /\ \A e \in shown : e.allDay \in BOOLEAN
  BY DEF ScopeInv, TypeOK, Event
<1>1. Absent(r, d, TRUE) <=> \E e \in about : e.allDay
  BY <1>0, AbsentDays
<1>2. Absent(r, d, TRUE) \/ Absent(r, d, FALSE) <=> about # {}
  BY <1>0, AbsentDays
<1>3. ASSUME NEW n \in mine PROVE n = one /\ r \in active /\ d \in WorkDays /\ about # {}
  <2>1. /\ n \in [res : active, day : p \cap WorkDays, source : {"confluence"},
                  type : {"ferie", "permesso"}]
        /\ n.res = r /\ n.day = d /\ about # {}
        /\ n.type = "ferie" <=> \E e \in about : e.allDay
    BY DEF Wanted
  <2>2. n.type = type /\ n.source = "confluence"
    BY <1>1, <2>1
  <2>3. n = [res |-> n.res, day |-> n.day, source |-> n.source, type |-> n.type]
    BY <2>1
  <2> QED BY <2>1, <2>2, <2>3
<1>4. r \in active /\ d \in WorkDays /\ about # {} => one \in mine
  BY <1>1 DEF Wanted
<1> HIDE DEF mine, one, about
<1>5. mine = IF r \in active /\ d \in WorkDays /\ about # {} THEN {one} ELSE {}
  BY <1>3, <1>4
<1> QED BY <1>2, <1>5 DEF mine, one, WantedOn, ShownOn

(* A sync that nobody disturbs makes its window the picture of the         *)
(* calendars, whatever duplicates, failures or crashes came before         *)
(* (sync_from_confluence).                                                 *)
THEOREM CalendarMirrored == Spec => MirrorsCalendar
<1> DEFINE Now(r, d) == {x \in rows' : x.source = "confluence" /\ x.res = r /\ x.day = d}
           Exact(w) == Commit(w) /\ job[w].pc = "synced" /\ job[w].calm =>
                         \A r \in Resources, d \in job[w].period : Mirrored(r, d, Now(r, d))
<1>1. ASSUME ScopeInv, FaithInv, NEW w \in Workers PROVE Exact(w)
  <2> SUFFICES ASSUME Commit(w), job[w].pc = "synced", job[w].calm,
                      NEW r \in Resources, NEW d \in job[w].period
               PROVE  Mirrored(r, d, Now(r, d))
    OBVIOUS
  <2> DEFINE mine == {n \in job[w].new : n.res = r /\ n.day = d}
             type == IF Absent(r, d, TRUE) THEN "ferie" ELSE "permesso"
  <2>1. job[w] \in Job /\ Scoped(job[w]) /\ Faithful(job[w])
    BY <1>1 DEF ScopeInv, TypeOK, FaithInv
  <2>2. /\ Replaced(job[w].period) \subseteq job[w].seen
        /\ job[w].new = Wanted(shown, job[w].period)
        /\ \A n \in job[w].new : n.source = "confluence"
    BY <2>1 DEF Faithful, Pictured, Scoped, SyncScope
  <2>3. Now(r, d) = {Stamped(n) : n \in mine}
    <3>1. \A x \in rows : x.source = "confluence" /\ x.day = d => x \in job[w].seen
      BY <2>2 DEF Replaced
    <3>2. \A n \in job[w].new : /\ Stamped(n).source = n.source
                                /\ Stamped(n).res = n.res /\ Stamped(n).day = n.day
      BY DEF Stamped
    <3>3. rows' = (rows \ job[w].seen) \union {Stamped(n) : n \in job[w].new}
      BY DEF Commit
    <3> QED BY <2>2, <3>1, <3>2, <3>3
  <2>4. mine = IF r \in active /\ d \in WorkDays
                    /\ (Absent(r, d, TRUE) \/ Absent(r, d, FALSE))
               THEN {[res |-> r, day |-> d, source |-> "confluence", type |-> type]}
               ELSE {}
    <3>1. job[w].period \in SUBSET Days
      BY <2>1 DEF Job
    <3>2. mine = WantedOn(job[w].period, r, d)
      BY <2>2 DEF WantedOn
    <3>3. ScopeInv
      BY <1>1
    <3>4. \A p \in SUBSET Days : d \in p => WantedOn(p, r, d) = ShownOn(r, d)
      <4>1. SUFFICES ASSUME NEW p \in SUBSET Days, d \in p
                     PROVE  WantedOn(p, r, d) = ShownOn(r, d)
        OBVIOUS
      <4> QED BY <3>3, <4>1, WantedDay
    <3>5. WantedOn(job[w].period, r, d) = ShownOn(r, d)
      BY <3>1, <3>4
    <3> HIDE DEF mine
    <3> QED BY <3>2, <3>5 DEF ShownOn
  <2> HIDE DEF mine, Now
  <2>5. CASE /\ r \in active /\ d \in WorkDays
             /\ Absent(r, d, TRUE) \/ Absent(r, d, FALSE)
    <3> DEFINE one == Stamped([res |-> r, day |-> d, source |-> "confluence", type |-> type])
    <3>1. mine = {[res |-> r, day |-> d, source |-> "confluence", type |-> type]}
      BY <2>4, <2>5
    <3>2. Now(r, d) = {one}
      <4> HIDE DEF type
      <4> QED BY <2>3, <3>1
    <3>3. one.type = type
      BY DEF Stamped
    <3> HIDE DEF one
    <3> QED BY <2>5, <3>2, <3>3 DEF Mirrored
  <2>6. CASE ~(/\ r \in active /\ d \in WorkDays
               /\ Absent(r, d, TRUE) \/ Absent(r, d, FALSE))
    <3>1. mine = {}
      BY <2>4, <2>6
    <3>4. Now(r, d) = {}
      BY <2>3, <3>1
    <3> QED BY <2>6, <3>4 DEF Mirrored
  <2> QED BY <2>5, <2>6
<1>2. ScopeInv /\ FaithInv => \A w \in Workers : Exact(w)
  BY <1>1
<1>3. ScopeInv /\ FaithInv /\ [Next]_vars => [\A w \in Workers : Exact(w)]_vars
  BY <1>2
<1> QED BY <1>3, FaithInvariant, PTL DEF Spec, MirrorsCalendar
=============================================================================
