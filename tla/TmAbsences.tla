----------------------------- MODULE TmAbsences -----------------------------
(***************************************************************************)
(* Absences of the external resources (app/services/tm.py): the sync of    *)
(* the team calendars of Confluence, the import of rows, the requests of   *)
(* people, and the days that the cost report bills.                        *)
(*                                                                         *)
(* The calendars are read one request at a time; the rows are then         *)
(* replaced in a transaction, at READ COMMITTED: a DELETE removes the rows *)
(* that were committed when it began, not those that others write          *)
(* meanwhile.  Row locks only make one of two transactions wait for the    *)
(* other: they are left out, which allows more interleavings, never fewer. *)
(***************************************************************************)
EXTENDS Integers, FiniteSets

CONSTANTS
  Resources,   \* ExternalResource
  Unknown,     \* an email of the file that no resource has
  Days,        \* days, consecutive
  WorkDays,    \* those that are not Saturdays, Sundays and holidays
  Months,      \* months, each a set of days
  Years,       \* the chunks of one request, each a set of days
  Calendars,   \* the Events and Leaves sub-calendars of the space
  Events,      \* what people may write there
  Files,       \* rows that may be imported together
  FreeTypes,   \* what people may write as a type
  Contract,    \* contract_start and contract_end
  Workers,     \* requests under way
  MaxWrites,   \* bound: transactions that write
  MaxChanges   \* bound: changes of the calendar and of the resources

AbsenceTypes == {"ferie", "malattia", "permesso", "altro"}
Event == [cal : Calendars, who : SUBSET Resources, start : Days, end : Int, allDay : BOOLEAN]
FileRow == [res : Resources \union {Unknown}, day : Days, type : STRING]

ASSUME DaysAssumption == Days \subseteq Int /\ IsFiniteSet(Days) /\ WorkDays \subseteq Days
ASSUME MonthsAssumption == Months \subseteq SUBSET Days /\ Years \subseteq SUBSET Days
ASSUME YearsAssumption == \A d \in Days : \E y \in Years : d \in y
ASSUME EventsAssumption == Events \subseteq Event
ASSUME UnknownAssumption == Unknown \notin Resources
ASSUME CalendarsAssumption == Calendars # {}
ASSUME FilesAssumption == Files \subseteq SUBSET FileRow /\ FreeTypes \subseteq STRING
ASSUME ContractAssumption == Contract \in [Resources -> [start : Int, end : Int]]
ASSUME BoundsAssumption == MaxWrites \in Nat /\ MaxChanges \in Nat

VARIABLES
  shown,    \* the events of the calendars
  active,   \* the resources with is_active
  rows,     \* resource_absences, each with the transaction that wrote it
  job,      \* what each request is doing
  writes,   \* transactions that wrote
  changes

vars == <<shown, active, rows, job, writes, changes>>

Idle == [pc |-> "idle", period |-> {}, todo |-> {}, got |-> {}, seen |-> {}, new |-> {},
         calm |-> TRUE]

Init ==
  /\ shown \in SUBSET Events
  /\ active \in SUBSET Resources
  /\ rows = {}
  /\ job = [w \in Workers |-> Idle]
  /\ writes = 0 /\ changes = 0

Goto(w, j) == job' = [job EXCEPT ![w] = j]

-----------------------------------------------------------------------------
(* The sync of the calendars *)

(* sync_window, or one month. *)
Periods == Months \union {Days}

(* One request per calendar and year. *)
Chunks(period) == {y \cap period : y \in Years} \ {{}}
Requests(period) == [cal : Calendars, days : Chunks(period)]

(* _event_days: the end of a whole day is exclusive. *)
LastDay(e) ==
  IF ~e.allDay THEN e.end ELSE IF e.end > e.start THEN e.end - 1 ELSE e.start
EventDays(e) == {d \in Days : e.start <= d /\ d <= LastDay(e)}

StartSync(w) ==
  /\ job[w].pc = "idle"
  /\ \E p \in Periods :
       Goto(w, [Idle EXCEPT !.pc = "reading", !.period = p, !.todo = Requests(p)])
  /\ UNCHANGED <<shown, active, rows, writes, changes>>

Read(w) ==
  /\ job[w].pc = "reading" /\ job[w].todo # {}
  /\ LET q == CHOOSE q \in job[w].todo : TRUE
         answer == {e \in shown : e.cal = q.cal /\ EventDays(e) \cap q.days # {}}
     IN  Goto(w, [job[w] EXCEPT !.todo = @ \ {q}, !.got = @ \union answer])
  /\ UNCHANGED <<shown, active, rows, writes, changes>>

(* Fault: a calendar that fails is left out. *)
Failed_Skipped(j) == [j EXCEPT !.todo = {}]

(* "never replace the period with a partial picture" *)
Failed(j) == Idle

ReadFails(w) ==
  /\ job[w].pc = "reading" /\ job[w].todo # {}
  /\ Goto(w, Failed(job[w]))
  /\ UNCHANGED <<shown, active, rows, writes, changes>>

(* "a whole day off already covers any permesso" *)
Wanted(got, period) ==
  {n \in [res : active, day : period \cap WorkDays, source : {"confluence"},
          type : {"ferie", "permesso"}] :
     LET about == {e \in got : n.res \in e.who /\ n.day \in EventDays(e)}
     IN  about # {} /\ (n.type = "ferie" <=> \E e \in about : e.allDay)}

(* Fault: every absence of the period is replaced. *)
Replaced_Any(period) == {x \in rows : x.day \in period}

(* The rows that the DELETE removes. *)
Replaced(period) == {x \in rows : x.source = "confluence" /\ x.day \in period}

Delete(w) ==
  /\ job[w].pc = "reading" /\ job[w].todo = {}
  /\ Goto(w, [job[w] EXCEPT !.pc = "synced",
                            !.seen = Replaced(job[w].period),
                            !.new = Wanted(job[w].got, job[w].period)])
  /\ UNCHANGED <<shown, active, rows, writes, changes>>

-----------------------------------------------------------------------------
(* The import of rows *)

StartImport(w) ==
  /\ job[w].pc = "idle"
  /\ \E f \in Files : Goto(w, [Idle EXCEPT !.pc = "importing", !.todo = f, !.got = f])
  /\ UNCHANGED <<shown, active, rows, writes, changes>>

(* What is not a type is "altro". *)
AbsenceType(type) == IF type \in AbsenceTypes THEN type ELSE "altro"

(* Fault: the rows of the last import are kept. *)
Upserted_Kept(x) == {}

(* "Upsert by source=csv to keep imports idempotent" *)
Upserted(x) == {y \in rows : y.res = x.res /\ y.day = x.day /\ y.source = "csv"}

CsvRow(x) == [res |-> x.res, day |-> x.day, source |-> "csv", type |-> AbsenceType(x.type)]

(* Of the rows of a file about one day the last one stays. *)
Replacing(new, x) ==
  {n \in new : n.res # x.res \/ n.day # x.day} \union {CsvRow(x)}

(* A row of somebody unknown is skipped. *)
ImportRow(w) ==
  /\ job[w].pc = "importing"
  /\ \E x \in job[w].todo :
       Goto(w, IF x.res = Unknown THEN [job[w] EXCEPT !.todo = @ \ {x}]
               ELSE [job[w] EXCEPT !.todo = @ \ {x},
                                   !.seen = @ \union Upserted(x),
                                   !.new  = Replacing(@, x)])
  /\ UNCHANGED <<shown, active, rows, writes, changes>>

-----------------------------------------------------------------------------
(* The end of a transaction *)

Stamped(n) == [txn |-> writes + 1, res |-> n.res, day |-> n.day, source |-> n.source,
               type |-> n.type]

(* History: the requests that somebody else disturbed. *)
Disturbed(w) ==
  [v \in Workers |->
     IF v = w \/ job[v].pc = "idle" THEN job[v] ELSE [job[v] EXCEPT !.calm = FALSE]]
Stirred == [v \in Workers |->
              IF job[v].pc = "idle" THEN job[v] ELSE [job[v] EXCEPT !.calm = FALSE]]

MayCommit(w) == job[w].pc = "synced" \/ (job[w].pc = "importing" /\ job[w].todo = {})

Commit(w) ==
  /\ MayCommit(w)
  /\ writes < MaxWrites               \* bound
  /\ rows' = (rows \ job[w].seen) \union {Stamped(n) : n \in job[w].new}
  /\ job' = [Disturbed(w) EXCEPT ![w] = Idle]
  /\ writes' = writes + 1
  /\ UNCHANGED <<shown, active, changes>>

(* An exception, or a process that dies: nothing is written. *)
Abandon(w) ==
  /\ job[w].pc # "idle"
  /\ Goto(w, Idle)
  /\ UNCHANGED <<shown, active, rows, writes, changes>>

-----------------------------------------------------------------------------
(* Requests of people *)

(* No one checks the type. *)
CreateAbsence(r, d, type) ==
  /\ writes < MaxWrites               \* bound
  /\ rows' = rows \union {Stamped([res |-> r, day |-> d, source |-> "manual", type |-> type])}
  /\ writes' = writes + 1
  /\ UNCHANGED <<shown, active, job, changes>>

DeleteAbsence(x) ==
  /\ rows' = rows \ {x}
  /\ UNCHANGED <<shown, active, job, writes, changes>>

DeleteAllAbsences ==
  /\ rows # {}
  /\ rows' = {}
  /\ UNCHANGED <<shown, active, job, writes, changes>>

(* update_resource, and its deactivation. *)
SetActive(r) ==
  /\ changes < MaxChanges
  /\ active' = IF r \in active THEN active \ {r} ELSE active \union {r}
  /\ job' = Stirred
  /\ changes' = changes + 1
  /\ UNCHANGED <<shown, rows, writes>>

(* The calendar on Confluence. *)
ChangeEvent(e) ==
  /\ changes < MaxChanges
  /\ shown' = IF e \in shown THEN shown \ {e} ELSE shown \union {e}
  /\ job' = Stirred
  /\ changes' = changes + 1
  /\ UNCHANGED <<active, rows, writes>>

Next ==
  \/ \E w \in Workers : \/ StartSync(w) \/ Read(w) \/ ReadFails(w) \/ Delete(w)
                        \/ StartImport(w) \/ ImportRow(w) \/ Commit(w) \/ Abandon(w)
  \/ \E r \in Resources, d \in Days, t \in FreeTypes : CreateAbsence(r, d, t)
  \/ \E x \in rows : DeleteAbsence(x)
  \/ DeleteAllAbsences
  \/ \E r \in Resources : SetActive(r)
  \/ \E e \in Events : ChangeEvent(e)

Spec == Init /\ [][Next]_vars

-----------------------------------------------------------------------------
(* The cost report *)

(* A contract that covers any part of the month. *)
Reported(r, month) ==
  /\ r \in active
  /\ \E d \in month : d >= Contract[r].start
  /\ \E d \in month : d <= Contract[r].end

AbsencesIn(r, month) == {x \in rows : x.res = r /\ x.day \in month}

AbsenceDays(r, month) ==
  Cardinality({d \in WorkDays \cap month : d \in {x.day : x \in AbsencesIn(r, month)}})

BillableDays(r, month) == Cardinality(WorkDays \cap month) - AbsenceDays(r, month)

-----------------------------------------------------------------------------
(* Properties *)

NewRow == [res : Resources, day : Days, source : {"csv", "confluence"}, type : AbsenceTypes]
Row ==
  [txn : Nat, res : Resources, day : Days, source : {"csv", "confluence"}, type : AbsenceTypes]
    \union [txn : Nat, res : Resources, day : Days, source : {"manual"}, type : STRING]
Request == [cal : Calendars, days : SUBSET Days]
Job == [pc : {"idle", "reading", "synced", "importing"}, period : SUBSET Days,
        todo : SUBSET (Request \union FileRow), got : SUBSET (Events \union FileRow),
        seen : SUBSET Row, new : SUBSET NewRow, calm : BOOLEAN]

TypeOK ==
  /\ shown \in SUBSET Events
  /\ active \in SUBSET Resources
  /\ rows \in SUBSET Row
  /\ job \in [Workers -> Job]
  /\ writes \in 0..MaxWrites /\ changes \in 0..MaxChanges

(* "manual and CSV absences are never touched" by a sync, nor what is out  *)
(* of its window; an import replaces CSV absences of its own days only,    *)
(* however many of them overlap (tm.py, the deletions of both).            *)
OthersKept ==
  [][\A w \in Workers : Commit(w) =>
       \A x \in (rows \ rows') \union (rows' \ rows) :
          IF job[w].pc = "synced"
          THEN x.source = "confluence" /\ x.day \in job[w].period
          ELSE x.source = "csv" /\ \E y \in job[w].got : y.res = x.res /\ y.day = x.day]_vars

(* A sync that nobody disturbs makes its window the picture of all the     *)
(* calendars, one row per person and day, and a whole day wins, whatever   *)
(* syncs that overlapped, or failed, left there before.                    *)
Absent(r, d, wholeDay) ==
  \E e \in shown : /\ e.allDay = wholeDay /\ r \in e.who /\ e.start <= d
                    /\ IF wholeDay THEN d < e.end \/ d = e.start ELSE d <= e.end
Mirrored(r, d, now) ==
  CASE r \in active /\ d \in WorkDays /\ Absent(r, d, TRUE)
         -> \E x \in now : now = {x} /\ x.type = "ferie"
    [] r \in active /\ d \in WorkDays /\ ~Absent(r, d, TRUE) /\ Absent(r, d, FALSE)
         -> \E x \in now : now = {x} /\ x.type = "permesso"
    [] OTHER -> now = {}
MirrorsCalendar ==
  [][\A w \in Workers : Commit(w) /\ job[w].pc = "synced" /\ job[w].calm =>
       \A r \in Resources, d \in job[w].period :
          Mirrored(r, d, {x \in rows' : x.source = "confluence" /\ x.res = r /\ x.day = d})]_vars

(* Importing a file twice leaves what importing it once leaves, one row    *)
(* per person and day (the upsert of import_absences_rows), unless imports *)
(* overlap.                                                                *)
ImportedOnce ==
  [][\A w \in Workers : Commit(w) /\ job[w].pc = "importing" /\ job[w].calm =>
       \A y \in job[w].got : y.res # Unknown =>
          \E x \in rows' : {z \in rows' : z.source = "csv" /\ z.res = y.res /\ z.day = y.day} = {x}]_vars

(* The days billed are the working days without any absence: a day off     *)
(* that is on the calendar, in a file and written by hand, or written      *)
(* twice by imports that overlap, is deducted once (compute_cost_report).  *)
DeductedOnce ==
  \A r \in Resources, month \in Months :
     Reported(r, month) =>
       BillableDays(r, month) =
         Cardinality({d \in month : d \in WorkDays /\ \A x \in rows : x.res = r => x.day # d})
=============================================================================
