---------------------------- MODULE ErrorReports ----------------------------
(***************************************************************************)
(* The error history of libs/errors, which the alerts of libs/monitoring   *)
(* judge the error rate by: the last errors of a process, as many as are   *)
(* kept, and what is told of those within a window of time.                *)
(*                                                                         *)
(* No app reports to it.  The clock of the process does not go back.       *)
(***************************************************************************)
EXTENDS Naturals, FiniteSets, Sequences, SequencesExt

CONSTANTS
  Error,           \* what is thrown: its code, and whether it is one of libs/errors
  maxHistorySize,  \* 1000
  Window,          \* the hour that collectErrorMetrics asks about, in ticks
  Threshold,       \* of the rule high_error_rate: ten a minute, for the window
  Recent,          \* 20, the errors told in full
  MaxErrors        \* bound on the errors within a window

ErrorReportsAssumption ==
  /\ Error \subseteq [code : {"DATABASE_CONNECTION_ERROR", "INTERNAL_SERVER_ERROR",
                              "DATABASE_QUERY_ERROR", "JOB_NOT_FOUND", "NOT_FOUND"},
                      custom : BOOLEAN]
  /\ \A e \in Error : e.custom \/ e.code = "INTERNAL_SERVER_ERROR"
  /\ {Window, Threshold, Recent} \subseteq Nat \ {0} /\ MaxErrors \in Nat
  /\ maxHistorySize \in Nat
  \* The numbers in the code: 600 and 20 of 1000.
  /\ Threshold < maxHistorySize /\ Recent <= maxHistorySize

VARIABLES
  errorHistory,  \* what is kept, oldest first, with the ticks since each
  happened       \* history: every error of the window since the history was cleared

errorVars == <<errorHistory, happened>>

Severity == {"low", "medium", "high", "critical"}

SeverityOf(code) ==
  CASE code \in {"DATABASE_CONNECTION_ERROR", "INTERNAL_SERVER_ERROR"} -> "critical"
    [] code = "DATABASE_QUERY_ERROR" -> "high"
    [] code = "JOB_NOT_FOUND"        -> "medium"
    [] code = "NOT_FOUND"            -> "low"

\* An error of any other class is high, though its code is critical.
CreateErrorReport(e) ==
  [code |-> e.code, severity |-> IF e.custom THEN SeverityOf(e.code) ELSE "high", age |-> 0]

Report == [code : {e.code : e \in Error}, severity : Severity, age : 0 .. Window]

TypeOK ==
  /\ errorHistory \in Seq(Report) /\ Len(errorHistory) <= maxHistorySize
  /\ happened \in Seq(Report) /\ Len(happened) <= MaxErrors

Init == errorHistory = <<>> /\ happened = <<>>

Newest(s, n) == SubSeq(s, Len(s) - (IF Len(s) < n THEN Len(s) ELSE n) + 1, Len(s))

\* Mutant: the history is cut before the push instead of after it.
StoreErrorCutFirst(r) == errorHistory' = Append(Newest(errorHistory, maxHistorySize), r)

\* push, and the oldest are cut off.
StoreError(r) == errorHistory' = Newest(Append(errorHistory, r), maxHistorySize)

ReportError(e) ==
  /\ Len(happened) < MaxErrors
  /\ StoreError(CreateErrorReport(e))
  /\ happened' = Append(happened, CreateErrorReport(e))

ClearErrorHistory == errorHistory' = <<>> /\ happened' = <<>>

\* The errors of the window, in their order: the n-th of them stands where n
\* have been counted.
Within(s) == {i \in DOMAIN s : s[i].age < Window}

Relevant(s) ==
  [n \in 1 .. Cardinality(Within(s)) |->
     s[CHOOSE i \in Within(s) : Cardinality({j \in Within(s) : j <= i}) = n]]

\* Errors age; those older than the window stay in the history, until others
\* push them out.
Tick ==
  LET Older(r) == [r EXCEPT !.age = IF @ = Window THEN @ ELSE @ + 1]
      Aged(s)  == [i \in DOMAIN s |-> Older(s[i])]
  IN  /\ errorHistory' = Aged(errorHistory)
      /\ happened' = Relevant(Aged(happened))

Next == (\E e \in Error : ReportError(e)) \/ ClearErrorHistory \/ Tick

Spec == Init /\ [][Next]_errorVars

-----------------------------------------------------------------------------
\* getErrorMetrics

GetErrorMetrics(s) ==
  LET relevant == Relevant(s)
      Of(v)    == {i \in DOMAIN relevant : relevant[i].severity = v}
  IN  [total      |-> Len(relevant),
       bySeverity |-> [v \in Severity |-> Cardinality(Of(v))],
       recent     |-> Reverse(Newest(relevant, Recent))]

\* collectErrorMetrics takes the rate from it.
HighErrorRate(metrics) == metrics.total > Threshold

\* What the history tells of the window is as if nothing was ever forgotten:
\* the rule of the error rate is judged alike, and the errors told in full
\* are the newest; as long as the total is not at the limit, so are the counts.
ToldAsIfAllKept ==
  LET told == GetErrorMetrics(errorHistory)
      all  == GetErrorMetrics(happened)
  IN  /\ HighErrorRate(told) <=> HighErrorRate(all)
      /\ told.recent = all.recent
      /\ told.total < maxHistorySize => told = all
=============================================================================
