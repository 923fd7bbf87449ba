---------------------------- MODULE ResultImport ----------------------------
(* A stage without a process: what it did is in the report files an earlier    *)
(* step wrote, or that a client uploads. Every suite of a file lists attempts  *)
(* of tests; they become one result per test of the suite, the exit code comes *)
(* from the results, and the history keeps one result per test.                *)
EXTENDS Integers, Sequences, FiniteSets, FiniteSetsExt, SequencesExt

CONSTANTS
  Tests,         \* numbers from 1
  MaxCases,      \* bounds the cases of a suite
  MaxFiles,      \* and the files of a stage
  Rules,         \* the tests that a quarantine rule matches
  Uploads        \* what a client may send: sequences of [name, content]

Statuses == {"failed", "passed", "retried", "skipped"}   \* retried: passed on a rerun

\* A suite says how its cases ended, and whether it claims failures or errors.
Suites == [cases : BoundedSeq([test : Tests, status : Statuses], MaxCases), claims : BOOLEAN]

Torn == [readable |-> FALSE, suites |-> <<>>]

Contents == {Torn} \cup {[readable |-> TRUE, suites |-> <<s>>] : s \in Suites}

SuiteFailed == 0   \* the test "(suite failed)", of a suite that claims more than it lists

VARIABLES
  at,            \* "upload", "import", "judge", "record" or "over"
  reports,       \* what the client sent
  files,         \* the contents of the files, in their order
  next,          \* the file that is read next
  results,       \* the result files that were written
  failed,        \* how many of them failed
  unreadable,    \* how many files could not be read
  code,          \* the exit code
  recorded       \* the result of each test in the history

vars == <<at, reports, files, next, results, failed, unreadable, code, recorded>>

TypeOK ==
  /\ at \in {"upload", "import", "judge", "record", "over"}
  /\ next \in 1 .. Len(files) + 1
  /\ failed \in 0 .. Len(results) /\ unreadable \in 0 .. Len(files) /\ code \in {0, 1}
  /\ recorded \subseteq ToSet(results)
  /\ \A one, other \in recorded : one.test = other.test => one = other

Init ==
  /\ \/ at = "import" /\ reports = <<>> /\ files \in BoundedSeq(Contents, MaxFiles)
     \/ at = "upload" /\ reports \in Uploads /\ files = <<>>
  /\ next = 1 /\ results = <<>> /\ failed = 0 /\ unreadable = 0
  /\ code = 0 /\ recorded = {}
-----------------------------------------------------------------------------
(* A file name is the sequence of the numbers before its stem; files count     *)
(* from 0. The name is kept unless a file of the upload has it; then the       *)
(* number of the file goes before it.                                          *)
StoredAs ==
  FoldLeft(LAMBDA names, r :
             Append(names, IF r.name \in ToSet(names) THEN <<Len(names)>> \o r.name ELSE r.name),
           <<>>, reports)

\* A file that is written under the name of another takes its place.
Upload ==
  /\ at = "upload" /\ at' = "import"
  /\ LET names == StoredAs
         Writer(name) == Max({i \in DOMAIN names : names[i] = name})
     IN files' = [n \in 1 .. Cardinality(ToSet(names)) |->
                    reports[Writer(SetToSeq(ToSet(names))[n])].content]
  /\ UNCHANGED <<reports, next, results, failed, unreadable, code, recorded>>
-----------------------------------------------------------------------------
Rank(status) == CASE status = "failed" -> 0 [] status = "skipped" -> 3 [] OTHER -> 2

\* What several attempts of one test come to: a pass after a failure, or the first of the worst.
Folded(attempts) ==
  LET n == Len(attempts)
      Worst == Min({Rank(attempts[i]) : i \in 1 .. n})
      First == Min({i \in 1 .. n : Rank(attempts[i]) = Worst})
  IN IF n > 1 /\ "failed" \in ToSet(attempts) /\ attempts[n] \in {"passed", "retried"}
     THEN "retried" ELSE attempts[First]

AttemptsOf(suite, t) ==
  LET own == SelectSeq(suite.cases, LAMBDA c : c.test = t)
  IN [i \in DOMAIN own |-> own[i].status]

\* Its results: one per test, and one of its own when it claims failures it does not list.
ResultsOf(suite) ==
  LET tests == {c.test : c \in ToSet(suite.cases)}
      Listed == \E c \in ToSet(suite.cases) : c.status = "failed"
  IN {[test |-> t, status |-> Folded(AttemptsOf(suite, t))] : t \in tests}
     \cup IF suite.claims /\ ~Listed THEN {[test |-> SuiteFailed, status |-> "failed"]} ELSE {}

FileResults(file) ==
  FlattenSeq([s \in DOMAIN file.suites |-> SetToSeq(ResultsOf(file.suites[s]))])

IsFailed(r) == r.status = "failed"

Read ==
  /\ at = "import" /\ next <= Len(files) /\ files[next].readable
  /\ LET new == FileResults(files[next]) IN
       /\ results' = results \o new
       /\ failed' = failed + Len(SelectSeq(new, IsFailed))
  /\ next' = next + 1
  /\ UNCHANGED <<at, reports, files, unreadable, code, recorded>>

\* A malformed file is told and skipped.
Skip ==
  /\ at = "import" /\ next <= Len(files) /\ ~files[next].readable
  /\ unreadable' = unreadable + 1 /\ next' = next + 1
  /\ UNCHANGED <<at, reports, files, results, failed, code, recorded>>

\* No file, or nothing in those there are.
NothingRead == files = <<>> \/ (results = <<>> /\ unreadable > 0)

\* evaluate(): every failed test is quarantined.
Waived == {r.test : r \in {one \in ToSet(results) : IsFailed(one)}} \subseteq Rules

Judge ==
  /\ at = "import" /\ next > Len(files) /\ at' = "record"
  /\ code' = IF NothingRead \/ (failed > 0 /\ ~Waived) THEN 1 ELSE 0
  /\ UNCHANGED <<reports, files, next, results, failed, unreadable, recorded>>

\* The result files have random names and are listed in no order: of several
\* results of one test, the history keeps any.
Record ==
  /\ at = "record" /\ at' = "over"
  /\ recorded' \in {kept \in SUBSET ToSet(results) :
       \A r \in ToSet(results) : Cardinality({k \in kept : k.test = r.test}) = 1}
  /\ UNCHANGED <<reports, files, next, results, failed, unreadable, code>>

Next == Upload \/ Read \/ Skip \/ Judge \/ Record

Spec == Init /\ [][Next]_vars
-----------------------------------------------------------------------------
Readable == {f \in ToSet(files) : f.readable}

\* What a suite says failed in it and was not made good.
BadIn(suite) ==
  LET LastOf(t) == Max({i \in DOMAIN suite.cases : suite.cases[i].test = t})
      failing == {c.test : c \in {one \in ToSet(suite.cases) : one.status = "failed"}}
  IN {t \in failing : suite.cases[LastOf(t)].status \notin {"passed", "retried"}}
     \cup (IF suite.claims /\ failing = {} THEN {SuiteFailed} ELSE {})

(* The stage is green only if there was a file that could be read, and no      *)
(* suite of those says that something failed for good that is not quarantined: *)
(* "a job killed mid-write must not be recorded as a passing run". And it is   *)
(* red only if there is such a suite or nothing could be recorded.             *)
GreenMeansPassed ==
  at \in {"record", "over"} =>
    (code = 0 <=> /\ Readable # {}
                  /\ \A f \in Readable : \A s \in ToSet(f.suites) : BadIn(s) \subseteq Rules
                  /\ results = <<>> => Torn \notin ToSet(files))

(* A test that a suite says failed for good is a failed test in the history,   *)
(* waived or not, but for one that is in several suites with different results. *)
RedIsShown ==
  at = "over" =>
    \A f \in Readable : \A s \in ToSet(f.suites) : \A t \in BadIn(s) :
      \/ [test |-> t, status |-> "failed"] \in recorded
      \/ \E one, other \in ToSet(results) : one.test = t /\ other.test = t /\ one # other

(* An uploaded file is read like a file of its own, but for one whose name     *)
(* begins like a number that is put before another: "otherwise the index keeps *)
(* it unique" (junit_ingest.py).                                               *)
EveryFileRead ==
  at # "upload" /\ reports # <<>> /\ (\A i \in DOMAIN reports : reports[i].name = <<>>) =>
    Len(files) = Len(reports)
=============================================================================
