------------------------------ MODULE MCParts ------------------------------
(* The components beside the server that share no state with each other, each  *)
(* in a small instance. A behaviour is one of one part. The parts take turns   *)
(* with the same variables, the registers: a part uses as many as it needs, in *)
(* the order in which its module declares its own, and the rest stay 0.        *)
EXTENDS Integers, Sequences, FiniteSets, TLC

CONSTANTS
  Servers,      \* of the part "shared": two that are alike
  Parts,        \* that are checked
  Nil,          \* no row, command or file
  Changeable, Globbed, Matched, CycleRuns, MaxEdits,                       \* of the part "trigger"
  BackedUp, WereThere, TargetRuns, MaxBackups,                             \* of the part "backup"
  MaxWatched,                                                              \* of the part "watch"
  Upgraders, Revisions, EarlyReturns, StartsAt, MaxUpgradeCrashes,         \* of the part "upgrade"
  MaxSignals,                                                              \* of the part "wrapper"
  PoolKeys, OwnPrefix, MaxPool, MaxPlanned, AskedKeys, HeldFirst, PoolFirst, People,
  MaxPoolChanges                                                           \* of the part "provider"

\* A glob finds files, and some.
ASSUME TriggerAssumption == Globbed \subseteq Changeable /\ Globbed # {}

\* What was there first is among what is backed up; the target's own runs are other runs.
ASSUME BackupAssumption ==
  WereThere \subseteq BackedUp /\ TargetRuns \cap BackedUp = {} /\ MaxBackups \in Nat

ASSUME WatchAssumption == MaxWatched \in Nat

\* Every revision creates something, and nothing that another creates.
ASSUME UpgradeAssumption ==
  /\ Revisions \in Seq(Seq(Nat)) /\ Revisions # <<>> /\ StartsAt \subseteq 0 .. Len(Revisions)
  /\ \A n \in DOMAIN Revisions : Revisions[n] # <<>>
  /\ \A m, n \in DOMAIN Revisions : \A i \in DOMAIN Revisions[m], j \in DOMAIN Revisions[n] :
       m # n => Revisions[m][i] # Revisions[n][j]

ASSUME WrapperAssumption == MaxSignals \in Nat

\* Only keys there may be are held, in the pool or asked for.
ASSUME ProviderAssumption ==
  /\ IsFiniteSet(PoolKeys) /\ HeldFirst \subseteq PoolKeys /\ PoolFirst \subseteq PoolKeys
  /\ OwnPrefix \subseteq PoolKeys /\ AskedKeys \subseteq SUBSET PoolKeys
ASSUME ProviderBounds == MaxPool \in Nat /\ MaxPlanned \in Nat /\ MaxPoolChanges \in Nat

VARIABLES
  part,
  r1, r2, r3, r4, r5, r6, r7, r8, r9, r10, r11, r12, r13, r14, r15, r16, r17, r18, r19

regs == <<part, r1, r2, r3, r4, r5, r6, r7, r8, r9, r10, r11, r12, r13, r14, r15, r16, r17, r18,
         r19>>

\* The registers after the n-th: at the beginning and in every step.
Blank(n) ==
  /\ n < 2 => r2 = 0
  /\ n < 3 => r3 = 0
  /\ n < 4 => r4 = 0
  /\ n < 5 => r5 = 0
  /\ n < 6 => r6 = 0
  /\ n < 7 => r7 = 0
  /\ n < 8 => r8 = 0
  /\ n < 9 => r9 = 0
  /\ n < 10 => r10 = 0
  /\ n < 11 => r11 = 0
  /\ n < 12 => r12 = 0
  /\ n < 13 => r13 = 0
  /\ n < 14 => r14 = 0
  /\ n < 15 => r15 = 0
  /\ n < 16 => r16 = 0
  /\ n < 17 => r17 = 0
  /\ n < 18 => r18 = 0
  /\ n < 19 => r19 = 0

Idle(n) ==
  /\ n < 2 => UNCHANGED r2
  /\ n < 3 => UNCHANGED r3
  /\ n < 4 => UNCHANGED r4
  /\ n < 5 => UNCHANGED r5
  /\ n < 6 => UNCHANGED r6
  /\ n < 7 => UNCHANGED r7
  /\ n < 8 => UNCHANGED r8
  /\ n < 9 => UNCHANGED r9
  /\ n < 10 => UNCHANGED r10
  /\ n < 11 => UNCHANGED r11
  /\ n < 12 => UNCHANGED r12
  /\ n < 13 => UNCHANGED r13
  /\ n < 14 => UNCHANGED r14
  /\ n < 15 => UNCHANGED r15
  /\ n < 16 => UNCHANGED r16
  /\ n < 17 => UNCHANGED r17
  /\ n < 18 => UNCHANGED r18
  /\ n < 19 => UNCHANGED r19

\* A step of part p, which has n variables.
In(p, n, Act) == part = p /\ UNCHANGED part /\ Act /\ Idle(n)

Sym == Permutations(Servers)

-----------------------------------------------------------------------------
(* Two servers on one database, crashes and failing database calls.            *)
Shared == INSTANCE Executions WITH
  Cycles <- {"a"}, MaxRuns <- 2, MaxConcurrent <- 1, MaxFinished <- 1, Durable <- TRUE,
  DbErrors <- TRUE, Crashes <- TRUE, Peek <- FALSE, created <- r1, cycle <- r2, rows <- r3,
  up <- r4, todo <- r5, known <- r6, active <- r7, fifo <- r8, finished <- r9,
  status <- r10, done <- r11, stopped <- r12, outcome <- r13, at <- r14, cancelling <- r15,
  accepted <- r16, started <- r17, refused <- r18, told <- r19

SharedStep ==
  \/ \E s \in Servers :
       \/ Shared!Pick(s) \/ Shared!Create(s) \/ Shared!Crash(s) \/ Shared!Restart(s)
       \/ Shared!Recover(s) \/ Shared!RecoverDrop(s)
  \/ \E s \in Servers, i \in 1 .. 2 :
       \/ Shared!Steps(s, i) \/ Shared!Cancelling(s, i) \/ Shared!CancelQueued(s, i)
       \/ Shared!CancelRunning(s, i)

(* Lease clients that may freeze for any time between two calls.               *)
Clients == {"c1", "c2"}
Frozen == INSTANCE LeaseClient WITH
  Clients <- Clients, Keys <- {1}, Wants <- [c \in Clients |-> {1}],
  User <- [c \in Clients |-> "ann"], MaxPerUser <- 0, TTL <- 1, ReuseDelay <- 0,
  WaiterTTL <- 0, Interval <- 1, PrepareTicks <- 1, ResetTicks <- 1, Blips <- 0,
  HasRelease <- TRUE, Prompt <- FALSE, Admin <- TRUE, leases <- r1, waiters <- r2,
  disabled <- r3, clean <- r4, pc <- r5, key <- r6, lid <- r7, todo <- r8, timer <- r9,
  beat <- r10, blips <- r11, lost <- r12, mark <- r13, retry <- r14, used <- r15

FrozenStep ==
  \/ \E c \in Clients :
       \/ Frozen!Request(c) \/ Frozen!Take(c) \/ Frozen!GiveUp(c) \/ Frozen!Quit(c)
       \/ Frozen!Prepare(c) \/ Frozen!Heartbeat(c) \/ Frozen!Done(c) \/ Frozen!Release(c)
       \/ Frozen!Crash(c)
  \/ Frozen!AdminStep \/ Frozen!Tick

(* The trigger of a cycle: a file that glob and match both accept, one of      *)
(* each alone.                                                                 *)
Trigger == INSTANCE CycleTrigger WITH
  Files <- Changeable, Runs <- CycleRuns, since <- r1, work <- r2, head <- r3, base <- r4,
  snapshot <- r5, lock <- r6, at <- r7, mode <- r8, seen <- r9, began <- r10, passed <- r11,
  moved <- r12, edits <- r13

TriggerStep ==
  \/ \E f \in Changeable : Trigger!Edit(f)
  \/ Trigger!Commit \/ Trigger!Merge
  \/ \E r \in CycleRuns :
       \/ Trigger!GitDiff(r) \/ Trigger!GitList(r) \/ Trigger!EvaluateSnapshot(r)
       \/ Trigger!Force(r) \/ Trigger!Start(r) \/ Trigger!End(r) \/ Trigger!Remember(r)

(* The outcomes of one test on two branches.                                   *)
Flaky == INSTANCE FlakyPolicy WITH
  Branches <- {"main", "pr"}, Environments <- {"e"}, Commits <- {1}, Window <- 5,
  BrokenStreak <- 2, MinFlips <- 2, MaxRecorded <- 4, recorded <- r1

FlakyStep ==
  \/ \E o \in Flaky!Observation : Flaky!Record(o)

(* The stored quarantine of a test and two passes over it.                     *)
Stored == INSTANCE Quarantine WITH
  ReleaseAfter <- 2, Threshold <- 30, Window <- 3, BrokenStreak <- 3, MinFlips <- 1,
  Passes <- {1, 2}, MaxRuns <- 4, history <- r1, entry <- r2, at <- r3, covered <- r4,
  listed <- r5, found <- r6, released <- r7

StoredStep ==
  \/ \E r \in {1, 2}, o \in {"pass", "retried", "fail", "absent"} : Stored!Record(r, o)
  \/ Stored!AddByHand \/ Stored!RemoveByHand
  \/ \E r \in {1, 2} :
       \/ Stored!ListReleasable(r) \/ Stored!Release(r) \/ Stored!ReadRules(r)
       \/ Stored!Find(r) \/ Stored!AutoAdd(r)

(* The issues of two tests and two passes over them.                           *)
Issues == INSTANCE FlakyIssues WITH
  Tests <- {1, 2}, MaxOpen <- 1, CloseAfter <- 1, Errors <- TRUE, Passes <- {1, 2},
  MaxRuns <- 3, flaky <- r1, calm <- r2, issues <- r3, at <- r4, newly <- r5,
  closable <- r6, seen <- r7, opened <- r8, due <- r9, waiting <- r10, excused <- r11,
  together <- r12, runs <- r13, numbers <- r14

IssuesStep ==
  \/ \E p \in {1, 2} :
       \/ Issues!Record(p) \/ Issues!ReadHistory(p) \/ Issues!ListOpen(p)
       \/ Issues!Fail(p) \/ Issues!Close(p) \/ Issues!Open(p) \/ Issues!Finish(p)

(* Jobs of the GitHub action: two of one cycle, one of another; a person has   *)
(* commented before them.                                                      *)
CycleOf == <<11, 11, 12>>
Action == INSTANCE ActionJob WITH
  Jobs <- {1, 2, 3}, CycleOf <- CycleOf, Tests <- {1},
  Posted <- <<[cycle |-> 9, of |-> 9, by |-> 9, from |-> 9]>>, PageSize <- 1, MaxPages <- 2,
  None <- 9, shared <- r1, at <- r2, finished <- r3, stored <- r4, body <- r5, page <- r6,
  target <- r7, flaky <- r8, titles <- r9, comments <- r10, issues <- r11, overlapped <- r12

ActionStep ==
  \/ \E j \in {1, 2, 3} :
       \/ Action!Run(j) \/ Action!Render(j) \/ Action!ListComments(j) \/ Action!Patch(j)
       \/ Action!Post(j) \/ Action!CommentFails(j) \/ Action!NewlyFlaky(j)
       \/ Action!ReadTitles(j) \/ Action!OpenIssue(j, <<1, CycleOf[j]>>)
       \/ Action!IssuesEnd(j) \/ Action!Cancelled(j)

(* One account name, two commands, one sign-in at a time, a rotated token.     *)
Users == INSTANCE Accounts WITH
  Names <- {"n"}, Admins <- {1, 2}, SignIns <- {1}, MaxChanges <- 3, MaxTokens <- 2,
  SessionKey <- FALSE, None <- Nil, row <- r1, command <- r2, signIn <- r3, cookies <- r4,
  token <- r5, previous <- r6, clock <- r7, changed <- r8, overlapped <- r9

UsersStep ==
  \/ \E a \in {1, 2} :
       \/ Users!UpdateWrite(a) \/ Users!UpdateFails(a) \/ Users!Add(a, "n")
       \/ Users!Remove(a, "n")
  \/ \E a \in {1, 2}, reset \in BOOLEAN : Users!UpdateRead(a, "n", reset)
  \/ Users!Cookie(1) \/ Users!Authenticate(1, "n") \/ Users!Rotate \/ Users!EndRotation

(* Two requests under way, two names, two addresses, room for three of the     *)
(* four keys.                                                                  *)
Throttle == INSTANCE LoginThrottle WITH
  Requests <- {1, 2}, Names <- {"x", "y"}, Addresses <- {"u", "v"}, MaxFailures <- 1,
  Factor <- 2, Window <- 3, MaxTracked <- 3, MaxNow <- 4, failures <- r1, order <- r2,
  now <- r3, request <- r4

ThrottleStep ==
  \/ \E q \in {1, 2}, n \in {"x", "y"}, a \in {"u", "v"} : Throttle!Check(q, n, a)
  \/ \E q \in {1, 2} :
       \/ Throttle!Failed(q) \/ Throttle!Succeeded(q)
  \/ Throttle!Tick

(* A run that was there, one that comes, and one of the target's own.          *)
Copy == INSTANCE Backup WITH
  Ids <- BackedUp, Earlier <- WereThere, Mine <- TargetRuns, None <- Nil, at <- r1,
  row <- r2, tests <- r3, folder <- r4, dump <- r5, step <- r6, todo <- r7, settled <- r8,
  backups <- r9, out <- r10, target <- r11, restore <- r12

CopyStep ==
  \/ \E i \in BackedUp :
       \/ Copy!CreateRow(i) \/ Copy!CopyStarts(i) \/ Copy!CopyEnds(i)
       \/ Copy!WriteTests(i) \/ Copy!RemoveTests(i) \/ Copy!RemoveRow(i)
       \/ Copy!RemoveFolder(i) \/ Copy!AddFolder(i) \/ Copy!Extract(i)
  \/ Copy!DumpRuns \/ Copy!DumpTests \/ Copy!BackupFails \/ Copy!Publish
  \/ \E replace \in BOOLEAN : Copy!Check(replace)
  \/ Copy!Load \/ Copy!LoadFails \/ Copy!RestoreCrash \/ Copy!RestoreEnds

(* Three tests and two shards, the first with two workers: file t holds tests  *)
(* 1 and 2, test file g was deleted, a rule names 2 for file r, file c ran in  *)
(* 3 and in one that is gone.                                                  *)
Slow == [ms |-> 2, rank |-> 3]
Failed == [ms |-> 1, rank |-> 0]
Unknown == [ms |-> 0, rank |-> 3]
Three == {1, 2, 3}
HasWorkers == <<{1, 2}, {1}>>
Repository == {"t", "g", "r", "c", "new", "doc"}
Select == INSTANCE TestSelection WITH
  Count <- 2, Workers <- HasWorkers, Collection <- <<<<1, 2, 3>>, <<3, 1, 2>>>>,
  Files <- Repository, RunAllWhen <- {}, Ignored <- {"doc"}, TestFiles <- {"t", "g"},
  TestsOf <- "t" :> {1, 2}, Rules <- "r" :> {2}, Missing <- {}, Coverage <- "c" :> {3, 4},
  Seen <- {Slow, Failed, Unknown},
  Histories <- {[t \in Three |-> Unknown], <<Slow, Failed, Unknown>>},
  Diffs <- {{}, {"g"}, {"t", "g", "r"}, {"c"}}, MaxChanges <- 1, history <- r1, changed <- r2,
  at <- r3, times <- r4, ranks <- r5, picked <- r6, ran <- r7, changes <- r8

SelectStep ==
  \/ \E j \in {1, 2} :
       \/ Select!ReadTimes(j) \/ Select!NoTimes(j) \/ Select!ReadRanks(j)
  \/ \E j \in {1, 2} : \E w \in HasWorkers[j] :
       \/ Select!PickAffected(j, w) \/ Select!Collect(j, w)
  \/ \E t \in Three, seen \in {Slow, Failed, Unknown} : Select!Record(t, seen)
  \/ \E f \in Repository : Select!Edit(f)

(* Three changes of the watched files.                                         *)
Watcher == INSTANCE Watch WITH
  MaxChanges <- MaxWatched, None <- 0, tree <- r1, events <- r2, timers <- r3, slot <- r4,
  running <- r5, covered <- r6

WatcherStep ==
  \/ Watcher!Change \/ Watcher!Handle
  \/ \E t \in 1 .. MaxWatched :
       \/ Watcher!Expire(t) \/ Watcher!Fire(t) \/ Watcher!RunStarts(t)
       \/ Watcher!RunEnds(t)

(* Four chunks, of which one kind tells of a crash.                            *)
Output == INSTANCE RunOutput WITH
  Sizes <- [c \in {"text", "crash"} |-> IF c = "text" THEN 1 ELSE 2], Crashes <- {"crash"},
  Capacity <- 3, MaxChunks <- 4, written <- r1, unread <- r2, writers <- r3, reader <- r4,
  chunk <- r5, log <- r6, ring <- r7, closed <- r8, told <- r9, found <- r10, main <- r11,
  tail <- r12, verdict <- r13, late <- r14

OutputStep ==
  \/ \E c \in {"text", "crash"} : Output!Write(c)
  \/ Output!StageExits \/ Output!LeftExits \/ Output!Read \/ Output!ReadEof \/ Output!Feed
  \/ Output!Tell
  \/ \E giveUp \in BOOLEAN : Output!Join(giveUp)
  \/ Output!Close \/ Output!Judge

(* Processes that upgrade one database; some revisions return early.           *)
ThreeRevisions == <<<<1, 2>>, <<3>>, <<4, 5>>>>

Upgrade == INSTANCE SchemaUpgrade WITH
  Processes <- Upgraders, Items <- Revisions, Early <- EarlyReturns,
  Starts <- StartsAt, MaxCrashes <- MaxUpgradeCrashes, dialect <- r1, built <- r2, rows <- r3,
  at <- r4,
  rev <- r5, todo <- r6, open <- r7, fresh <- r8, mine <- r9, base <- r10, crashes <- r11

UpgradeStep ==
  \/ \E p \in Upgraders :
       \/ Upgrade!Begin(p) \/ Upgrade!Inspect(p) \/ Upgrade!Create(p) \/ Upgrade!Stamp(p)
       \/ Upgrade!Commit(p) \/ Upgrade!DatabaseError(p) \/ Upgrade!CommandError(p)
       \/ Upgrade!AfterError(p) \/ Upgrade!Crash(p)

(* A page that starts two runs, one after the other.                           *)
Page == INSTANCE RunPage WITH
  MaxRuns <- 2, at <- r1, outcome <- r2, wrote <- r3, asked <- r4, phase <- r5,
  shown <- r6, posting <- r7, open <- r8, ref <- r9, poll <- r10, cancel <- r11,
  source <- r12, astray <- r13

PageStep ==
  \/ \E r \in 1 .. 2 :
       \/ Page!Accept(r) \/ Page!Begin(r) \/ Page!MarkDone(r) \/ Page!Start(r)
       \/ Page!Created(r) \/ Page!CreateFails(r) \/ Page!Started(r) \/ Page!Final(r)
       \/ Page!Breaks(r) \/ Page!PollServed(r) \/ Page!PollAnswered(r) \/ Page!Stop(r)
       \/ Page!CancelServed(r) \/ Page!CancelAnswered(r) \/ Page!CancelFails(r)
  \/ \E r \in 1 .. 2, how \in {"passed", "failed", "stopped", "crashed"} : Page!End(r, how)

(* A command that holds a key, and two signals of each kind.                   *)
Wrapper == INSTANCE LeaseRun WITH
  MaxSignals <- MaxSignals, at <- r1, lease <- r2, command <- r3, terms <- r4, ints <- r5,
  told <- r6, swallowed <- r7, inPopen <- r8

WrapperStep ==
  \/ Wrapper!Arm \/ Wrapper!Popen \/ Wrapper!Fork \/ Wrapper!PopenReturns
  \/ Wrapper!PopenFails \/ Wrapper!CommandEnds \/ Wrapper!WaitReturns \/ Wrapper!Release
  \/ Wrapper!Sigterm \/ Wrapper!Sigint

(* Every output of five cells, cut in every way.                               *)
Scanner == INSTANCE CrashScan WITH
  MaxText <- 5, CarryMax <- 3, text <- r1, carry <- r2, found <- r3, over <- r4

ScannerStep ==
  \/ Scanner!Finish
  \/ \E n \in 1 .. 5 : \E chunk \in [1 .. n -> Scanner!Cells] : Scanner!Feed(chunk)

(* Two stages of two tests, one of them quarantined.                           *)
Verdict == INSTANCE StageVerdict WITH
  Stages <- {1, 2}, Tests <- {1, 2}, Rules <- {1}, Chosen <- FALSE, at <- r1,
  results <- r2, printed <- r3, code <- r4, returncode <- r5, crash <- r6, waived <- r7,
  stop <- r8, stopped <- r9, exit <- r10

VerdictStep ==
  \/ \E s \in {1, 2} :
       \/ Verdict!Begin(s) \/ Verdict!TimesOut(s) \/ Verdict!Judge(s)
  \/ \E s \in {1, 2}, rc \in {Verdict!Missing, Verdict!NoContainer, Verdict!Timeout} :
       Verdict!Unlaunched(s, rc)
  \/ \E s \in {1, 2}, t \in {1, 2}, result \in {"failed", "torn"} : Verdict!TestFails(s, t, result)
  \/ \E s \in {1, 2}, what \in {"crash", "overflow"} : Verdict!Prints(s, what)
  \/ \E s \in {1, 2}, rc \in {0, 1, 5, Verdict!Segfault} : Verdict!Exits(s, rc)
  \/ Verdict!StopAsked \/ Verdict!Finish

(* People who change one pool.                                                 *)
Provider == INSTANCE PoolProvider WITH
  Keys <- PoolKeys, Prefixed <- OwnPrefix, MaxItems <- MaxPool, MaxSteps <- MaxPlanned,
  Names <- AskedKeys, HeldAtFirst <- HeldFirst, Items <- PoolFirst, Operators <- People,
  MaxChanges <- MaxPoolChanges, items <- r1, exists <- r2, held <- r3, at <- r4, pool <- r5,
  listed <- r6, verb <- r7, steps <- r8, unlogged <- r9, moved <- r10, crowded <- r11,
  changes <- r12

ProviderStep ==
  \/ \E k \in PoolKeys :
       \/ Provider!AddItem(k) \/ Provider!DropItem(k) \/ Provider!Take(k)
       \/ Provider!GiveBack(k)
  \/ \E o \in People :
       \/ Provider!ReadConfig(o) \/ Provider!List(o) \/ Provider!GiveUp(o)
       \/ Provider!PlanSweep(o) \/ Provider!Confirm(o) \/ Provider!LogStep(o)
       \/ Provider!LogFails(o)
  \/ \E o \in People, names \in AskedKeys :
       \/ Provider!PlanAdd(o, names) \/ Provider!PlanRemove(o, names)
  \/ \E o \in People, n \in 1 .. MaxPlanned : Provider!PlanCount(o, n)
  \/ \E o \in People, works \in BOOLEAN : Provider!RunStep(o, works)

(* Every two files of one suite and two attempts, with a rule for one of two   *)
(* tests; and uploads of up to three files, some named like a numbered one.    *)
Suite(status) == [cases |-> <<[test |-> 1, status |-> status]>>, claims |-> FALSE]
File(suites) == [readable |-> TRUE, suites |-> suites]
Sent ==
  UNION {[1 .. n -> [name : {<<>>, <<2>>},
                     content : {File(<<Suite("passed")>>), File(<<Suite("failed"), Suite("passed")>>)}]]
           : n \in 1 .. 3}
Import == INSTANCE ResultImport WITH
  Tests <- {1, 2}, MaxCases <- 2, MaxFiles <- 2, Rules <- {2}, Uploads <- Sent, at <- r1, reports <- r2,
  files <- r3, next <- r4, results <- r5, failed <- r6, unreadable <- r7, code <- r8,
  recorded <- r9

ImportStep ==
  \/ Import!Upload \/ Import!Read \/ Import!Skip \/ Import!Judge \/ Import!Record

(* One test that two ways of recording name differently; runs of two branches, *)
(* a pull request, another environment, and some that recorded neither.        *)
Where == {<<"main", "none", "none">>, <<"main", "none", "firefox">>, <<"pr", "main", "none">>,
          <<"pr", "main", "firefox">>, <<"other", "main", "none">>, <<"none", "none", "none">>}
RecordedAs ==
  {<<"absent", "absent">>, <<"passed", "absent">>, <<"failed", "absent">>, <<"absent", "failed">>,
   <<"absent", "passed">>}
\* A run may be red for another stage.
Green == {<<"absent", "absent">>, <<"absent", "passed">>}
RunShapes ==
  {[branch |-> w[1], base |-> w[2], environment |-> w[3], cases |-> c, red |-> c \notin Green] :
     w \in Where, c \in RecordedAs}
OneTest == <<1, 1>>
Compare == INSTANCE RunCompare WITH
  Keys <- {1, 2}, Identity <- OneTest, Shapes <- RunShapes, Window <- 2, MaxRuns <- 3,
  recorded <- r1

CompareStep ==
  \/ \E shape \in RunShapes : Compare!Record(shape)

(* Two stages of two and one tests.                                            *)
TestsOfStages == <<{1, 2}, {3}>>
Launch == INSTANCE LaunchReport WITH
  Stages <- TestsOfStages, failed <- r1, next <- r2, at <- r3, launch <- r4, open <- r5,
  ended <- r6, lost <- r7

LaunchStep ==
  \/ Launch!Answered \/ Launch!AnswerLost \/ Launch!Refused \/ Launch!Interrupt
  \/ \E served \in BOOLEAN : Launch!Close(served)

-----------------------------------------------------------------------------
PartsInit ==
  /\ part \in Parts
  /\ \/ /\ part = "shared" /\ Shared!Init /\ Blank(19)
     \/ /\ part = "frozen" /\ Frozen!Init /\ Blank(15)
     \/ /\ part = "trigger" /\ Trigger!Init /\ Blank(13)
     \/ /\ part = "flaky" /\ Flaky!Init /\ Blank(1)
     \/ /\ part = "quarantine" /\ Stored!Init /\ Blank(7)
     \/ /\ part = "issues" /\ Issues!Init /\ Blank(14)
     \/ /\ part = "action" /\ Action!Init /\ Blank(12)
     \/ /\ part = "accounts" /\ Users!Init /\ Blank(9)
     \/ /\ part = "throttle" /\ Throttle!Init /\ Blank(4)
     \/ /\ part = "backup" /\ Copy!Init /\ Blank(12)
     \/ /\ part = "selection" /\ Select!Init /\ Blank(8)
     \/ /\ part = "watch" /\ Watcher!Init /\ Blank(6)
     \/ /\ part = "output" /\ Output!Init /\ Blank(14)
     \/ /\ part = "upgrade" /\ Upgrade!Init /\ Blank(11)
     \/ /\ part = "page" /\ Page!Init /\ Blank(13)
     \/ /\ part = "wrapper" /\ Wrapper!Init /\ Blank(8)
     \/ /\ part = "scan" /\ Scanner!Init /\ Blank(4)
     \/ /\ part = "verdict" /\ Verdict!Init /\ Blank(10)
     \/ /\ part = "provider" /\ Provider!Init /\ Blank(12)
     \/ /\ part = "import" /\ Import!Init /\ Blank(9)
     \/ /\ part = "compare" /\ Compare!Init /\ Blank(1)
     \/ /\ part = "launch" /\ Launch!Init /\ Blank(7)

PartsNext ==
  \/ In("shared", 19, SharedStep)
  \/ In("frozen", 15, FrozenStep)
  \/ In("trigger", 13, TriggerStep)
  \/ In("flaky", 1, FlakyStep)
  \/ In("quarantine", 7, StoredStep)
  \/ In("issues", 14, IssuesStep)
  \/ In("action", 12, ActionStep)
  \/ In("accounts", 9, UsersStep)
  \/ In("throttle", 4, ThrottleStep)
  \/ In("backup", 12, CopyStep)
  \/ In("selection", 8, SelectStep)
  \/ In("watch", 6, WatcherStep)
  \/ In("output", 14, OutputStep)
  \/ In("upgrade", 11, UpgradeStep)
  \/ In("page", 13, PageStep)
  \/ In("wrapper", 8, WrapperStep)
  \/ In("scan", 4, ScannerStep)
  \/ In("verdict", 10, VerdictStep)
  \/ In("provider", 12, ProviderStep)
  \/ In("import", 9, ImportStep)
  \/ In("compare", 1, CompareStep)
  \/ In("launch", 7, LaunchStep)

PartsSpec == PartsInit /\ [][PartsNext]_regs

-----------------------------------------------------------------------------
(* The types of the parts.                                                     *)
PartsTypesOK ==
  /\ part = "action" => Action!TypeOK
  /\ part = "accounts" => Users!TypeOK
  /\ part = "throttle" => Throttle!TypeOK
  /\ part = "backup" => Copy!TypeOK
  /\ part = "selection" => Select!TypeOK
  /\ part = "watch" => Watcher!TypeOK
  /\ part = "output" => Output!TypeOK
  /\ part = "upgrade" => Upgrade!TypeOK
  /\ part = "page" => Page!TypeOK
  /\ part = "wrapper" => Wrapper!TypeOK
  /\ part = "verdict" => Verdict!TypeOK
  /\ part = "provider" => Provider!TypeOK
  /\ part = "import" => Import!TypeOK
  /\ part = "compare" => Compare!TypeOK
  /\ part = "launch" => Launch!TypeOK

(* Executions: no run starts twice, though two servers find its row, and       *)
(* though either dies and starts again.                                        *)
StartsOnce == part = "shared" => Shared!StartsOnce

(* LeaseClient and LeaseRun: a lease that has expired is never made valid      *)
(* again, not by a client that freezes between its calls for longer than the   *)
(* lease lasts; and the key of `lease run` is given back only when its command *)
(* is over, but for a second Ctrl-C or one in the moment of its start.         *)
(* PoolProvider: no key is destroyed that was held or in the pool when the     *)
(* command looked, max_items is kept, every command is in the log.             *)
KeysSafe ==
  /\ [][part = "frozen" => Frozen!NeverRevived]_regs
  /\ [](part = "wrapper" => Wrapper!KeyOutlivesCommand)
  /\ [][part = "provider" => Provider!DestroysOnlyLeft /\ Provider!MaxItemsKept]_regs
  /\ [](part = "provider" => Provider!AllLogged)

(* FlakyPolicy: a plain regression is not flaky, a test that only fails is     *)
(* broken and not flaky, and a run makes a test flaky only by what it did on   *)
(* its own branch, environment or commit.                                      *)
FlakyFair ==
  /\ [](part = "flaky" => Flaky!RegressionIsNotFlaky)
  /\ [](part = "flaky" => Flaky!BrokenIsNotFlaky)
  /\ [][part = "flaky" => Flaky!BlamedLocally]_regs

(* Quarantine: a test is released for clean runs only, and a released one      *)
(* comes back by itself only for a failure after its release.                  *)
QuarantineHonest ==
  [][part = "quarantine" => Stored!EarnedRelease /\ Stored!FailedSince]_regs

(* FlakyIssues and ActionJob: a flaky test never has more open issues than     *)
(* passes were under way at once; one without has met an error, the limit or   *)
(* an old list. Two comments for a cycle, or two issues of the action for a    *)
(* test, come of two jobs at work on them at the same time, and only such a    *)
(* job takes a comment back to an older run where the history is shared. Who   *)
(* writes a comment had a run that finished; it is about a recorded run of the *)
(* cycle, or the last one before. Comments of people stay. LaunchReport: an    *)
(* upload closes its launch, which reads "passed" only with all of a passed    *)
(* run.                                                                        *)
PublishedOnce ==
  /\ [](part = "issues" => Issues!OneOpenIssue /\ Issues!FlakyHasIssue)
  /\ [](part = "action" => Action!OneCommentPerCycle /\ Action!AboutItsRun)
  /\ [][part = "action" => Action!CommentGoesForward]_regs
  /\ [](part = "launch" => Launch!LaunchCloses /\ Launch!PassedIsWhole)

(* Accounts and LoginThrottle: every change of an account signs its user out   *)
(* and nothing else does; failures in a window stay near the limit, and        *)
(* Retry-After is neither too short nor too long.                              *)
SignInsSafe ==
  /\ [](part = "accounts" => Users!ChangeSignsOut)
  /\ [][part = "accounts" => Users!OnlyChangeSignsOut]_regs
  /\ [](part = "throttle" => Throttle!AtMostLimit /\ Throttle!RetryTells /\ Throttle!DropsOldest)

(* Backup: what was settled when the backup was taken comes back whole, and a  *)
(* restore never mixes two histories.                                          *)
BackupComesBack == part = "backup" => Copy!SettledComesBack /\ Copy!NeverMixes

(* CycleTrigger: what is skipped by snapshot is as a run that passed began     *)
(* with it, but for what changed under that run; what is skipped by Git is     *)
(* committed, or is at HEAD what it is at since_ref, whether it was ever       *)
(* tested or not. Watch: every watched change has a run after it.              *)
ChangesGetRun ==
  /\ [][part = "trigger" => Trigger!SkipsTested]_regs
  /\ [](part = "watch" => Watcher!NoChangeLost)

(* TestSelection: shards that read the same run each picked test once, every   *)
(* change is tested, shards are balanced, and workers agree.                   *)
ShardsAddUp ==
  part = "selection" =>
    /\ Select!EachOnce /\ Select!ChangesTested /\ Select!Balanced
    /\ Select!WorkersAgree /\ Select!FailuresFirst

(* What a run did is told as it was. RunOutput: the log has no gap, the result *)
(* of a stage knows all its output, a closed log is not written to. CrashScan: *)
(* however the output is cut, the same crash is found. StageVerdict: a run is  *)
(* green only if nothing but quarantined tests failed, its crash and its exit  *)
(* code say the worst that happened. RunPage: the page shows the end of the    *)
(* run it names. ResultImport: reports that say something failed make the      *)
(* stage red, and the failure is in the history. RunCompare: a run is compared *)
(* with its own branch or target, alike on the page, in comments and alerts.   *)
OutcomeTold ==
  /\ [](part = "output" => Output!LogInOrder /\ Output!ResultKnowsAll)
  /\ [][part = "output" => Output!ClosedStays]_regs
  /\ [](part = "scan" => Scanner!CutNoMatter /\ Scanner!CarryFits)
  /\ [](part = "verdict" => Verdict!GreenIsGreen /\ Verdict!CrashIsTold /\ Verdict!ExitSaysWorst)
  /\ [](part = "page" => Page!TellsItsRun)
  /\ [](part = "import" => Import!GreenMeansPassed /\ Import!RedIsShown /\ Import!EveryFileRead)
  /\ [](part = "compare" =>
         Compare!ForeignNeverCompared /\ Compare!PageAgrees /\ Compare!SilentMeansSame)

(* SchemaUpgrade: a database at a revision has all of it, however upgrades     *)
(* race and die, and it only goes forward.                                     *)
UpgradesWhole ==
  /\ [](part = "upgrade" => Upgrade!StampedIsWhole)
  /\ [][part = "upgrade" => Upgrade!ForwardOnly]_regs

(* SchemaUpgrade: "Parallel workers lease keys at the same moment; the loser   *)
(* must not crash" (test_migrations.py).                                       *)
LoserGoesOn == part = "upgrade" => Upgrade!LoserGoesOn

(* RunPage: "Rather than assume failure, poll the execution's own status       *)
(* endpoint for the real outcome" (useCycleExecution.ts).                      *)
RealOutcome == part = "page" => Page!PassedIsPassed

(* CycleTrigger: "skip unless these paths changed" (README.md).                *)
NothingChanged == [][part = "trigger" => Trigger!SkipsUnchanged]_regs

(* ActionJob: "``qasight report markdown`` for the run that just finished"     *)
(* (run_testo_action.py), and one comment per cycle on the pull request        *)
(* (action.yml).                                                               *)
CommentIsOfThisRun == part = "action" => Action!AboutThisRun
CommentIsAlone == part = "action" => Action!OneComment

(* FlakyIssues: "never a duplicate" (CI-CD Pipeline Setup.md), and "the rest   *)
(* are listed and wait for the next" (flaky_issues.py).                        *)
IssueIsAlone == part = "issues" => Issues!NeverADuplicate
RestIsNext == [][part = "issues" => Issues!TakesLeft]_regs

(* StageVerdict: "Anything else keeps failing the stage: an unquarantined      *)
(* failure" (quarantine.py).                                                   *)
OthersKeepFailing == part = "verdict" => Verdict!WaivesOnlyQuarantined

(* Accounts: "every change signs the user out" (accounts.py).                  *)
ChangesSignOut == part = "accounts" => Users!EveryChangeSignsOut

(* Quarantine: a test leaves when it "passed on the first try in each of its   *)
(* last" runs (Quarantine From the UI).                                        *)
LeavesClean == [][part = "quarantine" => Stored!LastRunsClean]_regs

(* SchemaUpgrade: "Bring the database to the newest revision" (upgrade_to_head *)
(* of migrations/__init__.py).                                                 *)
NewestIsBuilt == part = "upgrade" => Upgrade!NewestIsThere
=============================================================================
