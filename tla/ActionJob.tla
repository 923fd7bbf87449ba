------------------------------ MODULE ActionJob ------------------------------
(* The GitHub action of QASight (integrations/github-action): jobs on the same *)
(* pull request run a cycle each, then edit or post the cycle's comment and    *)
(* open an issue per newly flaky test. What GitHub holds is read page by page  *)
(* and written call by call; a call may fail, and a new push may cancel a job  *)
(* at any point. Annotations, alerts and the upload to a server are left out:  *)
(* each is one call after which the job goes on as before.                     *)
EXTENDS Integers, SequencesExt

CONSTANTS
  Jobs,         \* numbers, one per workflow run, in the order in which their cycles started
  CycleOf,      \* per job, the cycle it runs
  Tests,        \* that a run may make flaky
  Posted,       \* the comments already there, by people: [cycle |-> None, of, by, from]
  PageSize, MaxPages,
  None          \* no cycle, and no run

VARIABLES
  shared,       \* one DATABASE_URL for all jobs; else each has a history from the cache
  at,           \* per job, where main() is
  finished,     \* jobs whose run said plan_finished
  stored,       \* jobs whose run is in the history
  body,         \* the run its rendered summary is about
  page, target, \* the page to read; the comment to edit
  flaky,        \* tests to open an issue for
  titles,       \* titles it read, and wrote
  comments,     \* of the pull request, each with who posted it
  issues,       \* the open ones: title, and who opened it
  overlapped    \* which two jobs were at the same thing at the same time (history)

vars == <<shared, at, finished, stored, body, page, target, flaky, titles, comments, issues,
          overlapped>>

Earlier == 0    \* the latest run that was in the history before all of these
Commenting == {"list", "patch", "post"}
Opening == {"titles", "open"}

Init ==
  /\ shared \in BOOLEAN
  /\ at = [j \in Jobs |-> "run"] /\ finished = {} /\ stored = {}
  /\ body = [j \in Jobs |-> None] /\ page = [j \in Jobs |-> 0] /\ target = [j \in Jobs |-> 0]
  /\ flaky = [j \in Jobs |-> {}] /\ titles = [j \in Jobs |-> {}]
  /\ comments = Posted /\ issues = <<>> /\ overlapped = {}

Goto(j, place) == at' = [at EXCEPT ![j] = place]

\* Job j comes to where another of its cycle is at work.
Meets(j, work, places) ==
  overlapped' = overlapped \cup
    {<<work, {j, k}>> : k \in {o \in Jobs \ {j} : CycleOf[o] = CycleOf[j] /\ at[o] \in places}}

\* What the history that job j reads has as the cycle's latest run: the last that started.
Recorded(j) == {k \in stored : CycleOf[k] = CycleOf[j] /\ (shared \/ k = j)}
Latest(j) == IF Recorded(j) = {} THEN Earlier ELSE Max(Recorded(j))

-----------------------------------------------------------------------------
\* The run says plan_finished, then it is stored. It may end before either, or fail
\* to be stored, which it keeps to itself; an error told after it hides plan_finished.
RunEnds(j) ==
  /\ at[j] = "run"
  /\ finished' \in {finished, finished \cup {j}}
  /\ stored' \in {stored, stored \cup {j}}
  /\ UNCHANGED <<shared, body, page, target, flaky, titles, comments, issues, overlapped>>

\* Mistake: the summary is published whatever came of the run.
RunAndPublish(j) == RunEnds(j) /\ Goto(j, "render")

\* Without a plan_finished event nothing is published.
Run(j) == RunEnds(j) /\ Goto(j, IF j \in finished' THEN "render" ELSE "end")

\* qasight report markdown; a failure, or no history, leaves the comment out.
Render(j) ==
  /\ at[j] = "render"
  /\ \/ /\ Goto(j, "list") /\ body' = [body EXCEPT ![j] = Latest(j)]
        /\ page' = [page EXCEPT ![j] = 1] /\ Meets(j, "comment", Commenting)
     \/ Goto(j, "flaky") /\ UNCHANGED <<body, page, overlapped>>
  /\ UNCHANGED <<shared, finished, stored, target, flaky, titles, comments, issues>>

\* upsert_pr_comment reads the comments, oldest first.
OnPage(n) == {i \in DOMAIN comments : i > (n - 1) * PageSize /\ i <= n * PageSize}

ListComments(j) ==
  LET found == {i \in OnPage(page[j]) : comments[i].cycle = CycleOf[j]}
      full == page[j] * PageSize <= Len(comments) IN
  /\ at[j] = "list"
  /\ IF found # {}
     THEN /\ Goto(j, "patch") /\ UNCHANGED page
          /\ target' = [target EXCEPT ![j] = CHOOSE i \in found : \A o \in found : i <= o]
     ELSE /\ IF full /\ page[j] < MaxPages
             THEN page' = [page EXCEPT ![j] = @ + 1] /\ UNCHANGED at
             ELSE Goto(j, "post") /\ UNCHANGED page
          /\ UNCHANGED target
  /\ UNCHANGED <<shared, finished, stored, body, flaky, titles, comments, issues, overlapped>>

\* What upsert_pr_comment() knew is forgotten.
Commented(j) ==
  /\ Goto(j, "flaky")
  /\ body' = [body EXCEPT ![j] = None] /\ page' = [page EXCEPT ![j] = 0]
  /\ target' = [target EXCEPT ![j] = 0]
  /\ UNCHANGED <<shared, finished, stored, flaky, titles, issues, overlapped>>

Comment(j, from) == [cycle |-> CycleOf[j], of |-> body[j], by |-> j, from |-> from]

\* Mistake: a new comment each time.
PatchAnew(j) ==
  /\ at[j] = "patch" /\ Commented(j)
  /\ comments' = Append(comments, Comment(j, j))

Patch(j) ==
  /\ at[j] = "patch" /\ Commented(j)
  /\ comments' = [comments EXCEPT ![target[j]] = Comment(j, @.from)]

Post(j) ==
  /\ at[j] = "post" /\ Commented(j)
  /\ comments' = Append(comments, Comment(j, j))

\* A call to GitHub fails: a warning, and the job goes on.
CommentFails(j) == at[j] \in Commenting /\ Commented(j) /\ UNCHANGED comments

-----------------------------------------------------------------------------
\* qasight flaky --new: the tests this job's run made flaky.
NewlyFlaky(j) ==
  /\ at[j] = "flaky"
  /\ \E tests \in SUBSET Tests :
       /\ flaky' = [flaky EXCEPT ![j] = {<<t, CycleOf[j]>> : t \in tests}]
       /\ IF tests = {} THEN Goto(j, "end") /\ UNCHANGED overlapped
          ELSE Goto(j, "titles") /\ Meets(j, "issue", Opening)
  /\ UNCHANGED <<shared, finished, stored, body, page, target, titles, comments, issues>>

ReadTitles(j) ==
  /\ at[j] = "titles" /\ Goto(j, "open")
  /\ titles' = [titles EXCEPT ![j] = {issues[i].title : i \in DOMAIN issues}]
  /\ UNCHANGED <<shared, finished, stored, body, page, target, flaky, comments, issues, overlapped>>

OpenIssue(j, title) ==
  /\ at[j] = "open" /\ title \in flaky[j]
  /\ flaky' = [flaky EXCEPT ![j] = @ \ {title}]
  /\ IF title \in titles[j] THEN UNCHANGED <<titles, issues>>
     ELSE /\ issues' = Append(issues, [title |-> title, from |-> j])
          /\ titles' = [titles EXCEPT ![j] = @ \cup {title}]
  /\ UNCHANGED <<shared, at, finished, stored, body, page, target, comments, overlapped>>

Ended(j) ==
  /\ Goto(j, "end")
  /\ flaky' = [flaky EXCEPT ![j] = {}] /\ titles' = [titles EXCEPT ![j] = {}]
  /\ UNCHANGED <<shared, finished, stored, comments, issues, overlapped>>

IssuesEnd(j) ==
  /\ \/ at[j] = "open" /\ flaky[j] = {}
     \/ at[j] \in {"titles", "open"} /\ flaky[j] # {}     \* a call fails
  /\ Ended(j)
  /\ UNCHANGED <<body, page, target>>

\* A new push cancels the workflow run.
Cancelled(j) ==
  /\ at[j] # "end" /\ Ended(j)
  /\ body' = [body EXCEPT ![j] = None] /\ page' = [page EXCEPT ![j] = 0]
  /\ target' = [target EXCEPT ![j] = 0]

Next ==
  \E j \in Jobs :
    \/ Run(j) \/ Render(j) \/ ListComments(j) \/ Patch(j) \/ Post(j) \/ CommentFails(j)
    \/ NewlyFlaky(j) \/ ReadTitles(j) \/ (\E t \in Tests : OpenIssue(j, <<t, CycleOf[j]>>))
    \/ IssuesEnd(j) \/ Cancelled(j)

Spec == Init /\ [][Next]_vars

-----------------------------------------------------------------------------
TypeOK ==
  /\ shared \in BOOLEAN /\ finished \subseteq Jobs /\ stored \subseteq Jobs
  /\ \A j \in Jobs :
       /\ at[j] \in Commenting \cup Opening \cup {"run", "render", "flaky", "end"}
       /\ at[j] = "patch" => target[j] \in DOMAIN comments
       /\ page[j] \in 0 .. MaxPages
  /\ \A i \in DOMAIN comments : {comments[i].by, comments[i].from} \subseteq Jobs \cup {None}

Of(c) == {i \in DOMAIN comments : comments[i].cycle = c}

(* Of two comments of a cycle either the older is past the pages that are      *)
(* read, or the jobs that posted them were at their comments at the same time, *)
(* before either could see the other's; of two issues for one test, the jobs   *)
(* were opening issues at the same time. However many jobs there were, and     *)
(* wherever they were cut off, there is no third way (lines 280-289, 500-515). *)
OneCommentPerCycle ==
  /\ \A c \in ToSet(CycleOf) : \A m, n \in Of(c) :
       m < n => \/ m > MaxPages * PageSize
                \/ <<"comment", {comments[m].from, comments[n].from}>> \in overlapped
  /\ \A m, n \in DOMAIN issues :
       issues[m].title = issues[n].title /\ m < n =>
         <<"issue", {issues[m].from, issues[n].from}>> \in overlapped

(* What a job writes a comment about: its run said that it finished; it is a   *)
(* recorded run of the cycle, no older than the job's own if that is recorded, *)
(* or the one before all, and with a history of its own none but its own.      *)
AboutItsRun ==
  \A i \in DOMAIN comments :
    LET of == comments[i].of
        by == comments[i].by IN
    by # None =>
      /\ by \in finished
      /\ by \in stored => of >= by
      /\ of # Earlier => of \in stored /\ CycleOf[of] = CycleOf[by] /\ (shared \/ of = by)

(* With a shared history a comment goes back to an older run only by a job     *)
(* that was at its comment while the one before it was; nobody touches the     *)
(* comment of a person, or of another cycle.                                   *)
CommentGoesForward ==
  \A i \in DOMAIN comments :
    /\ comments'[i].cycle = comments[i].cycle
    /\ comments[i].by = None => comments'[i] = comments[i]
    /\ comments[i].by # None /\ shared /\ comments'[i].of < comments[i].of =>
         <<"comment", {comments[i].by, comments'[i].by}>> \in overlapped

(* "keep one comment per cycle on the pull request" (action.yml).              *)
OneComment == \A c \in ToSet(CycleOf) : \A m, n \in Of(c) : m <= MaxPages * PageSize => m >= n

(* "qasight report markdown for the run that just finished" (render_markdown). *)
AboutThisRun == \A i \in DOMAIN comments : comments[i].by # None => comments[i].of = comments[i].by
=============================================================================
