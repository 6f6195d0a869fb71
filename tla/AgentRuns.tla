----------------------------- MODULE AgentRuns -----------------------------
(***************************************************************************)
(* The AI-agent run engine of one conversation (backend/app/agents): the   *)
(* database rows, the queue of "execute_agent_run" deliveries, and the     *)
(* transactions that race on them.                                         *)
(*                                                                         *)
(* A transaction reads committed rows into its own objects (READ           *)
(* COMMITTED, identity map), flushes UPDATEs that take row locks until     *)
(* commit, and writes only the columns it changed: what it read may be     *)
(* stale by the time it writes.  Variables `run`, `approval` and `conv`    *)
(* are the committed rows; what a transaction has flushed but not          *)
(* committed lives in its own record.                                      *)
(*                                                                         *)
(* Run m is the run triggered by the visitor's message m; messages are     *)
(* numbered in the order in which they get hold of the conversation row.   *)
(***************************************************************************)
EXTENDS Naturals, FiniteSets

CONSTANTS
    Workers,      \* the processes that execute runs, one after another each
    Callers,      \* concurrent requests and jobs: decide, submit, sweep, ...
    NumMsgs,      \* bound: messages the visitor sends
    MaxOps,       \* bound: approvals and page operations one run asks for
    MaxCalls,     \* guardrails.max_tool_calls of the agent
    MaxAttempts,  \* core/queue.py MAX_ATTEMPTS
    MaxFaults,    \* bound: retryable provider errors and crashes
    HandStatuses, \* bound: statuses people give the conversation by hand
    None          \* no transaction, no status to write

ASSUME CountsAssumption ==
    /\ NumMsgs \in Nat \ {0} /\ MaxOps \in Nat /\ MaxCalls \in Nat \ {0}
    /\ MaxAttempts \in Nat \ {0} /\ MaxFaults \in Nat

Msgs == 1..NumMsgs
Runs == Msgs
Ops  == 1..MaxOps
Txns == Workers \cup Callers \cup Msgs

ConvStatuses == {"open", "pending", "snoozed", "resolved"}

ASSUME TxnsAssumption ==
    /\ Workers \cap Callers = {} /\ (Workers \cup Callers) \cap Msgs = {}
    /\ None \notin Txns /\ None \notin ConvStatuses
    /\ HandStatuses \subseteq ConvStatuses

Terminal     == {"completed", "failed", "handed_off", "canceled"}
Active       == {"queued", "awaiting_approval", "awaiting_client"}
RunStatuses  == {"none"} \cup Active \cup Terminal
Verdicts     == {"approved", "rejected"}  \* an expired request counts as rejected
Approvals    == {"none", "pending"} \cup Verdicts

\* AgentRun.pending_tool_call: the deferred call, its operation id, and the
\* "result" key the page, the telemetry or the sweep writes into it.
Calls  == [kind : {"none", "gate", "page"}, op : 0..MaxOps,
           res : {"none", "answer", "timeout"}]
NoCall == [kind |-> "none", op |-> 0, res |-> "none"]

\* One agent_runs row, with what its append-only trace counts: the last
\* operation asked for, the "tool_call" steps, the replies posted (up to 2).
Rows   == [st : RunStatuses, pend : Calls, ops : 0..MaxOps,
           calls : Nat, replies : 0..2]
NoRow  == [st |-> "none", pend |-> NoCall, ops |-> 0, calls |-> 0, replies |-> 0]
NewRow == [NoRow EXCEPT !.st = "queued"]

VARIABLES
    conv,      \* committed Conversation.status
    run,       \* committed agent_runs rows
    approval,  \* committed ApprovalRequest.status, by run and operation
    jobs,      \* deliveries waiting: <<run, attempt>>
    lockRun,   \* row locks on agent_runs
    lockConv,  \* row lock on the conversation
    work,      \* the executing transaction of each worker
    post,      \* the transaction that posts each visitor message
    call,      \* the transaction of each other request
    effect,    \* history: times an approved tool really ran (up to 2)
    faults     \* retryable errors and crashes so far

rows  == <<conv, run, approval>>
locks == <<lockRun, lockConv>>
txns  == <<work, post, call>>
vars  == <<rows, jobs, locks, txns, effect, faults>>

IdleWork == [pc |-> "idle", r |-> 1, att |-> 1, conv |-> "open", was |-> NoCall,
             st |-> "none", pend |-> NoCall, op |-> 0, used |-> 0,
             ran |-> 0, said |-> 0, cset |-> None]
IdlePost == [pc |-> "idle", conv |-> "open", cset |-> None,
             merged |-> {}, follow |-> FALSE]
IdleCall == [pc |-> "idle", kind |-> "none", r |-> 1, op |-> 0,
             was |-> NoCall, val |-> "none"]

Init ==
    /\ conv \in {"pending", "resolved"}
    /\ run = [r \in Runs |-> NoRow]
    /\ approval = [r \in Runs |-> [o \in Ops |-> "none"]]
    /\ jobs = {}
    /\ lockRun = [r \in Runs |-> None]
    /\ lockConv = None
    /\ work = [w \in Workers |-> IdleWork]
    /\ post = [m \in Msgs |-> IdlePost]
    /\ call = [c \in Callers |-> IdleCall]
    /\ effect = [r \in Runs |-> [o \in Ops |-> 0]]
    /\ faults = 0

UpTo2(n) == IF n > 2 THEN 2 ELSE n

\* A transaction's end, either way, gives its row locks back.
Release(t) ==
    /\ lockRun' = [r \in Runs |-> IF lockRun[r] = t THEN None ELSE lockRun[r]]
    /\ lockConv' = IF lockConv = t THEN None ELSE lockConv

\* The queue holds at most one delivery per run and attempt.  A failed
\* attempt comes back with the next number; the last is logged and dropped.
Enqueue(r) == jobs \cup {<<r, 1>>}
\* Mutant: off by one, the last attempt comes back too.
RetryOnceMore(r, att) == IF att <= MaxAttempts THEN jobs \cup {<<r, att + 1>>} ELSE jobs
Retry(r, att) == IF att < MaxAttempts THEN jobs \cup {<<r, att + 1>>} ELSE jobs

(***************************************************************************)
(* Worker: one delivery is one transaction (tasks.py, engine.execute_run). *)
(***************************************************************************)
\* Mutant: only a queued run holds a later one back.
EarlierQueued(r) == \E e \in Runs : e < r /\ run[e].st = "queued"

EarlierActive(r) == \E e \in Runs : e < r /\ run[e].st \in Active

\* Nothing to do: a row not visible yet fails the attempt, a follow-up
\* leaves its turn to an earlier run, a finished run is skipped.
PickupNothing(w) ==
    /\ work[w].pc = "idle"
    /\ \E j \in jobs :
         LET r == j[1] IN
         \/ run[r].st = "none" /\ jobs' = Retry(r, j[2]) \ {j}
         \/ /\ \/ run[r].st = "queued" /\ EarlierActive(r)
               \/ run[r].st \in Terminal
            /\ jobs' = jobs \ {j}
    /\ UNCHANGED <<rows, locks, txns, effect, faults>>

\* Mutant: no claim, whatever is delivered is executed.
PickupUnclaimed(w) ==
    /\ work[w].pc = "idle"
    /\ \E j \in jobs :
         /\ run[j[1]].st # "none"
         /\ jobs' = jobs \ {j}
         /\ work' = [work EXCEPT ![w] =
              [IdleWork EXCEPT !.pc = "claim", !.r = j[1], !.att = j[2], !.conv = conv,
                 !.was = run[j[1]].pend, !.pend = run[j[1]].pend, !.st = "running",
                 !.used = run[j[1]].calls]]
    /\ UNCHANGED <<rows, locks, post, call, effect, faults>>

\* The run is this worker's to execute, or to cancel when its conversation
\* left the AI queue while it waited.
PickupRun(w) ==
    /\ work[w].pc = "idle"
    /\ \E j \in jobs :
         LET r == j[1]
             left == run[r].st = "queued" /\ conv # "pending"
         IN
         /\ run[r].st \in Active
         /\ ~(run[r].st = "queued" /\ EarlierActive(r))
         /\ jobs' = jobs \ {j}
         /\ work' = [work EXCEPT ![w] =
              [IdleWork EXCEPT !.pc = "claim", !.r = r, !.att = j[2],
                 !.conv = conv, !.was = run[r].pend, !.pend = run[r].pend,
                 !.st = IF left THEN "canceled" ELSE "running",
                 !.used = run[r].calls]]
    /\ UNCHANGED <<rows, locks, post, call, effect, faults>>

\* The claim, or the cancellation, is flushed: its UPDATE waits for the row.
Claim(w) ==
    LET k == work[w] IN
    /\ k.pc = "claim" /\ lockRun[k.r] = None
    /\ lockRun' = [lockRun EXCEPT ![k.r] = w]
    /\ work' = [work EXCEPT ![w].pc =
         IF k.st = "canceled" THEN "commit"
         ELSE IF k.pend.kind = "none" THEN "llm" ELSE "resume"]
    /\ UNCHANGED <<rows, jobs, lockConv, post, call, effect, faults>>

\* Mutant: the failed attempt leaves its transaction open.
LeaveOpen(w) ==
    /\ jobs' = Retry(work[w].r, work[w].att)
    /\ work' = [work EXCEPT ![w] = IdleWork]
    /\ UNCHANGED <<rows, locks, post, call, effect>>

\* Any exception rolls the transaction back and fails the attempt.
RollBack(w) ==
    /\ jobs' = Retry(work[w].r, work[w].att)
    /\ Release(w)
    /\ work' = [work EXCEPT ![w] = IdleWork]
    /\ UNCHANGED <<rows, post, call, effect>>

\* Mutant: a denial is read as a go-ahead.
AnyDecision(w) ==
    LET d == approval[work[w].r][work[w].pend.op] IN
    IF d = "rejected" THEN "approved" ELSE d

Decision(w) == approval[work[w].r][work[w].pend.op]

\* The answer or the decision the run was resumed for is not there yet.
ResumeNotReady(w) ==
    /\ work[w].pc = "resume"
    /\ \/ work[w].pend.kind = "page" /\ work[w].pend.res = "none"
       \/ work[w].pend.kind = "gate" /\ Decision(w) = "pending"
    /\ RollBack(w)
    /\ UNCHANGED faults

\* A page result, or a denial, becomes the tool result the model reads.
ResumeWithAnswer(w) ==
    /\ work[w].pc = "resume"
    /\ \/ work[w].pend.kind = "page" /\ work[w].pend.res # "none"
       \/ work[w].pend.kind = "gate" /\ Decision(w) \notin {"pending", "approved"}
    /\ work' = [work EXCEPT ![w].pc = "llm", ![w].pend = NoCall]
    /\ UNCHANGED <<rows, jobs, locks, post, call, effect, faults>>

\* What an execution may end with: a last status, the replies it adds, the
\* status it sets the conversation to (None: it leaves the status alone).
Ended(k, st, said, cset) ==
    [k EXCEPT !.pc = "lockconv", !.st = st, !.said = said, !.cset = cset]

\* A hand-off posts its note and opens the conversation; a close resolves
\* it, with or without a closing message.
ControlEndings(k) ==
    {Ended(k, "handed_off", 1, "open"),
     Ended(k, "completed", 0, "resolved"), Ended(k, "completed", 1, "resolved")}

\* A tool that leaves a note or a mark on the conversation updates its row
\* in mid-run, and keeps it until the run commits.
Continuations(k) == {k, [k EXCEPT !.pc = "lockconv"]} \cup ControlEndings(k)

\* An approved call runs now, and outside the database: a rollback that
\* follows does not take it back.
RunApproved(w) ==
    LET k == work[w]
        done == [k EXCEPT !.pc = "llm", !.pend = NoCall,
                          !.used = k.used + 1, !.ran = k.ran + 1]
    IN
    /\ k.pc = "resume" /\ k.pend.kind = "gate" /\ Decision(w) = "approved"
    /\ effect' = [effect EXCEPT ![k.r][k.pend.op] = UpTo2(@ + 1)]
    /\ \E n \in Continuations(done) : work' = [work EXCEPT ![w] = n]
    /\ UNCHANGED <<rows, jobs, locks, post, call, faults>>

\* One turn of the model.  What it calls counts towards the guardrail; what
\* is executed (or refused with a trace of it) stays in the trace.
ToolCall(w) ==
    LET k == work[w]
        done == [k EXCEPT !.used = k.used + 1, !.ran = k.ran + 1]
        disabled == [k EXCEPT !.used = k.used + 1]
    IN
    /\ k.pc = "llm" /\ k.used < MaxCalls
    /\ \E n \in {disabled} \cup Continuations(done) :
         work' = [work EXCEPT ![w] = n]
    /\ UNCHANGED <<rows, jobs, locks, post, call, effect, faults>>

FreshOp(r, o) ==
    o > run[r].ops /\ \A v \in Workers : work[v].r = r => o > work[v].op

\* The model asks for something only a person or the visitor's page can
\* give: the run parks, and commits, until the answer is in.
Pause(w, kind, st, pc) ==
    LET k == work[w] IN
    /\ k.pc = "llm" /\ k.used < MaxCalls
    /\ \E o \in Ops :
         /\ FreshOp(k.r, o) /\ \A p \in Ops : FreshOp(k.r, p) => o <= p
         /\ work' = [work EXCEPT ![w] =
              [k EXCEPT !.pc = pc, !.st = st, !.op = o,
                        !.pend = [kind |-> kind, op |-> o, res |-> "none"]]]
    /\ UNCHANGED <<rows, jobs, locks, post, call, effect, faults>>

PauseForApproval(w) == Pause(w, "gate", "awaiting_approval", "commit")

\* Starting a tour also links it to the conversation and announces it.
PauseForClient(w) == \E pc \in {"commit", "lockconv"} :
    Pause(w, "page", "awaiting_client", pc)

FinalReply(w) ==
    /\ work[w].pc = "llm"
    /\ work' = [work EXCEPT ![w] = Ended(work[w], "completed", 1, None)]
    /\ UNCHANGED <<rows, jobs, locks, post, call, effect, faults>>

\* An empty reply, or a call past the guardrail, hands the thread to people.
Fallback(w) ==
    /\ work[w].pc = "llm"
    /\ work' = [work EXCEPT ![w] = Ended(work[w], "handed_off", 0,
                  IF work[w].conv = "pending" THEN "open" ELSE None)]
    /\ UNCHANGED <<rows, jobs, locks, post, call, effect, faults>>

\* The follow-up a finished run kicks, from inside its own transaction.
Chained(r) ==
    LET waiting == {q \in Runs \ {r} : run[q].st = "queued"} IN
    jobs \cup {<<q, 1>> : q \in {s \in waiting : \A t \in waiting : s <= t}}

\* A provider error that is not worth a retry fails the run; a conversation
\* that a person already owns is left alone, and its row not touched.
ProviderFails(w) ==
    LET k == work[w] IN
    /\ k.pc = "llm"
    /\ IF k.conv = "pending"
       THEN /\ work' = [work EXCEPT ![w] = Ended(k, "failed", 0, "open")]
            /\ UNCHANGED jobs
       ELSE /\ work' = [work EXCEPT ![w] = [k EXCEPT !.pc = "commit", !.st = "failed"]]
            /\ jobs' = Chained(k.r)
    /\ UNCHANGED <<rows, locks, post, call, effect, faults>>

ProviderRetryable(w) ==
    /\ work[w].pc = "llm" /\ faults < MaxFaults
    /\ RollBack(w)
    /\ faults' = faults + 1

\* The reply, the notice or the status change updates the conversation row.
LockConversation(w) ==
    /\ work[w].pc = "lockconv" /\ lockConv \in {None, w}
    /\ lockConv' = w
    /\ work' = [work EXCEPT ![w].pc = IF work[w].st = "running" THEN "llm" ELSE "commit"]
    /\ jobs' = IF work[w].st \in Terminal THEN Chained(work[w].r) ELSE jobs
    /\ UNCHANGED <<rows, lockRun, post, call, effect, faults>>

\* Only the columns this transaction changed are written.
Commit(w) ==
    LET k == work[w] IN
    /\ k.pc = "commit"
    /\ run' = [run EXCEPT ![k.r] =
         [st      |-> k.st,
          pend    |-> IF k.pend # k.was THEN k.pend ELSE @.pend,
          ops     |-> IF k.op > @.ops THEN k.op ELSE @.ops,
          calls   |-> @.calls + k.ran,
          replies |-> UpTo2(@.replies + k.said)]]
    /\ approval' = IF k.st = "awaiting_approval"
                   THEN [approval EXCEPT ![k.r][k.op] = "pending"] ELSE approval
    /\ conv' = IF k.cset \notin {None, k.conv} THEN k.cset ELSE conv
    /\ Release(w)
    /\ work' = [work EXCEPT ![w] = IdleWork]
    /\ UNCHANGED <<jobs, post, call, effect, faults>>

\* The worker dies: its transaction is rolled back, its delivery is lost
\* with the process or handed out again by the broker.
Crash(w) ==
    /\ work[w].pc # "idle" /\ faults < MaxFaults
    /\ faults' = faults + 1
    /\ jobs' \in {jobs, Retry(work[w].r, work[w].att)}
    /\ Release(w)
    /\ work' = [work EXCEPT ![w] = IdleWork]
    /\ UNCHANGED <<rows, post, call, effect>>

(***************************************************************************)
(* A visitor message: conversations.add_message and, inside the same       *)
(* transaction, the engine's _on_message_created.                          *)
(***************************************************************************)
PostBegin(m) ==
    /\ post[m].pc = "idle"
    /\ \A k \in Msgs : k < m => post[k].pc # "idle"
    /\ post' = [post EXCEPT ![m].pc = "lockconv", ![m].conv = conv]
    /\ UNCHANGED <<rows, jobs, locks, work, call, effect, faults>>

\* A question on a resolved thread returns to its live agent; a snoozed
\* thread was a person's decision and returns to people.
Reopened(s) == CASE s = "resolved" -> "pending"
                 [] s = "snoozed"  -> "open"
                 [] OTHER          -> s

\* Mutant: the handler reads the active runs without the conversation row.
PostUnlocked(m) ==
    LET s == Reopened(post[m].conv) IN
    /\ post[m].pc = "lockconv" /\ lockConv = None
    /\ \A k \in Msgs : k < m => post[k].pc # "lockconv"
    /\ post' = [post EXCEPT ![m] =
         [pc |-> IF s = "pending" THEN "handle" ELSE "commit", conv |-> s,
          cset |-> IF s # post[m].conv THEN s ELSE None,
          merged |-> {r \in Runs : s = "pending" /\ run[r].st = "queued"},
          follow |-> \E r \in Runs : run[r].st \in Active \ {"queued"}]]
    /\ UNCHANGED <<rows, jobs, locks, work, call, effect, faults>>

\* The message and the trackers are flushed; on a thread the AI owns the
\* handler then reads the active runs: queued ones to merge, others to follow.
PostMessage(m) ==
    LET s == Reopened(post[m].conv) IN
    /\ post[m].pc = "lockconv" /\ lockConv = None
    /\ \A k \in Msgs : k < m => post[k].pc # "lockconv"
    /\ lockConv' = m
    /\ post' = [post EXCEPT ![m] =
         [pc |-> IF s = "pending" THEN "handle" ELSE "commit", conv |-> s,
          cset |-> IF s # post[m].conv THEN s ELSE None,
          merged |-> {r \in Runs : s = "pending" /\ run[r].st = "queued"},
          follow |-> \E r \in Runs : run[r].st \in Active \ {"queued"}]]
    /\ UNCHANGED <<rows, jobs, lockRun, work, call, effect, faults>>

\* Cancel-and-merge the queued runs, insert the new one, and enqueue it
\* unless an in-flight run is to chain it.
MergeAndQueue(m) ==
    /\ post[m].pc = "handle"
    /\ \A r \in post[m].merged : lockRun[r] = None
    /\ lockRun' = [r \in Runs |-> IF r \in post[m].merged THEN m ELSE lockRun[r]]
    /\ jobs' = IF post[m].follow THEN jobs ELSE Enqueue(m)
    /\ post' = [post EXCEPT ![m].pc = "commit"]
    /\ UNCHANGED <<rows, lockConv, work, call, effect, faults>>

CommitPost(m) ==
    LET p == post[m] IN
    /\ p.pc = "commit"
    /\ run' = [r \in Runs |->
         IF r = m /\ p.conv = "pending" THEN NewRow
         ELSE IF r \in p.merged THEN [run[r] EXCEPT !.st = "canceled"]
         ELSE run[r]]
    /\ conv' = IF p.cset # None THEN p.cset ELSE conv
    /\ Release(m)
    /\ post' = [post EXCEPT ![m] = [IdlePost EXCEPT !.pc = "done"]]
    /\ UNCHANGED <<approval, jobs, work, call, effect, faults>>

(***************************************************************************)
(* People, the visitor's page and the scheduled jobs.                      *)
(***************************************************************************)
\* A teammate takes the thread over, resolves it, snoozes it, gives it back.
SetStatus(s) ==
    /\ lockConv = None /\ conv # s
    /\ conv' = s
    /\ UNCHANGED <<run, approval, jobs, locks, txns, effect, faults>>

Begin(c, kind, r, op, val) ==
    /\ call[c].pc = "idle"
    /\ call' = [call EXCEPT ![c] = [pc |-> "write", kind |-> kind, r |-> r,
                                    op |-> op, was |-> run[r].pend, val |-> val]]
    /\ UNCHANGED <<rows, jobs, locks, work, post, effect, faults>>

\* decide_approval and expire_overdue: the request must still be pending.
Decide(c) == \E r \in Runs, o \in Ops, v \in Verdicts :
    approval[r][o] = "pending" /\ Begin(c, "decide", r, o, v)

ParkedOnPage(r) == run[r].st = "awaiting_client" /\ run[r].pend.kind = "page"

\* submit_client_result: the answer names the operation the run waits for.
SubmitResult(c) == \E r \in Runs :
    ParkedOnPage(r) /\ Begin(c, "answer", r, run[r].pend.op, "answer")

Unanswered(r) == ParkedOnPage(r) /\ run[r].pend.res = "none"

\* Mutant: the "result" check of the sweep is inverted.
SweepAnswered(c) == \E r \in Runs :
    /\ ParkedOnPage(r) /\ run[r].pend.res # "none"
    /\ Begin(c, "answer", r, run[r].pend.op, "timeout")

\* The timeout sweep, tour telemetry "started", and telemetry "completed" or
\* "dismissed": each only while no result is recorded.
Sweep(c) == \E r \in Runs :
    Unanswered(r) /\ Begin(c, "answer", r, run[r].pend.op, "timeout")
TourStarted(c) == \E r \in Runs :
    Unanswered(r) /\ Begin(c, "started", r, run[r].pend.op, "answer")
TourEnded(c) == \E r \in Runs :
    Unanswered(r) /\ Begin(c, "settle", r, run[r].pend.op, "none")

\* The write is flushed (waiting for its row) and the run enqueued, both
\* before the commit.
Write(c) ==
    LET k == call[c] IN
    /\ k.pc = "write"
    /\ IF k.kind = "decide"
       THEN /\ \A d \in Callers : ~(call[d].pc = "commit" /\ call[d].kind = "decide"
                                    /\ call[d].r = k.r /\ call[d].op = k.op)
            /\ UNCHANGED lockRun
       ELSE /\ lockRun[k.r] = None
            /\ lockRun' = [lockRun EXCEPT ![k.r] = c]
    /\ jobs' = IF k.kind = "settle" THEN Chained(k.r) ELSE Enqueue(k.r)
    /\ call' = [call EXCEPT ![c].pc = 
         IF k.kind \in {"started", "settle"} THEN "lockconv" ELSE "commit"]
    /\ UNCHANGED <<rows, lockConv, work, post, effect, faults>>

\* Tour telemetry is mirrored into the transcript: the conversation row.
MirrorTour(c) ==
    /\ call[c].pc = "lockconv" /\ lockConv = None
    /\ lockConv' = c
    /\ call' = [call EXCEPT ![c].pc = "commit"]
    /\ UNCHANGED <<rows, jobs, lockRun, work, post, effect, faults>>

\* An answer replaces the whole pending call it was read from.
CommitCall(c) ==
    LET k == call[c] IN
    /\ k.pc = "commit"
    /\ run' = CASE k.kind \in {"answer", "started"} ->
                     [run EXCEPT ![k.r].pend = [k.was EXCEPT !.res = k.val]]
                [] k.kind = "settle" ->
                     [run EXCEPT ![k.r].pend = NoCall, ![k.r].st = "completed"]
                [] OTHER -> run
    /\ approval' = IF k.kind = "decide"
                   THEN [approval EXCEPT ![k.r][k.op] = k.val] ELSE approval
    /\ Release(c)
    /\ call' = [call EXCEPT ![c] = IdleCall]
    /\ UNCHANGED <<conv, jobs, work, post, effect, faults>>

\* Mutant: only follow-ups are delivered again.
ReapFollowUp(r) ==
    /\ run[r].st = "queued" /\ <<r, 1>> \notin jobs /\ EarlierActive(r)
    /\ jobs' = Enqueue(r)
    /\ UNCHANGED <<rows, locks, txns, effect, faults>>

\* reap_stalled_runs: a committed "queued" row is delivered again, whether
\* its delivery was lost or its execution has not committed yet.
Reap(r) ==
    /\ run[r].st = "queued" /\ <<r, 1>> \notin jobs
    /\ jobs' = Enqueue(r)
    /\ UNCHANGED <<rows, locks, txns, effect, faults>>

(***************************************************************************)
(* The database: two transactions that wait for each other's rows are      *)
(* told apart by aborting one of them.                                     *)
(***************************************************************************)
WaitsForConv(t) == \/ t \in Workers /\ work[t].pc = "lockconv"
                   \/ t \in Callers /\ call[t].pc = "lockconv"

Deadlocked(t, m) ==
    /\ WaitsForConv(t) /\ lockConv = m /\ post[m].pc = "handle"
    /\ \E r \in post[m].merged : lockRun[r] = t

AbortPost(m) ==
    /\ Release(m)
    /\ post' = [post EXCEPT ![m] = [IdlePost EXCEPT !.pc = "failed"]]
    /\ UNCHANGED <<rows, jobs, work, call, effect, faults>>

AbortCall(c) ==
    /\ Release(c)
    /\ call' = [call EXCEPT ![c] = IdleCall]
    /\ UNCHANGED <<rows, jobs, work, post, effect, faults>>

BreakDeadlock == \E t \in Workers \cup Callers, m \in Msgs :
    /\ Deadlocked(t, m)
    /\ \/ AbortPost(m)
       \/ t \in Workers /\ RollBack(t) /\ UNCHANGED faults
       \/ t \in Callers /\ AbortCall(t)

WorkerStep(w) ==
    \/ PickupNothing(w) \/ PickupRun(w) \/ Claim(w)
    \/ ResumeNotReady(w) \/ ResumeWithAnswer(w) \/ RunApproved(w)
    \/ ToolCall(w) \/ PauseForApproval(w) \/ PauseForClient(w)
    \/ FinalReply(w) \/ Fallback(w) \/ ProviderFails(w)
    \/ LockConversation(w) \/ Commit(w)

PostStep(m) == PostMessage(m) \/ MergeAndQueue(m) \/ CommitPost(m)

CallStep(c) == Write(c) \/ MirrorTour(c) \/ CommitCall(c)

Next ==
    \/ \E w \in Workers : WorkerStep(w) \/ ProviderRetryable(w) \/ Crash(w)
    \/ \E m \in Msgs : PostBegin(m) \/ PostStep(m)
    \/ \E s \in HandStatuses : SetStatus(s)
    \/ \E c \in Callers : \/ Decide(c) \/ SubmitResult(c) \/ TourStarted(c)
                          \/ Sweep(c) \/ TourEnded(c) \/ CallStep(c)
    \/ \E r \in Runs : Reap(r)
    \/ BreakDeadlock

Spec == Init /\ [][Next]_vars

\* Workers, requests and scheduled jobs run; a lock that is given back again
\* and again is granted (lock queues), a delivery that comes back again and
\* again is taken (the queue is first in, first out).  A transaction has one
\* next step, so strong fairness of its steps is that of the lock it waits for.
\* Nothing is assumed of visitors, teammates, providers and crashes.
Fairness ==
    /\ \A w \in Workers :
         /\ SF_vars(WorkerStep(w))
         /\ \A r \in Runs : SF_vars(PickupRun(w) /\ work'[w].r = r)
    /\ \A m \in Msgs : SF_vars(PostStep(m))
    /\ \A c \in Callers : SF_vars(CallStep(c))
    /\ SF_vars(\E c \in Callers : Sweep(c))
    /\ \A r \in Runs : WF_vars(Reap(r))
    /\ WF_vars(BreakDeadlock)

FairSpec == Spec /\ Fairness

(***************************************************************************)
(* Types and safety.                                                       *)
(***************************************************************************)
WorkRecs ==
    [pc : {"idle", "claim", "resume", "llm", "lockconv", "commit"}, r : Runs,
     att : 1..MaxAttempts, conv : ConvStatuses, was : Calls,
     st : RunStatuses \cup {"running"}, pend : Calls, op : 0..MaxOps,
     used : Nat, ran : Nat, said : {0, 1}, cset : ConvStatuses \cup {None}]
PostRecs ==
    [pc : {"idle", "lockconv", "handle", "commit", "done", "failed"},
     conv : ConvStatuses, cset : ConvStatuses \cup {None},
     merged : SUBSET Runs, follow : BOOLEAN]
CallRecs ==
    [pc : {"idle", "write", "lockconv", "commit"},
     kind : {"none", "decide", "answer", "started", "settle"}, r : Runs,
     op : 0..MaxOps, was : Calls,
     val : Verdicts \cup {"answer", "timeout", "none"}]

\* Every row, lock and transaction has the shape the code gives it; in
\* particular no committed row is ever "running", the status a claim only
\* flushes.
TypeOK ==
    /\ conv \in ConvStatuses
    /\ run \in [Runs -> Rows]
    /\ approval \in [Runs -> [Ops -> Approvals]]
    /\ jobs \subseteq Runs \X (1..MaxAttempts)
    /\ lockRun \in [Runs -> Txns \cup {None}]
    /\ lockConv \in Txns \cup {None}
    /\ work \in [Workers -> WorkRecs]
    /\ post \in [Msgs -> PostRecs]
    /\ call \in [Callers -> CallRecs]
    /\ effect \in [Runs -> [Ops -> 0..2]]
    /\ faults \in Nat

\* A thread has at most one queued run: a new message takes over whatever was
\* queued before it, and two messages at once do not both miss the other's.
AtMostOneQueued == \A r, s \in Runs :
    run[r].st = "queued" /\ run[s].st = "queued" => r = s

\* The next four hold with one process that executes runs, which holds the lock
\* of tasks.py:28-46 until the execution has committed, and not beyond: another
\* process does not see the claim of a run before that commit.

\* One inbound message gets at most one reply: a run never posts twice,
\* whatever the queue delivers again (_claim, the in-order guard).
OneReply == \A r \in Runs : run[r].replies <= 1

\* A run recorded as merged into a newer one has not replied on its own:
\* the two rows the message handler and the execution lock, in opposite order,
\* keep the lost update of a finished run from happening.
MergedNeverReplied == \A r \in Runs : run[r].st = "canceled" => run[r].replies = 0

Parked(r) == run[r].st \in {"awaiting_approval", "awaiting_client"}

\* A thread never has two runs in flight: the in-order guard holds a
\* follow-up back while an earlier run waits for a person or the page.
OneInFlight == \A r, s \in Runs : Parked(r) /\ Parked(s) => r = s

\* Replies come in the order of the messages they answer: nothing replies
\* while an earlier message's run may still reply.
RepliesInOrder == \A r, s \in Runs :
    r < s /\ run[s].replies > 0 => run[r].st \in Terminal \cup {"none"}

\* A gated tool runs only on a decision that is committed and approves it,
\* for the very operation that was asked.
EffectNeedsApproval == [][\A r \in Runs, o \in Ops :
    effect'[r][o] > effect[r][o] => approval[r][o] = "approved"]_vars

\* What engine.py:1846-1850 promises: only a run still queued is canceled
\* and merged (one in flight gets a follow-up), and it stays so.
MergeIsExclusive == [][\A r \in Runs :
    /\ run[r].st # run'[r].st
    /\ "canceled" \in {run[r].st, run'[r].st}
    => run[r].st = "queued"]_vars

\* What engine.py:1390-1392 promises: a run is resumed with the answer to
\* the operation it asked for last, never with one to an earlier step.
ResumedByOwnAnswer == \A w \in Workers :
    work[w].pc = "resume" => work[w].pend.op = run[work[w].r].ops

\* What tasks.py:4-5 promises of a crash-retry: an approved tool has run at
\* most once for its approval.
EffectOnce == \A r \in Runs, o \in Ops : effect[r][o] <= 1

(***************************************************************************)
(* Liveness, under FairSpec.                                               *)
(***************************************************************************)
\* The run at the head of its thread never stays queued for good: whatever
\* lost its delivery, the reaper brings it back.
QueuedIsServed == \A r \in Runs :
    []<>~(run[r].st = "queued" /\ ~EarlierActive(r))

\* Every visitor message is stored or refused: the deadlock it may get into
\* with the run it interrupts is always broken.
PostsSettle == \A m \in Msgs :
    post[m].pc # "idle" ~> post[m].pc \in {"done", "failed"}

\* No page operation goes unanswered for good: the page, or the sweep.
PageWaitAnswered == \A r \in Runs : Unanswered(r) ~> ~Unanswered(r)

\* What engine.py:1431-1432 promises: no run is stranded on the page.
PageWaitEnds == \A r \in Runs : ParkedOnPage(r) ~> ~ParkedOnPage(r)
=============================================================================
