-------------------------- MODULE AgentRuns_proofs --------------------------
(***************************************************************************)
(* Theorems about the run engine, for any number of executions, requests,  *)
(* messages and operations.                                                *)
(***************************************************************************)
EXTENDS AgentRuns, TLAPS

Parks == {"awaiting_approval", "awaiting_client"}

\* How far a worker's transaction is determines what it may write.
WorkOK == \A w \in Workers :
    /\ work[w].pc = "claim" => work[w].st \in {"canceled", "running"}
    /\ work[w].pc \in {"resume", "llm"} => work[w].st = "running"
    /\ work[w].pc = "lockconv" => work[w].st \in {"running"} \cup Terminal \cup Parks
    /\ work[w].pc = "commit" => work[w].st \in Terminal \cup Parks

\* What a request writes fits what it writes to.
CallOK == \A c \in Callers :
    /\ call[c].kind = "decide" => call[c].val \in Verdicts
    /\ call[c].kind \in {"answer", "started"} => call[c].val \in {"answer", "timeout"}

TypeInv == TypeOK /\ WorkOK /\ CallOK

LEMMA NoneIsFresh == None \notin ConvStatuses /\ None \notin Txns
BY TxnsAssumption

LEMMA CallTypes == /\ NoCall \in Calls /\ NoRow \in Rows /\ NewRow \in Rows
                   /\ \A r \in Runs : r \in Nat
                   /\ 1 \in Runs /\ 1 \in 1..MaxAttempts
BY CountsAssumption
   DEF NoCall, Calls, NoRow, NewRow, Rows, RunStatuses, Active, Runs, Msgs

LEMMA IdleTypes == IdleWork \in WorkRecs /\ IdlePost \in PostRecs /\ IdleCall \in CallRecs
BY CallTypes, CountsAssumption
   DEF IdleWork, IdlePost, IdleCall, WorkRecs, PostRecs, CallRecs, ConvStatuses,
       RunStatuses, Active, Verdicts

LEMMA InitTypeInv == Init => TypeInv
<1> SUFFICES ASSUME Init PROVE TypeInv
    OBVIOUS
<1>1. TypeOK
  BY CallTypes, IdleTypes DEF Init, TypeOK, ConvStatuses, Approvals, Rows
<1>2. WorkOK /\ CallOK
  BY DEF Init, WorkOK, CallOK, IdleWork, IdleCall
<1> QED BY <1>1, <1>2 DEF TypeInv

\* Locks stay owned by transactions.
LEMMA ReleaseTypes ==
    ASSUME NEW t, TypeOK, Release(t)
    PROVE  lockRun' \in [Runs -> Txns \cup {None}] /\ lockConv' \in Txns \cup {None}
BY DEF TypeOK, Release

\* The queue holds deliveries only.
LEMMA QueueTypes ==
    ASSUME TypeOK, NEW r \in Runs, NEW att \in 1..MaxAttempts
    PROVE  /\ Enqueue(r) \subseteq Runs \X (1..MaxAttempts)
           /\ Retry(r, att) \subseteq Runs \X (1..MaxAttempts)
<1>1. 1 \in 1..MaxAttempts /\ (att < MaxAttempts => att + 1 \in 1..MaxAttempts)
  BY CountsAssumption
<1> QED BY <1>1 DEF TypeOK, Enqueue, Retry

LEMMA ChainedTypes ==
    ASSUME TypeOK, NEW r
    PROVE  Chained(r) \subseteq Runs \X (1..MaxAttempts)
BY CallTypes DEF TypeOK, Chained

\* A worker that rolls back, for whatever reason.
LEMMA IdleWorkerTypes ==
    ASSUME TypeInv, NEW w \in Workers, Release(w), jobs' \subseteq Runs \X (1..MaxAttempts),
           work' = [work EXCEPT ![w] = IdleWork], faults' \in Nat,
           UNCHANGED <<rows, post, call, effect>>
    PROVE  TypeInv'
<1>1. TypeOK'
  BY ReleaseTypes, IdleTypes DEF TypeInv, TypeOK, rows
<1>2. WorkOK' /\ CallOK'
  BY DEF TypeInv, TypeOK, WorkOK, CallOK, IdleWork
<1> QED BY <1>1, <1>2 DEF TypeInv

\* A worker that goes on, with a record k that fits its new place.
LEMMA WorkerTypes ==
    ASSUME TypeInv, NEW w \in Workers, NEW k \in WorkRecs,
           work' = [work EXCEPT ![w] = k],
           k.pc = "claim" => k.st \in {"canceled", "running"},
           k.pc \in {"resume", "llm"} => k.st = "running",
           k.pc = "lockconv" => k.st \in {"running"} \cup Terminal \cup Parks,
           k.pc = "commit" => k.st \in Terminal \cup Parks,
           jobs' \subseteq Runs \X (1..MaxAttempts),
           lockRun' \in [Runs -> Txns \cup {None}], lockConv' \in Txns \cup {None},
           effect' \in [Runs -> [Ops -> 0..2]],
           UNCHANGED <<rows, post, call, faults>>
    PROVE  TypeInv'
<1>1. TypeOK'
  BY DEF TypeInv, TypeOK, rows
<1>2. WorkOK' /\ CallOK'
  BY DEF TypeInv, TypeOK, WorkOK, CallOK
<1> QED BY <1>1, <1>2 DEF TypeInv

LEMMA PickupNothingTypes ==
    ASSUME TypeInv, NEW w \in Workers, PickupNothing(w) PROVE TypeInv'
<1>1. jobs' \subseteq Runs \X (1..MaxAttempts)
  BY QueueTypes DEF PickupNothing, TypeInv, TypeOK
<1> QED BY <1>1 DEF PickupNothing, TypeInv, TypeOK, WorkOK, CallOK, rows, locks, txns

LEMMA PickupRunTypes ==
    ASSUME TypeInv, NEW w \in Workers, PickupRun(w) PROVE TypeInv'
<1>1. PICK j \in jobs : PickupRun(w)!2!(j)
  BY DEF PickupRun
<1> DEFINE r == j[1]
           k == [IdleWork EXCEPT !.pc = "claim", !.r = r, !.att = j[2],
                 !.conv = conv, !.was = run[r].pend, !.pend = run[r].pend,
                 !.st = IF run[r].st = "queued" /\ conv # "pending"
                        THEN "canceled" ELSE "running",
                 !.used = run[r].calls]
<1>2. r \in Runs /\ j[2] \in 1..MaxAttempts /\ run[r] \in Rows /\ conv \in ConvStatuses
  BY DEF TypeInv, TypeOK
<1>3. k \in WorkRecs /\ k.pc = "claim" /\ k.st \in {"canceled", "running"}
  <2>1. run[r].pend \in Calls /\ run[r].calls \in Nat
    BY <1>2 DEF Rows
  <2>2. {"canceled", "running"} \subseteq RunStatuses \cup {"running"}
    BY DEF RunStatuses, Terminal
  <2>3. IdleWork \in WorkRecs
    BY IdleTypes
  <2> QED BY <1>2, <2>1, <2>2, <2>3 DEF WorkRecs
<1>4. work' = [work EXCEPT ![w] = k]
  BY <1>1
<1>5. /\ jobs' \subseteq Runs \X (1..MaxAttempts)
      /\ lockRun' \in [Runs -> Txns \cup {None}] /\ lockConv' \in Txns \cup {None}
      /\ effect' \in [Runs -> [Ops -> 0..2]] /\ UNCHANGED <<rows, post, call, faults>>
  <2>1. UNCHANGED <<rows, locks, post, call, effect, faults>>
    BY DEF PickupRun
  <2>2. jobs' = jobs \ {j}
    BY <1>1
  <2> QED BY <2>1, <2>2 DEF TypeInv, TypeOK, locks
<1> HIDE DEF k
<1> QED BY <1>3, <1>4, <1>5, WorkerTypes

LEMMA ClaimTypes ==
    ASSUME TypeInv, NEW w \in Workers, Claim(w) PROVE TypeInv'
<1> DEFINE k == [work[w] EXCEPT !.pc =
         IF work[w].st = "canceled" THEN "commit"
         ELSE IF work[w].pend.kind = "none" THEN "llm" ELSE "resume"]
<1>1. k \in WorkRecs /\ k.st = work[w].st
      /\ k.pc \in {"commit", "llm", "resume"} /\ (k.pc = "commit" <=> k.st = "canceled")
  <2>1. work[w] \in WorkRecs
    BY DEF TypeInv, TypeOK
  <2> QED BY <2>1 DEF WorkRecs
<1>2. work' = [work EXCEPT ![w] = k]
  BY DEF Claim
<1>3. k.st \in {"canceled", "running"}
  BY <1>1 DEF Claim, TypeInv, WorkOK
<1>4. lockRun' \in [Runs -> Txns \cup {None}]
  BY DEF Claim, TypeInv, TypeOK, Txns
<1>5. /\ jobs' \subseteq Runs \X (1..MaxAttempts) /\ lockConv' \in Txns \cup {None}
      /\ effect' \in [Runs -> [Ops -> 0..2]] /\ UNCHANGED <<rows, post, call, faults>>
  BY DEF Claim, TypeInv, TypeOK
<1>6. /\ k.pc # "claim" /\ k.pc # "lockconv"
      /\ k.pc \in {"resume", "llm"} => k.st = "running"
      /\ k.pc = "commit" => k.st \in Terminal
  BY <1>1, <1>3 DEF Terminal
<1> HIDE DEF k
<1> QED BY <1>1, <1>2, <1>4, <1>5, <1>6, WorkerTypes

LEMMA RollBackTypes ==
    ASSUME TypeInv, NEW w \in Workers, RollBack(w), faults' \in Nat PROVE TypeInv'
<1>1. jobs' \subseteq Runs \X (1..MaxAttempts)
  BY QueueTypes DEF RollBack, TypeInv, TypeOK, WorkRecs
<1> QED BY <1>1, IdleWorkerTypes DEF RollBack

LEMMA CrashTypes ==
    ASSUME TypeInv, NEW w \in Workers, Crash(w) PROVE TypeInv'
<1>1. jobs' \subseteq Runs \X (1..MaxAttempts) /\ faults' \in Nat
  BY QueueTypes DEF Crash, TypeInv, TypeOK, WorkRecs
<1> QED BY <1>1, IdleWorkerTypes DEF Crash

LEMMA ResumeTypes ==
    ASSUME TypeInv, NEW w \in Workers, ResumeWithAnswer(w) PROVE TypeInv'
<1> DEFINE k == [work[w] EXCEPT !.pc = "llm", !.pend = NoCall]
<1>1. k \in WorkRecs /\ k.st = work[w].st /\ k.pc = "llm" /\ work[w].st = "running"
  <2>1. work[w] \in WorkRecs
    BY DEF TypeInv, TypeOK
  <2>2. work[w].st = "running"
    BY DEF TypeInv, WorkOK, ResumeWithAnswer
  <2> QED BY <2>1, <2>2, CallTypes DEF WorkRecs
<1>2. work' = [work EXCEPT ![w] = k]
  BY DEF ResumeWithAnswer
<1>3. /\ jobs' \subseteq Runs \X (1..MaxAttempts)
      /\ lockRun' \in [Runs -> Txns \cup {None}] /\ lockConv' \in Txns \cup {None}
      /\ effect' \in [Runs -> [Ops -> 0..2]] /\ UNCHANGED <<rows, post, call, faults>>
  BY DEF ResumeWithAnswer, TypeInv, TypeOK, locks
<1> HIDE DEF k
<1> QED BY <1>1, <1>2, <1>3, WorkerTypes

\* What follows a tool call keeps its record in shape.
LEMMA ContinuationTypes ==
    ASSUME NEW k \in WorkRecs, k.pc = "llm", k.st = "running", NEW n \in Continuations(k)
    PROVE  /\ n \in WorkRecs /\ n.pc \in {"llm", "lockconv"}
           /\ n.pc = "llm" => n.st = "running"
           /\ n.pc = "lockconv" => n.st \in {"running"} \cup Terminal
<1>1. CASE n \in {k, [k EXCEPT !.pc = "lockconv"]}
  BY <1>1 DEF WorkRecs
<1>2. CASE n \in ControlEndings(k)
  <2>1. {"handed_off", "completed"} \subseteq Terminal \cap RunStatuses
    BY DEF Terminal, RunStatuses
  <2>2. {"open", "resolved"} \subseteq ConvStatuses
    BY DEF ConvStatuses
  <2>3. PICK st \in {"handed_off", "completed"}, said \in {0, 1}, cset \in {"open", "resolved"} :
          n = Ended(k, st, said, cset)
    BY <1>2 DEF ControlEndings
  <2> QED BY <2>1, <2>2, <2>3 DEF Ended, WorkRecs
<1> QED BY <1>1, <1>2 DEF Continuations

LEMMA RunApprovedTypes ==
    ASSUME TypeInv, NEW w \in Workers, RunApproved(w) PROVE TypeInv'
<1> DEFINE d == [work[w] EXCEPT !.pc = "llm", !.pend = NoCall,
                   !.used = work[w].used + 1, !.ran = work[w].ran + 1]
<1>1. d \in WorkRecs /\ d.pc = "llm" /\ d.st = "running"
  <2>1. work[w] \in WorkRecs /\ work[w].st = "running"
    BY DEF TypeInv, TypeOK, WorkOK, RunApproved
  <2>2. work[w].used + 1 \in Nat /\ work[w].ran + 1 \in Nat
    BY <2>1 DEF WorkRecs
  <2> QED BY <2>1, <2>2, CallTypes DEF WorkRecs
<1>2. PICK n \in Continuations(d) : work' = [work EXCEPT ![w] = n]
  BY DEF RunApproved
<1>3. effect' \in [Runs -> [Ops -> 0..2]]
  <2>1. work[w].r \in Runs /\ effect[work[w].r] \in [Ops -> 0..2]
    BY DEF TypeInv, TypeOK, WorkRecs
  <2>2. \A i \in 0..2 : UpTo2(i + 1) \in 0..2
    BY DEF UpTo2
  <2> DEFINE o == work[w].pend.op
             e == [effect[work[w].r] EXCEPT ![o] = UpTo2(@ + 1)]
  <2>3. e \in [Ops -> 0..2]
    BY <2>1, <2>2
  <2>4. effect' = [effect EXCEPT ![work[w].r] = e]
    BY DEF RunApproved
  <2> QED BY <2>1, <2>3, <2>4 DEF TypeInv, TypeOK
<1> QED BY <1>1, <1>2, <1>3, ContinuationTypes, WorkerTypes
        DEF RunApproved, TypeInv, TypeOK, locks

LEMMA ToolCallTypes ==
    ASSUME TypeInv, NEW w \in Workers, ToolCall(w) PROVE TypeInv'
<1> DEFINE d == [work[w] EXCEPT !.used = work[w].used + 1, !.ran = work[w].ran + 1]
           e == [work[w] EXCEPT !.used = work[w].used + 1]
<1>1. /\ d \in WorkRecs /\ d.pc = "llm" /\ d.st = "running"
      /\ e \in WorkRecs /\ e.pc = "llm" /\ e.st = "running"
  <2>1. work[w] \in WorkRecs /\ work[w].st = "running" /\ work[w].pc = "llm"
    BY DEF TypeInv, TypeOK, WorkOK, ToolCall
  <2>2. work[w].used + 1 \in Nat /\ work[w].ran + 1 \in Nat
    BY <2>1 DEF WorkRecs
  <2> QED BY <2>1, <2>2 DEF WorkRecs
<1>2. PICK n \in {e} \cup Continuations(d) : work' = [work EXCEPT ![w] = n]
  BY DEF ToolCall
<1> QED BY <1>1, <1>2, ContinuationTypes, WorkerTypes
        DEF ToolCall, TypeInv, TypeOK, locks

LEMMA PauseTypes ==
    ASSUME TypeInv, NEW w \in Workers, NEW pc \in {"commit", "lockconv"},
           NEW st \in Parks, NEW kind \in {"gate", "page"}, Pause(w, kind, st, pc)
    PROVE  TypeInv'
<1>1. PICK o \in Ops : work' = [work EXCEPT ![w] =
              [work[w] EXCEPT !.pc = pc, !.st = st, !.op = o,
                        !.pend = [kind |-> kind, op |-> o, res |-> "none"]]]
  BY DEF Pause
<1> DEFINE k == [work[w] EXCEPT !.pc = pc, !.st = st, !.op = o,
                        !.pend = [kind |-> kind, op |-> o, res |-> "none"]]
<1>2. k \in WorkRecs /\ k.pc = pc /\ k.st = st
  <2>1. work[w] \in WorkRecs
    BY DEF TypeInv, TypeOK
  <2>2. o \in 0..MaxOps /\ [kind |-> kind, op |-> o, res |-> "none"] \in Calls
    BY CountsAssumption DEF Calls, Ops
  <2>3. st \in RunStatuses
    BY DEF Parks, RunStatuses, Active
  <2> QED BY <2>1, <2>2, <2>3 DEF WorkRecs
<1> QED BY <1>1, <1>2, WorkerTypes DEF Pause, TypeInv, TypeOK, locks

LEMMA EndingTypes ==
    ASSUME TypeInv, NEW w \in Workers,
           FinalReply(w) \/ Fallback(w) \/ ProviderFails(w)
    PROVE  TypeInv'
<1>1. \A st \in Terminal, said \in {0, 1}, cset \in {None, "open"} :
         LET k == Ended(work[w], st, said, cset) IN
         k \in WorkRecs /\ k.pc = "lockconv" /\ k.st = st
  <2>1. work[w] \in WorkRecs
    BY DEF TypeInv, TypeOK
  <2>2. Terminal \subseteq RunStatuses /\ "open" \in ConvStatuses
    BY DEF RunStatuses, ConvStatuses
  <2> TAKE st \in Terminal, said \in {0, 1}, cset \in {None, "open"}
  <2>3. st \in RunStatuses /\ cset \in ConvStatuses \cup {None}
    BY <2>2
  <2> QED BY <2>1, <2>3 DEF WorkRecs, Ended
<1>2. CASE FinalReply(w)
  BY <1>1, <1>2, WorkerTypes DEF FinalReply, TypeInv, TypeOK, locks, Terminal
<1>3. CASE Fallback(w)
  BY <1>1, <1>3, WorkerTypes DEF Fallback, TypeInv, TypeOK, locks, Terminal
<1>4. CASE ProviderFails(w)
  <2> DEFINE k == [work[w] EXCEPT !.pc = "commit", !.st = "failed"]
  <2>1. k \in WorkRecs /\ k.pc = "commit" /\ k.st = "failed"
    <3>1. work[w] \in WorkRecs
      BY DEF TypeInv, TypeOK
    <3>2. "failed" \in RunStatuses \cup {"running"}
      BY DEF RunStatuses, Terminal
    <3> QED BY <3>1, <3>2 DEF WorkRecs
  <2>2. CASE work[w].conv = "pending"
    BY <1>1, <1>4, <2>2, WorkerTypes DEF ProviderFails, TypeInv, TypeOK, locks, Terminal
  <2>3. CASE work[w].conv # "pending"
    BY <2>1, <1>4, <2>3, WorkerTypes, ChainedTypes
       DEF ProviderFails, TypeInv, TypeOK, locks, Terminal
  <2> QED BY <2>2, <2>3
<1> QED BY <1>2, <1>3, <1>4

LEMMA LockConversationTypes ==
    ASSUME TypeInv, NEW w \in Workers, LockConversation(w) PROVE TypeInv'
<1> DEFINE k == [work[w] EXCEPT !.pc =
                   IF work[w].st = "running" THEN "llm" ELSE "commit"]
<1>1. k \in WorkRecs /\ k.st = work[w].st /\ k.pc \in {"llm", "commit"}
      /\ (k.pc = "llm" <=> k.st = "running")
  <2>1. work[w] \in WorkRecs
    BY DEF TypeInv, TypeOK
  <2> QED BY <2>1 DEF WorkRecs
<1>2. k.st \in {"running"} \cup Terminal \cup Parks
  BY <1>1 DEF LockConversation, TypeInv, WorkOK
<1>3. work' = [work EXCEPT ![w] = k]
  BY DEF LockConversation
<1>4. jobs' \subseteq Runs \X (1..MaxAttempts) /\ lockConv' \in Txns \cup {None}
  BY ChainedTypes DEF LockConversation, TypeInv, TypeOK, Txns
<1> QED BY <1>1, <1>2, <1>3, <1>4, WorkerTypes DEF LockConversation, TypeInv, TypeOK

LEMMA CommitTypes ==
    ASSUME TypeInv, NEW w \in Workers, Commit(w) PROVE TypeInv'
<1> DEFINE k == work[w]
           row == [st |-> k.st,
                   pend |-> IF k.pend # k.was THEN k.pend ELSE run[k.r].pend,
                   ops |-> IF k.op > run[k.r].ops THEN k.op ELSE run[k.r].ops,
                   calls |-> run[k.r].calls + k.ran,
                   replies |-> UpTo2(run[k.r].replies + k.said)]
<1>1. k \in WorkRecs /\ k.st \in Terminal \cup Parks /\ k.r \in Runs /\ run[k.r] \in Rows
  BY DEF Commit, TypeInv, TypeOK, WorkOK, WorkRecs
<1>2. row \in Rows
  BY <1>1 DEF WorkRecs, Rows, RunStatuses, Active, Terminal, Parks, UpTo2
<1>3. run' = [run EXCEPT ![k.r] = row]
  BY DEF Commit
<1>4. run' \in [Runs -> Rows]
  BY <1>2, <1>3 DEF TypeInv, TypeOK
<1>5. approval' \in [Runs -> [Ops -> Approvals]] /\ conv' \in ConvStatuses
  BY <1>1 DEF Commit, TypeInv, TypeOK, Approvals, WorkRecs
<1>6. TypeOK'
  BY <1>4, <1>5, ReleaseTypes, IdleTypes DEF Commit, TypeInv, TypeOK
<1>7. WorkOK' /\ CallOK'
  BY DEF Commit, TypeInv, TypeOK, WorkOK, CallOK, IdleWork
<1> QED BY <1>6, <1>7 DEF TypeInv

\* A posting transaction that goes on, with a record p.
LEMMA PosterTypes ==
    ASSUME TypeInv, NEW m \in Msgs, NEW p \in PostRecs, post' = [post EXCEPT ![m] = p],
           conv' \in ConvStatuses, run' \in [Runs -> Rows],
           jobs' \subseteq Runs \X (1..MaxAttempts),
           lockRun' \in [Runs -> Txns \cup {None}], lockConv' \in Txns \cup {None},
           UNCHANGED <<approval, work, call, effect, faults>>
    PROVE  TypeInv'
<1>1. TypeOK'
  BY DEF TypeInv, TypeOK
<1>2. WorkOK' /\ CallOK'
  BY DEF TypeInv, WorkOK, CallOK
<1> QED BY <1>1, <1>2 DEF TypeInv

LEMMA PostTypes ==
    ASSUME TypeInv, NEW m \in Msgs, PostBegin(m) \/ PostStep(m) PROVE TypeInv'
<1>1. post[m] \in PostRecs
  BY DEF TypeInv, TypeOK
<1>2. CASE PostBegin(m)
  <2> DEFINE p == [post[m] EXCEPT !.pc = "lockconv", !.conv = conv]
  <2>1. p \in PostRecs /\ post' = [post EXCEPT ![m] = p]
    BY <1>1, <1>2 DEF PostBegin, PostRecs, TypeInv, TypeOK
  <2> HIDE DEF p
  <2> QED BY <1>2, <2>1, PosterTypes DEF PostBegin, TypeInv, TypeOK, rows, locks
<1>3. CASE PostMessage(m)
  <2> DEFINE s == Reopened(post[m].conv)
             p == [pc |-> IF s = "pending" THEN "handle" ELSE "commit", conv |-> s,
                   cset |-> IF s # post[m].conv THEN s ELSE None,
                   merged |-> {r \in Runs : s = "pending" /\ run[r].st = "queued"},
                   follow |-> \E r \in Runs : run[r].st \in Active \ {"queued"}]
  <2>1. s \in ConvStatuses
    BY <1>1 DEF PostRecs, Reopened, ConvStatuses
  <2>2. p \in PostRecs
    BY <2>1 DEF PostRecs
  <2>3. post' = [post EXCEPT ![m] = p]
    BY <1>3 DEF PostMessage
  <2>4. /\ conv' \in ConvStatuses /\ run' \in [Runs -> Rows]
        /\ jobs' \subseteq Runs \X (1..MaxAttempts)
        /\ lockRun' \in [Runs -> Txns \cup {None}] /\ lockConv' \in Txns \cup {None}
        /\ UNCHANGED <<approval, work, call, effect, faults>>
    BY <1>3 DEF PostMessage, TypeInv, TypeOK, rows, Txns
  <2> HIDE DEF p, s
  <2> QED BY <2>2, <2>3, <2>4, PosterTypes
<1>4. CASE MergeAndQueue(m)
  <2> DEFINE p == [post[m] EXCEPT !.pc = "commit"]
  <2>1. p \in PostRecs /\ post' = [post EXCEPT ![m] = p]
    BY <1>1, <1>4 DEF MergeAndQueue, PostRecs
  <2>2. jobs' \subseteq Runs \X (1..MaxAttempts)
    BY <1>4, QueueTypes, CallTypes DEF MergeAndQueue, TypeInv, TypeOK, Runs
  <2>3. lockRun' \in [Runs -> Txns \cup {None}]
    BY <1>4 DEF MergeAndQueue, TypeInv, TypeOK, Txns
  <2>4. /\ conv' \in ConvStatuses /\ run' \in [Runs -> Rows] /\ lockConv' \in Txns \cup {None}
        /\ UNCHANGED <<approval, work, call, effect, faults>>
    BY <1>4 DEF MergeAndQueue, TypeInv, TypeOK, rows
  <2> HIDE DEF p
  <2> QED BY <2>1, <2>2, <2>3, <2>4, PosterTypes
<1>5. CASE CommitPost(m)
  <2> DEFINE p == [IdlePost EXCEPT !.pc = "done"]
  <2>1. p \in PostRecs
    BY IdleTypes DEF PostRecs
  <2>2. conv' \in ConvStatuses
    BY <1>1, <1>5 DEF CommitPost, PostRecs, TypeInv, TypeOK
  <2>3. run' \in [Runs -> Rows]
    BY <1>5, CallTypes DEF CommitPost, TypeInv, TypeOK, Rows, RunStatuses, Terminal
  <2> HIDE DEF p
  <2>4. post' = [post EXCEPT ![m] = p] /\ UNCHANGED <<approval, jobs, work, call, effect, faults>>
    BY <1>5 DEF CommitPost, p
  <2>5. lockRun' \in [Runs -> Txns \cup {None}] /\ lockConv' \in Txns \cup {None}
    BY <1>5, ReleaseTypes DEF CommitPost, TypeInv
  <2>6. jobs' \subseteq Runs \X (1..MaxAttempts)
    BY <2>4 DEF TypeInv, TypeOK
  <2> QED BY <2>1, <2>2, <2>3, <2>4, <2>5, <2>6, PosterTypes
<1> QED BY <1>2, <1>3, <1>4, <1>5 DEF PostStep

LEMMA AbortPostTypes ==
    ASSUME TypeInv, NEW m \in Msgs, AbortPost(m) PROVE TypeInv'
<1> DEFINE p == [IdlePost EXCEPT !.pc = "failed"]
<1>1. p \in PostRecs
  BY IdleTypes DEF PostRecs
<1>2. post' = [post EXCEPT ![m] = p]
  BY DEF AbortPost
<1>3. lockRun' \in [Runs -> Txns \cup {None}] /\ lockConv' \in Txns \cup {None}
  BY ReleaseTypes DEF AbortPost, TypeInv
<1>4. /\ conv' \in ConvStatuses /\ run' \in [Runs -> Rows]
      /\ jobs' \subseteq Runs \X (1..MaxAttempts)
      /\ UNCHANGED <<approval, work, call, effect, faults>>
  BY DEF AbortPost, TypeInv, TypeOK, rows
<1> HIDE DEF p
<1> QED BY <1>1, <1>2, <1>3, <1>4, PosterTypes

\* Another transaction that goes on, with a record k.
LEMMA CallerTypes ==
    ASSUME TypeInv, NEW c \in Callers, NEW k \in CallRecs, call' = [call EXCEPT ![c] = k],
           k.kind = "decide" => k.val \in Verdicts,
           k.kind \in {"answer", "started"} => k.val \in {"answer", "timeout"},
           run' \in [Runs -> Rows], approval' \in [Runs -> [Ops -> Approvals]],
           jobs' \subseteq Runs \X (1..MaxAttempts),
           lockRun' \in [Runs -> Txns \cup {None}], lockConv' \in Txns \cup {None},
           UNCHANGED <<conv, work, post, effect, faults>>
    PROVE  TypeInv'
<1>1. TypeOK'
  BY DEF TypeInv, TypeOK
<1>2. WorkOK' /\ CallOK'
  BY DEF TypeInv, TypeOK, WorkOK, CallOK
<1> QED BY <1>1, <1>2 DEF TypeInv

LEMMA BeginTypes ==
    ASSUME TypeInv, NEW c \in Callers, NEW r \in Runs, NEW op \in 0..MaxOps,
           NEW kind \in {"decide", "answer", "started", "settle"},
           NEW val \in Verdicts \cup {"answer", "timeout", "none"},
           kind = "decide" => val \in Verdicts,
           kind \in {"answer", "started"} => val \in {"answer", "timeout"},
           Begin(c, kind, r, op, val)
    PROVE  TypeInv'
<1> DEFINE k == [pc |-> "write", kind |-> kind, r |-> r, op |-> op,
                 was |-> run[r].pend, val |-> val]
<1>1. k \in CallRecs /\ call' = [call EXCEPT ![c] = k]
  BY DEF Begin, CallRecs, TypeInv, TypeOK, Rows
<1>2. k.kind = kind /\ k.val = val
  OBVIOUS
<1>3. /\ run' \in [Runs -> Rows] /\ approval' \in [Runs -> [Ops -> Approvals]]
      /\ jobs' \subseteq Runs \X (1..MaxAttempts)
      /\ lockRun' \in [Runs -> Txns \cup {None}] /\ lockConv' \in Txns \cup {None}
      /\ UNCHANGED <<conv, work, post, effect, faults>>
  BY DEF Begin, TypeInv, TypeOK, rows, locks
<1> HIDE DEF k
<1> QED BY <1>1, <1>2, <1>3, CallerTypes

LEMMA RequestTypes ==
    ASSUME TypeInv, NEW c \in Callers,
           Decide(c) \/ SubmitResult(c) \/ TourStarted(c) \/ Sweep(c) \/ TourEnded(c)
    PROVE  TypeInv'
<1>1. \A r \in Runs : run[r].pend.op \in 0..MaxOps
  BY DEF TypeInv, TypeOK, Rows, Calls
<1>2. Ops \subseteq 0..MaxOps
  BY CountsAssumption DEF Ops
<1>3. CASE Decide(c)
  <2>1. PICK r \in Runs, o \in Ops, v \in Verdicts : Begin(c, "decide", r, o, v)
    BY <1>3 DEF Decide
  <2> QED BY <2>1, <1>2, BeginTypes
<1>4. CASE SubmitResult(c) \/ TourStarted(c) \/ Sweep(c)
  <2>1. PICK r \in Runs, kind \in {"answer", "started"}, v \in {"answer", "timeout"} :
           Begin(c, kind, r, run[r].pend.op, v)
    BY <1>4 DEF SubmitResult, TourStarted, Sweep
  <2> QED BY <2>1, <1>1, BeginTypes
<1>5. CASE TourEnded(c)
  <2>1. PICK r \in Runs : Begin(c, "settle", r, run[r].pend.op, "none")
    BY <1>5 DEF TourEnded
  <2> QED BY <2>1, <1>1, BeginTypes
<1> QED BY <1>3, <1>4, <1>5

LEMMA CallStepTypes ==
    ASSUME TypeInv, NEW c \in Callers, CallStep(c) PROVE TypeInv'
<1>1. /\ call[c] \in CallRecs
      /\ call[c].kind = "decide" => call[c].val \in Verdicts
      /\ call[c].kind \in {"answer", "started"} => call[c].val \in {"answer", "timeout"}
  BY DEF TypeInv, TypeOK, CallOK
<1>2. \A pc \in {"lockconv", "commit"} : LET k == [call[c] EXCEPT !.pc = pc] IN
         k \in CallRecs /\ k.kind = call[c].kind /\ k.val = call[c].val
  BY <1>1 DEF CallRecs
<1>3. CASE Write(c)
  <2> DEFINE k == [call[c] EXCEPT !.pc =
                     IF call[c].kind \in {"started", "settle"} THEN "lockconv" ELSE "commit"]
  <2>1. k \in CallRecs /\ k.kind = call[c].kind /\ k.val = call[c].val
    BY <1>2
  <2>2. call' = [call EXCEPT ![c] = k]
    BY <1>3 DEF Write
  <2>3. call[c].r \in Runs /\ 1 \in 1..MaxAttempts
    BY <1>1, CallTypes DEF CallRecs
  <2>4. jobs' \subseteq Runs \X (1..MaxAttempts)
    BY <1>3, <2>3, QueueTypes, ChainedTypes DEF Write, TypeInv
  <2>5. lockRun' \in [Runs -> Txns \cup {None}]
    BY <1>3 DEF Write, TypeInv, TypeOK, Txns
  <2>6. /\ run' \in [Runs -> Rows] /\ approval' \in [Runs -> [Ops -> Approvals]]
        /\ lockConv' \in Txns \cup {None} /\ UNCHANGED <<conv, work, post, effect, faults>>
    BY <1>3 DEF Write, TypeInv, TypeOK, rows
  <2> HIDE DEF k
  <2> QED BY <1>1, <2>1, <2>2, <2>4, <2>5, <2>6, CallerTypes
<1>4. CASE MirrorTour(c)
  <2> DEFINE k == [call[c] EXCEPT !.pc = "commit"]
  <2>1. /\ k \in CallRecs /\ k.kind = call[c].kind /\ k.val = call[c].val
        /\ call' = [call EXCEPT ![c] = k]
    BY <1>2, <1>4 DEF MirrorTour
  <2>2. /\ run' \in [Runs -> Rows] /\ approval' \in [Runs -> [Ops -> Approvals]]
        /\ jobs' \subseteq Runs \X (1..MaxAttempts)
        /\ lockRun' \in [Runs -> Txns \cup {None}] /\ lockConv' \in Txns \cup {None}
        /\ UNCHANGED <<conv, work, post, effect, faults>>
    BY <1>4 DEF MirrorTour, TypeInv, TypeOK, rows, Txns
  <2> HIDE DEF k
  <2> QED BY <1>1, <2>1, <2>2, CallerTypes
<1>5. CASE CommitCall(c)
  <2> DEFINE k == call[c]
  <2>1. k.r \in Runs /\ k.was \in Calls /\ run[k.r] \in Rows
    BY <1>1 DEF CallRecs, TypeInv, TypeOK
  <2>2. run' \in [Runs -> Rows]
    <3>1. ASSUME k.kind \in {"answer", "started"}
          PROVE  [k.was EXCEPT !.res = k.val] \in Calls
      BY <1>1, <2>1, <3>1 DEF Calls
    <3>2. CASE k.kind \in {"answer", "started"}
      <4>1. [run[k.r] EXCEPT !.pend = [k.was EXCEPT !.res = k.val]] \in Rows
        BY <2>1, <3>1, <3>2 DEF Rows
      <4>2. run' = [run EXCEPT ![k.r].pend = [k.was EXCEPT !.res = k.val]]
        BY <1>5, <3>2 DEF CommitCall
      <4> QED BY <2>1, <4>1, <4>2 DEF TypeInv, TypeOK
    <3>3. CASE k.kind = "settle"
      <4>1. run' = [run EXCEPT ![k.r] = [@ EXCEPT !.pend = NoCall, !.st = "completed"]]
        BY <1>5, <3>3, <2>1 DEF CommitCall, TypeInv, TypeOK, Rows
      <4>2. [run[k.r] EXCEPT !.pend = NoCall, !.st = "completed"] \in Rows
        BY <2>1, CallTypes DEF Rows, RunStatuses, Terminal
      <4> QED BY <2>1, <4>1, <4>2 DEF TypeInv, TypeOK
    <3>4. CASE k.kind \notin {"answer", "started", "settle"}
      BY <1>5, <3>4 DEF CommitCall, TypeInv, TypeOK
    <3> QED BY <3>2, <3>3, <3>4
  <2>3. approval' \in [Runs -> [Ops -> Approvals]]
    BY <1>1, <1>5, <2>1 DEF CommitCall, TypeInv, TypeOK, Approvals
  <2>4. lockRun' \in [Runs -> Txns \cup {None}] /\ lockConv' \in Txns \cup {None}
    BY <1>5, ReleaseTypes DEF CommitCall, TypeInv
  <2>5. /\ call' = [call EXCEPT ![c] = IdleCall] /\ UNCHANGED <<conv, work, post, effect, faults>>
        /\ jobs' \subseteq Runs \X (1..MaxAttempts)
    BY <1>5 DEF CommitCall, TypeInv, TypeOK
  <2>6. IdleCall.kind = "none"
    BY DEF IdleCall
  <2> QED BY <2>2, <2>3, <2>4, <2>5, <2>6, IdleTypes, CallerTypes
<1> QED BY <1>3, <1>4, <1>5 DEF CallStep

LEMMA AbortCallTypes ==
    ASSUME TypeInv, NEW c \in Callers, AbortCall(c) PROVE TypeInv'
<1>1. lockRun' \in [Runs -> Txns \cup {None}] /\ lockConv' \in Txns \cup {None}
  BY ReleaseTypes DEF AbortCall, TypeInv
<1>2. IdleCall.kind = "none" /\ IdleCall \in CallRecs
  BY IdleTypes DEF IdleCall
<1>3. /\ call' = [call EXCEPT ![c] = IdleCall] /\ UNCHANGED <<conv, work, post, effect, faults>>
      /\ run' \in [Runs -> Rows] /\ approval' \in [Runs -> [Ops -> Approvals]]
      /\ jobs' \subseteq Runs \X (1..MaxAttempts)
  BY DEF AbortCall, TypeInv, TypeOK, rows
<1> QED BY <1>1, <1>2, <1>3, CallerTypes

LEMMA OtherTypes ==
    ASSUME TypeInv, \/ \E s \in HandStatuses : SetStatus(s)
                    \/ \E r \in Runs : Reap(r)
                    \/ UNCHANGED vars
    PROVE  TypeInv'
<1>1. CASE \E s \in HandStatuses : SetStatus(s)
  BY <1>1, TxnsAssumption DEF SetStatus, TypeInv, TypeOK, WorkOK, CallOK, locks, txns
<1>2. CASE \E r \in Runs : Reap(r)
  <2>1. jobs' \subseteq Runs \X (1..MaxAttempts)
    BY <1>2, QueueTypes, CallTypes DEF Reap, TypeInv
  <2> QED BY <1>2, <2>1 DEF Reap, TypeInv, TypeOK, WorkOK, CallOK, rows, locks, txns
<1>3. CASE UNCHANGED vars
  BY <1>3 DEF vars, TypeInv, TypeOK, WorkOK, CallOK, rows, locks, txns
<1> QED BY <1>1, <1>2, <1>3

LEMMA BreakDeadlockTypes ==
    ASSUME TypeInv, BreakDeadlock PROVE TypeInv'
<1>1. PICK t \in Workers \cup Callers, m \in Msgs :
         \/ AbortPost(m)
         \/ t \in Workers /\ RollBack(t) /\ UNCHANGED faults
         \/ t \in Callers /\ AbortCall(t)
  BY DEF BreakDeadlock
<1>2. faults \in Nat
  BY DEF TypeInv, TypeOK
<1> QED BY <1>1, <1>2, AbortPostTypes, RollBackTypes, AbortCallTypes

LEMMA WorkerStepTypes ==
    ASSUME TypeInv, NEW w \in Workers, WorkerStep(w) \/ ProviderRetryable(w) \/ Crash(w)
    PROVE  TypeInv'
<1>1. faults \in Nat /\ faults + 1 \in Nat
  BY DEF TypeInv, TypeOK
<1>2. ResumeNotReady(w) \/ ProviderRetryable(w) => TypeInv'
  BY <1>1, RollBackTypes DEF ResumeNotReady, ProviderRetryable
<1>3. PauseForApproval(w) \/ PauseForClient(w) => TypeInv'
  BY PauseTypes DEF PauseForApproval, PauseForClient, Parks
<1> QED BY <1>2, <1>3, PickupNothingTypes, PickupRunTypes, ClaimTypes, ResumeTypes,
           RunApprovedTypes, ToolCallTypes, EndingTypes, LockConversationTypes,
           CommitTypes, CrashTypes
        DEF WorkerStep

LEMMA StepTypes == TypeInv /\ [Next]_vars => TypeInv'
<1> SUFFICES ASSUME TypeInv, [Next]_vars PROVE TypeInv'
    OBVIOUS
<1> QED BY WorkerStepTypes, PostTypes, RequestTypes, CallStepTypes, OtherTypes,
           BreakDeadlockTypes DEF Next

\* Rows, locks, deliveries and transactions keep their shape in every
\* execution; no row is ever committed as "running".
THEOREM TypeCorrect == Spec => []TypeOK
<1>1. Init => TypeInv
  BY InitTypeInv
<1>2. TypeInv /\ [Next]_vars => TypeInv'
  BY StepTypes
<1>3. TypeInv => TypeOK
  BY DEF TypeInv
<1> QED BY <1>1, <1>2, <1>3, PTL DEF Spec

(***************************************************************************)
(* At most one queued run.  The conversation row serialises the message    *)
(* handlers: while one of them is between its read of the active runs and  *)
(* its commit it holds that row, so no other handler inserts a queued run, *)
(* and every run that is queued is among those it read.                    *)
(***************************************************************************)
Handling(m) == post[m].pc \in {"handle", "commit"}

PostLock == \A m \in Msgs : Handling(m) => lockConv = m

MergeSeesQueued == \A m \in Msgs : Handling(m) /\ post[m].conv = "pending" =>
    \A r \in Runs : run[r].st = "queued" => r \in post[m].merged

QueueInv == PostLock /\ MergeSeesQueued /\ AtMostOneQueued

\* A step of anyone but a message handler: it queues no run and takes the
\* conversation row from no handler.
LEMMA OthersQueueNothing ==
    ASSUME QueueInv, post' = post,
           \A r \in Runs : run'[r].st = "queued" => run[r].st = "queued",
           \A m \in Msgs : lockConv = m => lockConv' = m
    PROVE  QueueInv'
BY DEF QueueInv, PostLock, MergeSeesQueued, AtMostOneQueued, Handling

LEMMA ReleaseKeeps ==
    ASSUME NEW t, NEW m \in Msgs, t # m, Release(t), lockConv = m
    PROVE  lockConv' = m
BY DEF Release

LEMMA TxnsDiffer == /\ \A w \in Workers, m \in Msgs : w # m
                    /\ \A c \in Callers, m \in Msgs : c # m
                    /\ \A m \in Msgs : m # None
BY TxnsAssumption DEF Txns

LEMMA WorkersQueueNothing ==
    ASSUME TypeInv, QueueInv, NEW w \in Workers,
           WorkerStep(w) \/ ProviderRetryable(w) \/ Crash(w)
    PROVE  QueueInv'
<1>1. post' = post
  BY DEF WorkerStep, ProviderRetryable, Crash, PickupNothing, PickupRun, Claim,
         ResumeNotReady, RollBack, ResumeWithAnswer, RunApproved, ToolCall,
         PauseForApproval, PauseForClient, Pause, FinalReply, Fallback,
         ProviderFails, LockConversation, Commit, txns
<1>2. CASE LockConversation(w)
  BY <1>1, <1>2, TxnsDiffer, OthersQueueNothing DEF LockConversation, rows
<1>3. CASE Commit(w)
  <2>1. work[w].st # "queued"
    BY <1>3 DEF Commit, TypeInv, WorkOK, Terminal, Parks
  <2>2. \A r \in Runs : run'[r].st = "queued" => run[r].st = "queued"
    BY <1>3, <2>1 DEF Commit, TypeInv, TypeOK
  <2>3. Release(w)
    BY <1>3 DEF Commit
  <2> QED BY <1>1, <2>2, <2>3, TxnsDiffer, ReleaseKeeps, OthersQueueNothing
<1>4. CASE ResumeNotReady(w) \/ ProviderRetryable(w) \/ Crash(w)
  <2>1. Release(w) /\ run' = run
    BY <1>4 DEF ResumeNotReady, ProviderRetryable, Crash, RollBack, rows
  <2> QED BY <1>1, <2>1, TxnsDiffer, ReleaseKeeps, OthersQueueNothing
<1>5. CASE WorkerStep(w) /\ ~LockConversation(w) /\ ~Commit(w) /\ ~ResumeNotReady(w)
  <2>1. run' = run /\ lockConv' = lockConv
    BY <1>5 DEF WorkerStep, PickupNothing, PickupRun, Claim, ResumeWithAnswer,
           RunApproved, ToolCall, PauseForApproval, PauseForClient, Pause,
           FinalReply, Fallback, ProviderFails, rows, locks
  <2> QED BY <1>1, <2>1, OthersQueueNothing
<1> QED BY <1>2, <1>3, <1>4, <1>5

LEMMA CallersQueueNothing ==
    ASSUME TypeInv, QueueInv, NEW c \in Callers,
           Decide(c) \/ SubmitResult(c) \/ TourStarted(c) \/ Sweep(c) \/ TourEnded(c)
             \/ CallStep(c)
    PROVE  QueueInv'
<1>1. post' = post
  BY DEF Decide, SubmitResult, TourStarted, Sweep, TourEnded, Begin, CallStep,
         Write, MirrorTour, CommitCall
<1>2. CASE CommitCall(c)
  <2>1. Release(c)
    BY <1>2 DEF CommitCall
  <2>2. \A r \in Runs : run'[r].st = "queued" => run[r].st = "queued"
    BY <1>2 DEF CommitCall, TypeInv, TypeOK, Rows
  <2> QED BY <1>1, <2>1, <2>2, TxnsDiffer, ReleaseKeeps, OthersQueueNothing
<1>3. CASE MirrorTour(c)
  BY <1>1, <1>3, TxnsDiffer, OthersQueueNothing DEF MirrorTour, rows
<1>4. CASE ~CommitCall(c) /\ ~MirrorTour(c)
  <2>1. run' = run /\ lockConv' = lockConv
    BY <1>4 DEF Decide, SubmitResult, TourStarted, Sweep, TourEnded, Begin, CallStep,
           Write, rows, locks
  <2> QED BY <1>1, <2>1, OthersQueueNothing
<1> QED BY <1>2, <1>3, <1>4

LEMMA PostsQueueOne ==
    ASSUME TypeInv, QueueInv, NEW m \in Msgs, PostBegin(m) \/ PostStep(m) \/ AbortPost(m)
    PROVE  QueueInv'
<1>1. post[m] \in PostRecs
  BY DEF TypeInv, TypeOK
<1>2. CASE PostBegin(m)
  BY <1>2 DEF PostBegin, QueueInv, PostLock, MergeSeesQueued, AtMostOneQueued,
          Handling, TypeInv, TypeOK, PostRecs, rows, locks
<1>3. CASE PostMessage(m)
  <2>1. /\ lockConv = None /\ lockConv' = m /\ run' = run
        /\ \A k \in Msgs \ {m} : post'[k] = post[k] /\ ~Handling(k)
    BY <1>3, TxnsDiffer DEF PostMessage, rows, QueueInv, PostLock, TypeInv, TypeOK
  <2>2. post'[m].conv = "pending" => post'[m].merged = {r \in Runs : run[r].st = "queued"}
    BY <1>3 DEF PostMessage, TypeInv, TypeOK
  <2>3. \A k \in Msgs : post'[k].pc \in {"handle", "commit"} => k = m
    BY <2>1 DEF Handling
  <2>4. PostLock'
    BY <2>1, <2>3 DEF PostLock, Handling
  <2>5. MergeSeesQueued'
    BY <2>1, <2>2, <2>3 DEF MergeSeesQueued, Handling
  <2>6. run' = run
    BY <2>1
  <2>7. AtMostOneQueued'
    BY <2>6 DEF QueueInv, AtMostOneQueued
  <2> QED BY <2>4, <2>5, <2>7 DEF QueueInv
<1>4. CASE MergeAndQueue(m)
  <2>1. lockConv' = lockConv
    BY <1>4 DEF MergeAndQueue
  <2>2. run' = run
    BY <1>4 DEF MergeAndQueue, rows
  <2>3. ASSUME NEW k \in Msgs, Handling(k)'
        PROVE  /\ Handling(k) /\ post'[k].conv = post[k].conv
               /\ post'[k].merged = post[k].merged
    BY <1>1, <1>4, <2>3 DEF MergeAndQueue, TypeInv, TypeOK, PostRecs, Handling
  <2>4. PostLock'
    BY <2>1, <2>3 DEF QueueInv, PostLock
  <2>5. MergeSeesQueued'
    BY <2>2, <2>3 DEF QueueInv, MergeSeesQueued
  <2>6. AtMostOneQueued'
    BY <2>2 DEF QueueInv, AtMostOneQueued
  <2> QED BY <2>4, <2>5, <2>6 DEF QueueInv
<1>5. CASE CommitPost(m) \/ AbortPost(m)
  <2>1. post'[m].pc \in {"done", "failed"} /\ \A k \in Msgs \ {m} : post'[k] = post[k]
    BY <1>5 DEF CommitPost, AbortPost, TypeInv, TypeOK, IdlePost
  <2>2. \A k \in Msgs \ {m} : lockConv = k => lockConv' = k
    BY <1>5, ReleaseKeeps DEF CommitPost, AbortPost
  <2>3. PostLock'
    BY <2>1, <2>2 DEF QueueInv, PostLock, Handling
  <2>4. CASE AbortPost(m)
    <3>1. run' = run
      BY <2>4 DEF AbortPost, rows
    <3> QED BY <2>1, <2>3, <3>1
            DEF QueueInv, MergeSeesQueued, AtMostOneQueued, Handling
  <2>5. CASE CommitPost(m) /\ post[m].conv # "pending"
    <3>1. \A r \in Runs : run'[r].st = "queued" => run[r].st = "queued"
      BY <2>5 DEF CommitPost, TypeInv, TypeOK, Rows
    <3> QED BY <2>1, <2>3, <3>1
            DEF QueueInv, MergeSeesQueued, AtMostOneQueued, Handling
  <2>6. CASE CommitPost(m) /\ post[m].conv = "pending"
    <3>1. Handling(m) /\ \A k \in Msgs \ {m} : ~Handling(k)
      BY <2>6 DEF CommitPost, Handling, QueueInv, PostLock
    <3>2. \A r \in Runs : run[r].st = "queued" => r \in post[m].merged
      BY <2>6, <3>1 DEF QueueInv, MergeSeesQueued
    <3>3. \A r \in Runs : run'[r].st = "queued" => r = m
      BY <2>6, <3>2 DEF CommitPost, TypeInv, TypeOK, Rows
    <3>4. MergeSeesQueued'
      BY <2>1, <3>1 DEF MergeSeesQueued, Handling
    <3>5. AtMostOneQueued'
      BY <3>3 DEF AtMostOneQueued
    <3> QED BY <2>3, <3>4, <3>5 DEF QueueInv
  <2> QED BY <1>5, <2>4, <2>5, <2>6
<1> QED BY <1>2, <1>3, <1>4, <1>5 DEF PostStep

LEMMA OthersKeepQueue ==
    ASSUME TypeInv, QueueInv, \/ \E s \in HandStatuses : SetStatus(s)
                              \/ \E r \in Runs : Reap(r)
                              \/ BreakDeadlock
                              \/ UNCHANGED vars
    PROVE  QueueInv'
<1>1. CASE \/ \E s \in HandStatuses : SetStatus(s)
           \/ \E r \in Runs : Reap(r)
           \/ UNCHANGED vars
  <2>1. run' = run /\ lockConv' = lockConv /\ post' = post
    BY <1>1 DEF SetStatus, Reap, vars, rows, locks, txns
  <2> QED BY <2>1, OthersQueueNothing
<1>2. CASE BreakDeadlock
  <2>1. PICK t \in Workers \cup Callers, m \in Msgs :
           \/ AbortPost(m)
           \/ t \in Workers /\ RollBack(t)
           \/ t \in Callers /\ AbortCall(t)
    BY <1>2 DEF BreakDeadlock
  <2>2. CASE (t \in Workers /\ RollBack(t)) \/ (t \in Callers /\ AbortCall(t))
    <3>1. Release(t) /\ run' = run /\ post' = post
      BY <2>2 DEF RollBack, AbortCall, rows
    <3> QED BY <3>1, TxnsDiffer, ReleaseKeeps, OthersQueueNothing
  <2> QED BY <2>1, <2>2, PostsQueueOne
<1> QED BY <1>1, <1>2

LEMMA QueueStep == TypeInv /\ QueueInv /\ [Next]_vars => QueueInv'
<1> SUFFICES ASSUME TypeInv, QueueInv, [Next]_vars PROVE QueueInv'
    OBVIOUS
<1> QED BY WorkersQueueNothing, CallersQueueNothing, PostsQueueOne, OthersKeepQueue
        DEF Next

\* However messages, deliveries and retries interleave, a thread never has
\* two queued runs: a newer message has always taken over the older run.
THEOREM OneQueuedRun == Spec => []AtMostOneQueued
<1>1. Init => TypeInv /\ QueueInv
  <2>1. Init => QueueInv
    BY DEF Init, QueueInv, PostLock, MergeSeesQueued, AtMostOneQueued, Handling,
           IdlePost, NoRow
  <2> QED BY <2>1, InitTypeInv
<1>2. TypeInv /\ QueueInv /\ [Next]_vars => TypeInv' /\ QueueInv'
  BY StepTypes, QueueStep
<1>3. QueueInv => AtMostOneQueued
  BY DEF QueueInv
<1> QED BY <1>1, <1>2, <1>3, PTL DEF Spec

(***************************************************************************)
(* Approved tools.                                                         *)
(***************************************************************************)
EffectStep == \A r \in Runs, o \in Ops :
    effect'[r][o] > effect[r][o] => approval[r][o] = "approved"

LEMMA EffectByApproval ==
    ASSUME TypeInv, NEW w \in Workers, RunApproved(w) PROVE EffectStep
<1> DEFINE q == work[w].r
           p == work[w].pend.op
<1>1. approval[q][p] = "approved"
  BY DEF RunApproved, Decision
<1>2. effect' = [effect EXCEPT ![q][p] = UpTo2(@ + 1)]
  BY DEF RunApproved
<1>3. effect \in [Runs -> [Ops -> 0..2]]
  BY DEF TypeInv, TypeOK
<1>4. ASSUME NEW r \in Runs, NEW o \in Ops, r # q \/ o # p
      PROVE  effect'[r][o] = effect[r][o]
  BY <1>2, <1>3, <1>4
<1>5. ASSUME NEW r \in Runs, NEW o \in Ops, effect'[r][o] > effect[r][o]
      PROVE  approval[r][o] = "approved"
  <2>1. effect[r][o] \in 0..2
    BY <1>3
  <2>2. effect'[r][o] # effect[r][o]
    BY <1>5, <2>1
  <2> QED BY <1>1, <1>4, <2>2
<1> QED BY <1>5 DEF EffectStep

LEMMA NoEffect == ASSUME TypeInv, UNCHANGED effect PROVE EffectStep
<1>1. \A r \in Runs, o \in Ops : effect[r][o] \in 0..2
  BY DEF TypeInv, TypeOK
<1> QED BY <1>1 DEF EffectStep

LEMMA EffectSteps == TypeInv /\ [Next]_vars => EffectStep
<1> SUFFICES ASSUME TypeInv, [Next]_vars PROVE EffectStep
    OBVIOUS
<1>1. ASSUME NEW w \in Workers, WorkerStep(w) \/ ProviderRetryable(w) \/ Crash(w)
      PROVE  RunApproved(w) \/ UNCHANGED effect
  BY <1>1 DEF WorkerStep, ProviderRetryable, Crash, PickupNothing, PickupRun, Claim,
     ResumeNotReady, RollBack, ResumeWithAnswer, ToolCall, PauseForApproval,
     PauseForClient, Pause, FinalReply, Fallback, ProviderFails, LockConversation, Commit
<1>2. ASSUME NEW m \in Msgs, PostBegin(m) \/ PostStep(m) PROVE UNCHANGED effect
  BY <1>2 DEF PostBegin, PostStep, PostMessage, MergeAndQueue, CommitPost
<1>3. ASSUME NEW c \in Callers, \/ Decide(c) \/ SubmitResult(c) \/ TourStarted(c)
                                \/ Sweep(c) \/ TourEnded(c) \/ CallStep(c)
      PROVE  UNCHANGED effect
  BY <1>3 DEF Decide, SubmitResult, TourStarted, Sweep, TourEnded, Begin, CallStep,
     Write, MirrorTour, CommitCall
<1>4. ASSUME \/ \E s \in HandStatuses : SetStatus(s)
             \/ \E r \in Runs : Reap(r)
             \/ BreakDeadlock
             \/ UNCHANGED vars
      PROVE  UNCHANGED effect
  BY <1>4 DEF SetStatus, Reap, BreakDeadlock, AbortPost, RollBack, AbortCall, vars
<1> QED BY <1>1, <1>2, <1>3, <1>4, EffectByApproval, NoEffect DEF Next

\* No execution runs a gated tool for an operation whose request is not, at
\* that moment, recorded as approved.
THEOREM ApprovedBeforeRun == Spec => EffectNeedsApproval
<1>1. Init => TypeInv
  BY InitTypeInv
<1>2. TypeInv /\ [Next]_vars => TypeInv'
  BY StepTypes
<1>3. TypeInv /\ [Next]_vars => [EffectStep]_vars
  BY EffectSteps
<1> QED BY <1>1, <1>2, <1>3, PTL DEF Spec, EffectNeedsApproval, EffectStep
-----------------------------------------------------------------------------
(* Deliveries executed one after another, as InProcessQueue.drain executes *)
(* them: for any number of messages, requests, operations and attempts,    *)
(* but one worker.                                                         *)

OneWorker == \A v, w \in Workers : v = w

Busy(w) == work[w].pc # "idle"
Over(m) == post[m].pc \in {"done", "failed"}

\* A run that was executed as far as a pause or a reply.
HadTurn(r) == Parked(r) \/ run[r].replies > 0

\* Messages get hold of the conversation row in their order, and keep it
\* until they are over: a run appears when no later one has.
InOrder ==
    /\ \A m, k \in Msgs : post[m].pc # "idle" /\ k < m => post[k].pc # "idle"
    /\ \A m, k \in Msgs : (Handling(m) \/ Over(m)) /\ k < m => Over(k)
    /\ \A m \in Msgs : run[m].st # "none" => post[m].pc = "done"
    /\ \A c \in Callers : call[c].kind = "settle" => run[call[c].r].st # "none"

\* A run replies as it ends, holding the conversation row that a message
\* holds to merge it: neither happens to a run to which the other did.
RepliesOK ==
    /\ \A r \in Runs : /\ run[r].replies <= 1
                       /\ run[r].replies > 0 => run[r].st \in Terminal
    /\ \A w \in Workers : Busy(w) => /\ run[work[w].r].st # "none"
                                     /\ run[work[w].r].replies = 0
    /\ \A w \in Workers : work[w].said = 1 =>
           /\ work[w].st \in {"completed", "handed_off"}
           /\ work[w].pc = "commit" => lockConv = w
    /\ \A m \in Msgs : Handling(m) =>
           \A r \in post[m].merged : run[r].st # "none" /\ run[r].replies = 0
    /\ MergedNeverReplied

\* Once a run had its turn, no earlier one is left that could have one; the
\* run that is executed has its turn, whether or not that is committed.
TurnsOK ==
    /\ \A r \in Runs : HadTurn(r) => ~EarlierActive(r)
    /\ \A w \in Workers : Busy(w) =>
           /\ ~EarlierActive(work[w].r)
           /\ \A r \in Runs : r > work[w].r => ~HadTurn(r)

TurnInv == InOrder /\ RepliesOK /\ TurnsOK

\* A worker that goes on with the run it had, or gives it up, and commits
\* nothing.
LEMMA WorkerGoesOn ==
    ASSUME TypeInv, TurnInv, NEW w \in Workers, NEW k,
           work' = [work EXCEPT ![w] = k],
           k.pc # "idle" => Busy(w) /\ k.r = work[w].r,
           k.said = 1 => /\ k.st \in {"completed", "handed_off"}
                         /\ k.pc = "commit" => lockConv' = w,
           \A v \in Workers : v # w /\ lockConv = v => lockConv' = v,
           run' = run, post' = post, call' = call
    PROVE  TurnInv'
<1>1. work'[w] = k /\ \A v \in Workers \ {w} : work'[v] = work[v]
  BY DEF TypeInv, TypeOK
<1>2. InOrder'
  BY DEF TurnInv, InOrder, Handling, Over
<1>3. RepliesOK'
  <2>1. \A v \in Workers : work'[v].pc # "idle" =>
           run[work'[v].r].st # "none" /\ run[work'[v].r].replies = 0
    BY <1>1 DEF TurnInv, RepliesOK, Busy
  <2>2. \A v \in Workers : work'[v].said = 1 =>
           /\ work'[v].st \in {"completed", "handed_off"}
           /\ work'[v].pc = "commit" => lockConv' = v
    BY <1>1 DEF TurnInv, RepliesOK
  <2> QED BY <2>1, <2>2 DEF TurnInv, RepliesOK, Busy, Handling, MergedNeverReplied
<1>4. TurnsOK'
  <2>1. \A v \in Workers : work'[v].pc # "idle" =>
           work[v].pc # "idle" /\ work'[v].r = work[v].r
    BY <1>1 DEF Busy
  <2> QED BY <2>1 DEF TurnInv, TurnsOK, Busy, EarlierActive, HadTurn, Parked
<1> QED BY <1>2, <1>3, <1>4 DEF TurnInv

\* A step that is no worker's and no message's, and commits no run.
LEMMA OthersGoOn ==
    ASSUME TurnInv, run' = run, post' = post, work' = work,
           \A c \in Callers : call'[c].kind = "settle" => run[call'[c].r].st # "none",
           \A w \in Workers : lockConv = w => lockConv' = w
    PROVE  TurnInv'
<1>1. InOrder'
  BY DEF TurnInv, InOrder, Handling, Over
<1>2. RepliesOK'
  BY DEF TurnInv, RepliesOK, Busy, Handling, MergedNeverReplied
<1>3. TurnsOK'
  BY DEF TurnInv, TurnsOK, Busy, EarlierActive, HadTurn, Parked
<1> QED BY <1>1, <1>2, <1>3 DEF TurnInv

\* A record that differs from k neither in its run nor in what it says.
LEMMA WorkerStays ==
    ASSUME TypeInv, TurnInv, NEW w \in Workers, NEW k,
           work' = [work EXCEPT ![w] = k], Busy(w),
           k.r = work[w].r, k.said = work[w].said, k.said # 1,
           UNCHANGED <<run, post, call, lockConv>>
    PROVE  TurnInv'
BY WorkerGoesOn

\* Only the end of an execution, which waits for the conversation row or
\* holds it, says something.
LEMMA SaysNothing ==
    ASSUME TypeInv, TurnInv, NEW w \in Workers, work[w].said = 1
    PROVE  work[w].pc \in {"idle", "lockconv", "commit"}
BY DEF TypeInv, WorkOK, TypeOK, WorkRecs, TurnInv, RepliesOK, Terminal

LEMMA ReleaseOthers ==
    ASSUME NEW t, NEW u, t # u, Release(t), lockConv = u
    PROVE  lockConv' = u
BY DEF Release

LEMMA GivesUp ==
    ASSUME TypeInv, TurnInv, NEW w \in Workers, Release(w),
           work' = [work EXCEPT ![w] = IdleWork], UNCHANGED <<run, post, call>>
    PROVE  TurnInv'
<1>1. \A v \in Workers : v # w /\ lockConv = v => lockConv' = v
  BY ReleaseOthers
<1>2. IdleWork.pc = "idle" /\ IdleWork.said # 1
  BY DEF IdleWork
<1> QED BY <1>1, <1>2, WorkerGoesOn

\* Between its pick-up and its commit a worker only moves on in its run.
LEMMA ClaimTurn == ASSUME TypeInv, TurnInv, NEW w \in Workers, Claim(w) PROVE TurnInv'
<1> DEFINE k == [work[w] EXCEPT !.pc =
         IF work[w].st = "canceled" THEN "commit"
         ELSE IF work[w].pend.kind = "none" THEN "llm" ELSE "resume"]
<1>1. work' = [work EXCEPT ![w] = k]
  BY DEF Claim, TypeInv, TypeOK
<1>2. k.r = work[w].r /\ k.said = work[w].said
  BY DEF TypeInv, TypeOK, WorkRecs
<1>3. Busy(w) /\ work[w].said # 1
  BY SaysNothing DEF Claim, Busy
<1>4. UNCHANGED <<run, post, call, lockConv>>
  BY DEF Claim, rows
<1> HIDE DEF k
<1> QED BY <1>1, <1>2, <1>3, <1>4, WorkerStays

LEMMA ContinuationTurn ==
    ASSUME TypeInv, TurnInv, NEW w \in Workers, NEW k \in WorkRecs, NEW n \in Continuations(k),
           work' = [work EXCEPT ![w] = n], Busy(w), k.pc = "llm",
           k.r = work[w].r, k.said # 1,
           UNCHANGED <<run, post, call, lockConv>>
    PROVE  TurnInv'
<1>1. CASE n = k \/ n = [k EXCEPT !.pc = "lockconv"]
  <2>1. n.r = k.r /\ n.said = k.said /\ n.pc \in {"llm", "lockconv"}
    BY <1>1 DEF WorkRecs
  <2> QED BY <2>1, WorkerGoesOn
<1>2. ASSUME NEW st \in {"completed", "handed_off"}, NEW said, NEW c, n = Ended(k, st, said, c)
      PROVE  TurnInv'
  <2>1. n.r = k.r /\ n.st = st /\ n.pc = "lockconv"
    BY <1>2 DEF Ended, WorkRecs
  <2> QED BY <1>2, <2>1, WorkerGoesOn
<1> QED BY <1>1, <1>2 DEF Continuations, ControlEndings

LEMMA RunsOnTurn ==
    ASSUME TypeInv, TurnInv, NEW w \in Workers,
           ResumeWithAnswer(w) \/ RunApproved(w) \/ ToolCall(w)
    PROVE  TurnInv'
<1> DEFINE done == [work[w] EXCEPT !.pc = "llm", !.pend = NoCall,
                          !.used = work[w].used + 1, !.ran = work[w].ran + 1]
           called == [work[w] EXCEPT !.used = work[w].used + 1, !.ran = work[w].ran + 1]
           disabled == [work[w] EXCEPT !.used = work[w].used + 1]
           answered == [work[w] EXCEPT !.pc = "llm", !.pend = NoCall]
<1>1. work[w] \in WorkRecs /\ work[w].used + 1 \in Nat /\ work[w].ran + 1 \in Nat
  BY DEF TypeInv, TypeOK, WorkRecs
<1>2. Busy(w) /\ work[w].said # 1 /\ UNCHANGED <<run, post, call, lockConv>>
  BY SaysNothing DEF ResumeWithAnswer, RunApproved, ToolCall, Busy, rows, locks
<1>3. CASE ResumeWithAnswer(w)
  <2>1. work' = [work EXCEPT ![w] = answered]
    BY <1>3 DEF ResumeWithAnswer, TypeInv, TypeOK
  <2>2. answered.r = work[w].r /\ answered.said = work[w].said
    BY <1>1 DEF WorkRecs
  <2> HIDE DEF answered
  <2> QED BY <1>2, <2>1, <2>2, WorkerStays
<1>4. CASE RunApproved(w)
  <2>1. PICK n \in Continuations(done) : work' = [work EXCEPT ![w] = n]
    BY <1>4 DEF RunApproved
  <2>2. done \in WorkRecs /\ done.pc = "llm" /\ done.r = work[w].r /\ done.said # 1
    BY <1>1, <1>2, CallTypes DEF WorkRecs
  <2> HIDE DEF done
  <2> QED BY <1>2, <2>1, <2>2, ContinuationTurn
<1>5. CASE ToolCall(w)
  <2>1. PICK n \in {disabled} \cup Continuations(called) : work' = [work EXCEPT ![w] = n]
    BY <1>5 DEF ToolCall
  <2>2. /\ called \in WorkRecs /\ called.pc = "llm"
        /\ called.r = work[w].r /\ called.said # 1
    BY <1>1, <1>2, <1>5 DEF WorkRecs, ToolCall
  <2>3. disabled.r = work[w].r /\ disabled.said = work[w].said
    BY <1>1 DEF WorkRecs
  <2> HIDE DEF called, disabled
  <2>4. CASE n = disabled
    BY <1>2, <2>1, <2>3, <2>4, WorkerStays
  <2>5. CASE n \in Continuations(called)
    BY <1>2, <2>1, <2>2, <2>5, ContinuationTurn
  <2> QED BY <2>1, <2>4, <2>5
<1> QED BY <1>3, <1>4, <1>5

LEMMA PauseTurn ==
    ASSUME TypeInv, TurnInv, NEW w \in Workers, NEW kind, NEW st, NEW pc, Pause(w, kind, st, pc)
    PROVE  TurnInv'
<1>1. PICK o \in Ops : work' = [work EXCEPT ![w] =
              [work[w] EXCEPT !.pc = pc, !.st = st, !.op = o,
                        !.pend = [kind |-> kind, op |-> o, res |-> "none"]]]
  BY DEF Pause
<1> DEFINE k == [work[w] EXCEPT !.pc = pc, !.st = st, !.op = o,
                        !.pend = [kind |-> kind, op |-> o, res |-> "none"]]
<1>2. k.r = work[w].r /\ k.said = work[w].said
  BY DEF TypeInv, TypeOK, WorkRecs
<1>3. Busy(w) /\ work[w].said # 1 /\ UNCHANGED <<run, post, call, lockConv>>
  BY SaysNothing DEF Pause, Busy, rows, locks
<1>4. work' = [work EXCEPT ![w] = k]
  BY <1>1
<1> HIDE DEF k
<1> QED BY <1>2, <1>3, <1>4, WorkerStays

LEMMA EndingTurn ==
    ASSUME TypeInv, TurnInv, NEW w \in Workers,
           FinalReply(w) \/ Fallback(w) \/ ProviderFails(w)
    PROVE  TurnInv'
<1>1. work[w] \in WorkRecs /\ work[w].said # 1
  BY SaysNothing DEF FinalReply, Fallback, ProviderFails, TypeInv, TypeOK
<1>2. Busy(w) /\ UNCHANGED <<run, post, call, lockConv>>
  BY DEF FinalReply, Fallback, ProviderFails, Busy, rows, locks
<1>3. ASSUME NEW st, NEW said, NEW cset, said = 1 => st \in {"completed", "handed_off"},
             work' = [work EXCEPT ![w] = Ended(work[w], st, said, cset)]
      PROVE  TurnInv'
  <2> DEFINE k == Ended(work[w], st, said, cset)
  <2>1. k.r = work[w].r /\ k.said = said /\ k.st = st /\ k.pc = "lockconv"
    BY <1>1 DEF Ended, WorkRecs
  <2>2. work' = [work EXCEPT ![w] = k]
    BY <1>3
  <2> HIDE DEF k
  <2> QED BY <1>2, <1>3, <2>1, <2>2, WorkerGoesOn
<1>4. CASE FinalReply(w)
  BY <1>3, <1>4 DEF FinalReply
<1>5. CASE Fallback(w)
  BY <1>3, <1>5 DEF Fallback
<1>6. CASE ProviderFails(w) /\ work[w].conv = "pending"
  BY <1>3, <1>6 DEF ProviderFails
<1>7. CASE ProviderFails(w) /\ work[w].conv # "pending"
  <2> DEFINE k == [work[w] EXCEPT !.pc = "commit", !.st = "failed"]
  <2>1. work' = [work EXCEPT ![w] = k]
    BY <1>7 DEF ProviderFails
  <2>2. k.r = work[w].r /\ k.said = work[w].said
    BY <1>1 DEF WorkRecs
  <2> HIDE DEF k
  <2> QED BY <1>1, <1>2, <2>1, <2>2, WorkerStays
<1> QED BY <1>4, <1>5, <1>6, <1>7

LEMMA LockTurn ==
    ASSUME TypeInv, TurnInv, NEW w \in Workers, LockConversation(w) PROVE TurnInv'
<1> DEFINE k == [work[w] EXCEPT !.pc = IF work[w].st = "running" THEN "llm" ELSE "commit"]
<1>1. work' = [work EXCEPT ![w] = k]
  BY DEF LockConversation, TypeInv, TypeOK
<1>2. k.r = work[w].r /\ k.said = work[w].said /\ k.st = work[w].st
  BY DEF TypeInv, TypeOK, WorkRecs
<1>3. Busy(w) /\ lockConv' = w /\ lockConv \in {None, w}
  BY DEF LockConversation, Busy
<1>4. k.said = 1 => k.st \in {"completed", "handed_off"}
  BY <1>2 DEF TurnInv, RepliesOK
<1>5. \A v \in Workers : v # w => lockConv # v
  BY <1>3, NoneIsFresh DEF Txns
<1>6. UNCHANGED <<run, post, call>>
  BY DEF LockConversation, rows
<1> HIDE DEF k
<1> QED BY <1>1, <1>2, <1>3, <1>4, <1>5, <1>6, WorkerGoesOn

\* A run that can be picked up comes before every run that had its turn.
LEMMA PickupTurn ==
    ASSUME TypeInv, TurnInv, NEW w \in Workers, PickupRun(w) PROVE TurnInv'
<1>1. PICK j \in jobs : PickupRun(w)!2!(j)
  BY DEF PickupRun
<1> DEFINE r == j[1]
           k == [IdleWork EXCEPT !.pc = "claim", !.r = r, !.att = j[2],
                 !.conv = conv, !.was = run[r].pend, !.pend = run[r].pend,
                 !.st = IF run[r].st = "queued" /\ conv # "pending"
                        THEN "canceled" ELSE "running",
                 !.used = run[r].calls]
<1>2. r \in Runs /\ run[r].st \in Active
  BY <1>1 DEF TypeInv, TypeOK
<1>3. work' = [work EXCEPT ![w] = k]
  BY <1>1
<1>4. k.r = r /\ k.said # 1
  BY DEF IdleWork
<1> HIDE DEF k
<1>5. UNCHANGED <<run, post, call, lockConv>>
  BY DEF PickupRun, rows, locks
<1>6. ~EarlierActive(r)
  <2>1. CASE run[r].st = "queued"
    BY <1>1, <2>1
  <2>2. CASE run[r].st # "queued"
    BY <1>2, <2>2 DEF Active, TurnInv, TurnsOK, HadTurn, Parked
  <2> QED BY <2>1, <2>2
<1>7. \A s \in Runs : s > r => ~HadTurn(s)
  BY <1>2 DEF TurnInv, TurnsOK, EarlierActive, Runs, Msgs
<1>8. run[r].st # "none" /\ run[r].replies = 0
  <2>1. run[r].replies \in 0..2 /\ run[r].st \notin Terminal
    BY <1>2 DEF TypeInv, TypeOK, Rows, Active, Terminal
  <2>2. ~(run[r].replies > 0)
    BY <1>2, <2>1 DEF TurnInv, RepliesOK
  <2> QED BY <1>2, <2>1, <2>2 DEF Active
<1>9. work'[w] = k /\ \A v \in Workers \ {w} : work'[v] = work[v]
  BY <1>3 DEF TypeInv, TypeOK
<1>10. InOrder'
  BY <1>5 DEF TurnInv, InOrder, Handling, Over
<1>11. RepliesOK'
  <2>1. \A v \in Workers : work'[v].pc # "idle" =>
           run[work'[v].r].st # "none" /\ run[work'[v].r].replies = 0
    BY <1>4, <1>8, <1>9 DEF TurnInv, RepliesOK, Busy
  <2>2. \A v \in Workers : work'[v].said = 1 =>
           /\ work'[v].st \in {"completed", "handed_off"}
           /\ work'[v].pc = "commit" => lockConv = v
    BY <1>4, <1>9 DEF TurnInv, RepliesOK
  <2> QED BY <1>5, <2>1, <2>2 DEF TurnInv, RepliesOK, Busy, Handling, MergedNeverReplied
<1>12. TurnsOK'
  <2>1. \A v \in Workers : work'[v].pc # "idle" =>
           /\ ~EarlierActive(work'[v].r)
           /\ \A s \in Runs : s > work'[v].r => ~HadTurn(s)
    BY <1>4, <1>6, <1>7, <1>9 DEF TurnInv, TurnsOK, Busy
  <2>2. (\A s \in Runs : HadTurn(s) => ~EarlierActive(s))'
    BY <1>5 DEF TurnInv, TurnsOK, HadTurn, Parked, EarlierActive
  <2> QED BY <1>5, <2>1, <2>2 DEF TurnsOK, Busy, HadTurn, Parked, EarlierActive
<1> QED BY <1>10, <1>11, <1>12 DEF TurnInv

\* What a commit does to the rows.
LEMMA CommitRows ==
    ASSUME TypeInv, TurnInv, NEW w \in Workers, Commit(w)
    PROVE  /\ work[w].r \in Runs /\ work[w].st \in Terminal \cup Parks
           /\ run'[work[w].r].st = work[w].st
           /\ run'[work[w].r].replies = work[w].said /\ work[w].said \in {0, 1}
           /\ \A r \in Runs : r # work[w].r => run'[r] = run[r]
<1>1. work[w] \in WorkRecs /\ run \in [Runs -> Rows]
  BY DEF TypeInv, TypeOK
<1>2. work[w].r \in Runs /\ work[w].said \in {0, 1}
  BY <1>1 DEF WorkRecs
<1>3. run[work[w].r].replies = 0
  BY DEF Commit, TurnInv, RepliesOK, Busy
<1>4. UpTo2(0 + work[w].said) = work[w].said
  BY <1>2 DEF UpTo2
<1>5. work[w].st \in Terminal \cup Parks
  BY DEF Commit, TypeInv, WorkOK
<1> QED BY <1>1, <1>2, <1>3, <1>4, <1>5 DEF Commit

LEMMA CommitTurn ==
    ASSUME OneWorker, TypeInv, QueueInv, TurnInv, NEW w \in Workers, Commit(w)
    PROVE  TurnInv'
<1> DEFINE q == work[w].r
           said == work[w].said
           st == work[w].st
<1>1. /\ q \in Runs /\ st \in Terminal \cup Parks /\ said \in {0, 1}
      /\ run'[q].st = st /\ run'[q].replies = said
      /\ \A r \in Runs : r # q => run'[r] = run[r]
  BY CommitRows
<1>2. /\ Busy(w) /\ run[q].st # "none" /\ st # "none"
      /\ said = 1 => st \in {"completed", "handed_off"} /\ lockConv = w
  BY <1>1 DEF Commit, Busy, TurnInv, RepliesOK, Terminal, Parks
<1>3. ~EarlierActive(q) /\ \A r \in Runs : r > q => ~HadTurn(r)
  BY <1>2 DEF TurnInv, TurnsOK
<1>4. work'[w] = IdleWork /\ \A v \in Workers : v = w
  BY DEF Commit, TypeInv, TypeOK, OneWorker
<1>5. post' = post /\ call' = call
  BY DEF Commit
<1> HIDE DEF q, said, st
<1>6. InOrder'
  <2>1. \A r \in Runs : run'[r].st # "none" <=> run[r].st # "none"
    BY <1>1, <1>2
  <2>2. \A c \in Callers : call[c].r \in Runs
    BY DEF TypeInv, TypeOK, CallRecs
  <2> QED BY <1>5, <2>1, <2>2 DEF TurnInv, InOrder, Handling, Over, Runs
<1>7. RepliesOK'
  <2>1. \A r \in Runs : /\ run'[r].replies <= 1
                        /\ run'[r].replies > 0 => run'[r].st \in Terminal
    BY <1>1, <1>2 DEF TurnInv, RepliesOK, Terminal
  <2>2. \A m \in Msgs : Handling(m) =>
           \A r \in post[m].merged : run'[r].st # "none" /\ run'[r].replies = 0
    <3> SUFFICES ASSUME NEW m \in Msgs, Handling(m), NEW r \in post[m].merged
                 PROVE  run'[r].st # "none" /\ run'[r].replies = 0
      OBVIOUS
    <3>1. r \in Runs
      BY DEF TypeInv, TypeOK, PostRecs
    <3>2. lockConv # w
      BY TxnsDiffer DEF QueueInv, PostLock
    <3>3. run[r].st # "none" /\ run[r].replies = 0
      BY DEF TurnInv, RepliesOK
    <3> QED BY <1>1, <1>2, <3>1, <3>2, <3>3
  <2>3. (MergedNeverReplied)'
    BY <1>1, <1>2 DEF TurnInv, RepliesOK, MergedNeverReplied
  <2> QED BY <1>4, <1>5, <2>1, <2>2, <2>3 DEF RepliesOK, Busy, Handling, IdleWork
<1>8. TurnsOK'
  <2>1. ASSUME NEW r \in Runs, HadTurn(r)' PROVE ~EarlierActive(r)'
    <3>1. r \in Nat /\ q \in Nat /\ \A e \in Runs : e \in Nat
      BY <1>1, CallTypes
    <3>2. CASE r = q
      BY <1>1, <1>3, <3>1, <3>2 DEF EarlierActive
    <3>3. CASE r # q
      <4>1. HadTurn(r)
        BY <1>1, <2>1, <3>3 DEF HadTurn, Parked
      <4>2. ~EarlierActive(r) /\ ~(r > q)
        BY <1>3, <4>1 DEF TurnInv, TurnsOK
      <4> QED BY <1>1, <3>1, <3>3, <4>2 DEF EarlierActive
    <3> QED BY <3>2, <3>3
  <2> QED BY <1>4, <2>1 DEF TurnsOK, Busy, IdleWork
<1> QED BY <1>6, <1>7, <1>8 DEF TurnInv

LEMMA WorkerTurns ==
    ASSUME OneWorker, TypeInv, QueueInv, TurnInv, NEW w \in Workers,
           WorkerStep(w) \/ ProviderRetryable(w) \/ Crash(w)
    PROVE  TurnInv'
<1>1. CASE PickupNothing(w)
  <2>1. UNCHANGED <<run, post, work, call, lockConv>>
    BY <1>1 DEF PickupNothing, rows, locks, txns
  <2> QED BY <2>1, OthersGoOn DEF TurnInv, InOrder
<1>2. CASE ResumeNotReady(w) \/ ProviderRetryable(w) \/ Crash(w)
  <2>1. /\ Release(w) /\ work' = [work EXCEPT ![w] = IdleWork]
        /\ UNCHANGED <<run, post, call>>
    BY <1>2 DEF ResumeNotReady, ProviderRetryable, Crash, RollBack, rows
  <2> QED BY <2>1, GivesUp
<1>3. CASE PauseForApproval(w) \/ PauseForClient(w)
  BY <1>3, PauseTurn DEF PauseForApproval, PauseForClient
<1> QED BY <1>1, <1>2, <1>3, PickupTurn, ClaimTurn, RunsOnTurn, EndingTurn, LockTurn,
           CommitTurn DEF WorkerStep

\* A message that touches no run.
LEMMA PostRows ==
    ASSUME TypeInv, QueueInv, TurnInv, NEW m \in Msgs,
           PostBegin(m) \/ PostMessage(m) \/ MergeAndQueue(m) \/ (Handling(m) /\ AbortPost(m))
    PROVE  TurnInv'
<1>1. /\ UNCHANGED <<run, work, call>>
      /\ \A k \in Msgs \ {m} : post'[k] = post[k]
  BY DEF PostBegin, PostMessage, MergeAndQueue, AbortPost, rows, TypeInv, TypeOK
<1>2. post[m] \in PostRecs /\ \A k \in Msgs : k \in Nat
  BY DEF TypeInv, TypeOK, Msgs
<1>3. TurnsOK'
  BY <1>1 DEF TurnInv, TurnsOK, Busy, EarlierActive, HadTurn, Parked
<1>4. CASE PostBegin(m)
  <2>1. /\ post[m].pc = "idle" /\ post'[m].pc = "lockconv"
        /\ \A k \in Msgs : k < m => post[k].pc # "idle"
        /\ lockConv' = lockConv
    BY <1>2, <1>4 DEF PostBegin, TypeInv, TypeOK, PostRecs, locks
  <2>2. InOrder'
    BY <1>1, <1>2, <2>1 DEF TurnInv, InOrder, Handling, Over, Runs
  <2>3. RepliesOK'
    BY <1>1, <2>1 DEF TurnInv, RepliesOK, Busy, Handling, MergedNeverReplied
  <2> QED BY <1>3, <2>2, <2>3 DEF TurnInv
<1>5. CASE PostMessage(m)
  <2>1. /\ post[m].pc = "lockconv" /\ post'[m].pc \in {"handle", "commit"}
        /\ \A k \in Msgs : k < m => post[k].pc # "lockconv"
        /\ \A r \in post'[m].merged : r \in Runs /\ run[r].st = "queued"
        /\ lockConv = None
    BY <1>2, <1>5 DEF PostMessage, TypeInv, TypeOK
  <2>2. \A k \in Msgs : ~Handling(k)
    BY <2>1, TxnsDiffer DEF QueueInv, PostLock
  <2>3. \A k \in Msgs : k < m => Over(k)
    BY <2>1, <2>2 DEF TurnInv, InOrder, Handling, Over, TypeInv, TypeOK, PostRecs
  <2>4. InOrder'
    BY <1>1, <1>2, <2>1, <2>3 DEF TurnInv, InOrder, Handling, Over, Runs
  <2>5. \A r \in post'[m].merged : run[r].st # "none" /\ run[r].replies = 0
    <3>1. \A r \in Runs : run[r].replies \in 0..2
      BY DEF TypeInv, TypeOK, Rows
    <3> QED BY <2>1, <3>1 DEF TurnInv, RepliesOK, Terminal
  <2>6. \A w \in Workers : lockConv # w
    BY <2>1, NoneIsFresh DEF Txns
  <2>7. RepliesOK'
    BY <1>1, <2>2, <2>5, <2>6 DEF TurnInv, RepliesOK, Busy, Handling, MergedNeverReplied
  <2> QED BY <1>3, <2>4, <2>7 DEF TurnInv
<1>6. CASE MergeAndQueue(m)
  <2>1. /\ Handling(m) /\ Handling(m)' /\ post'[m].merged = post[m].merged
        /\ post[m].pc # "done" /\ post[m].pc # "idle" /\ post'[m].pc # "idle"
        /\ ~Over(m) /\ ~Over(m)' /\ lockConv' = lockConv
    BY <1>2, <1>6 DEF MergeAndQueue, TypeInv, TypeOK, PostRecs, Handling, Over
  <2>2. InOrder'
    BY <1>1, <1>2, <2>1 DEF TurnInv, InOrder, Handling, Over, Runs
  <2>3. RepliesOK'
    BY <1>1, <2>1 DEF TurnInv, RepliesOK, Busy, Handling, MergedNeverReplied
  <2> QED BY <1>3, <2>2, <2>3 DEF TurnInv
<1>7. CASE Handling(m) /\ AbortPost(m)
  <2>1. post'[m].pc = "failed" /\ \A w \in Workers : lockConv = w => lockConv' = w
    BY <1>7, TxnsDiffer DEF AbortPost, Release, TypeInv, TypeOK
  <2>2. InOrder'
    BY <1>1, <1>2, <1>7, <2>1 DEF TurnInv, InOrder, Handling, Over, Runs
  <2>3. RepliesOK'
    BY <1>1, <2>1 DEF TurnInv, RepliesOK, Busy, Handling, MergedNeverReplied
  <2> QED BY <1>3, <2>2, <2>3 DEF TurnInv
<1> QED BY <1>4, <1>5, <1>6, <1>7

\* A new run appears behind every run there is; one that is merged has not
\* replied.
LEMMA CommitPostTurn ==
    ASSUME TypeInv, QueueInv, TurnInv, NEW m \in Msgs, CommitPost(m) PROVE TurnInv'
<1>1. /\ Handling(m) /\ ~Over(m) /\ post'[m].pc = "done" /\ UNCHANGED <<work, call>>
      /\ \A k \in Msgs \ {m} : post'[k] = post[k]
  BY DEF CommitPost, Handling, Over, TypeInv, TypeOK, IdlePost
<1>2. \A k \in Msgs \ {m} : ~Handling(k)
  BY <1>1 DEF QueueInv, PostLock
<1>3. run[m].st = "none" /\ \A r \in Runs : run[r].st # "none" => r < m
  <2>1. \A r \in Runs : r \in Msgs /\ r \in Nat
    BY DEF Runs, Msgs
  <2>2. run[m].st = "none"
    BY <1>1 DEF TurnInv, InOrder, Over
  <2>3. ASSUME NEW r \in Runs, run[r].st # "none" PROVE ~(m < r)
    BY <1>1, <2>1, <2>3 DEF TurnInv, InOrder, Over
  <2> QED BY <2>1, <2>2, <2>3 DEF Runs, Msgs
<1>4. \A r \in post[m].merged : r \in Runs /\ run[r].st # "none" /\ run[r].replies = 0
  BY <1>1 DEF TurnInv, RepliesOK, TypeInv, TypeOK, PostRecs
<1>5. /\ run'[m] = run[m] \/ run'[m] = NewRow
      /\ \A r \in Runs \ {m} : \/ run'[r] = run[r]
                               \/ /\ r \in post[m].merged
                                  /\ run'[r] = [run[r] EXCEPT !.st = "canceled"]
  BY <1>3, <1>4 DEF CommitPost, Runs
<1>6. NewRow.st = "queued" /\ NewRow.replies = 0
  BY DEF NewRow, NoRow
<1>7. \A r \in Runs \ {m} :
         /\ run'[r].replies = run[r].replies
         /\ \/ run'[r].st = run[r].st
            \/ run[r].st # "none" /\ run[r].replies = 0 /\ run'[r].st = "canceled"
  <2> SUFFICES ASSUME NEW r \in Runs \ {m}
               PROVE  /\ run'[r].replies = run[r].replies
                      /\ \/ run'[r].st = run[r].st
                         \/ /\ run[r].st # "none" /\ run[r].replies = 0
                            /\ run'[r].st = "canceled"
    OBVIOUS
  <2>1. CASE run'[r] = run[r]
    BY <2>1
  <2>2. CASE r \in post[m].merged /\ run'[r] = [run[r] EXCEPT !.st = "canceled"]
    <3>1. run[r] \in Rows
      BY DEF TypeInv, TypeOK
    <3>2. run'[r].replies = run[r].replies /\ run'[r].st = "canceled"
      BY <2>2, <3>1 DEF Rows
    <3> QED BY <1>4, <2>2, <3>2
  <2> QED BY <1>5, <2>1, <2>2
<1>8. \A r \in Runs : run[r].st # "none" => r # m /\ run'[r].st # "none"
  BY <1>3, <1>7
<1>9. ASSUME NEW r \in Runs, HadTurn(r)' PROVE HadTurn(r) /\ run[r].st # "none" /\ r < m
  <2>1. m \in Runs /\ run[m].st = "none" /\ run[m].replies \in 0..2
    BY <1>3 DEF Runs, TypeInv, TypeOK, Rows
  <2>2. run[m].replies = 0
    BY <2>1 DEF TurnInv, RepliesOK, Terminal
  <2>3. r # m
    BY <1>5, <1>6, <1>9, <2>1, <2>2 DEF HadTurn, Parked
  <2>4. HadTurn(r)
    BY <1>7, <1>9, <2>3 DEF HadTurn, Parked
  <2>5. run[r].st # "none"
    BY <2>4 DEF HadTurn, Parked, TurnInv, RepliesOK, Terminal
  <2> QED BY <1>3, <2>4, <2>5
<1>10. ASSUME NEW r \in Runs, r < m, EarlierActive(r)' PROVE EarlierActive(r)
  <2>1. PICK e \in Runs : e < r /\ run'[e].st \in Active
    BY <1>10 DEF EarlierActive
  <2>2. e # m
    BY <1>10, <2>1 DEF Runs, Msgs
  <2>3. run[e].st \in Active
    BY <1>7, <2>1, <2>2 DEF Active
  <2> QED BY <2>1, <2>3 DEF EarlierActive
<1>11. \A w \in Workers : work[w].r \in Runs
  BY DEF TypeInv, TypeOK, WorkRecs
<1>12. InOrder'
  <2>1. \A r \in Msgs : run'[r].st # "none" => post'[r].pc = "done"
    BY <1>1, <1>7 DEF TurnInv, InOrder, Runs
  <2>2. \A c \in Callers : call[c].kind = "settle" => run'[call[c].r].st # "none"
    BY <1>8 DEF TurnInv, InOrder, TypeInv, TypeOK, CallRecs
  <2>3. \A k, l \in Msgs : (Handling(k)' \/ Over(k)') /\ l < k => Over(l)'
    <3>1. \A k \in Msgs : k \in Nat
      BY DEF Msgs
    <3> QED BY <1>1, <3>1 DEF TurnInv, InOrder, Handling, Over
  <2>4. \A k, l \in Msgs : post'[k].pc # "idle" /\ l < k => post'[l].pc # "idle"
    BY <1>1 DEF TurnInv, InOrder, Handling
  <2> QED BY <1>1, <2>1, <2>2, <2>3, <2>4 DEF InOrder
<1>13. RepliesOK'
  <2>1. \A r \in Runs : /\ run'[r].replies <= 1
                        /\ run'[r].replies > 0 => run'[r].st \in Terminal
    <3>1. m \in Runs
      BY DEF Runs
    <3> QED BY <1>5, <1>6, <1>7, <3>1 DEF TurnInv, RepliesOK, Terminal
  <2>2. \A w \in Workers : Busy(w) =>
           run'[work[w].r].st # "none" /\ run'[work[w].r].replies = 0
    BY <1>7, <1>8, <1>11 DEF TurnInv, RepliesOK
  <2>3. \A w \in Workers : lockConv = w => lockConv' = w
    BY TxnsDiffer DEF CommitPost, Release
  <2>4. \A w \in Workers : work[w].said = 1 =>
           /\ work[w].st \in {"completed", "handed_off"}
           /\ work[w].pc = "commit" => lockConv' = w
    BY <2>3 DEF TurnInv, RepliesOK
  <2>5. \A k \in Msgs : ~Handling(k)'
    BY <1>1, <1>2 DEF Handling
  <2>6. \A r \in Runs : run'[r].st = "canceled" => run'[r].replies = 0
    BY <1>3, <1>5, <1>6, <1>7 DEF TurnInv, RepliesOK, MergedNeverReplied
  <2> QED BY <1>1, <2>1, <2>2, <2>4, <2>5, <2>6 DEF RepliesOK, Busy, MergedNeverReplied
<1>14. TurnsOK'
  <2>1. \A r \in Runs : HadTurn(r)' => ~EarlierActive(r)'
    BY <1>9, <1>10 DEF TurnInv, TurnsOK
  <2>2. ASSUME NEW w \in Workers, Busy(w)
        PROVE  /\ ~(\E e \in Runs : e < work[w].r /\ run'[e].st \in Active)
               /\ \A r \in Runs : r > work[w].r => ~HadTurn(r)'
    <3>1. work[w].r \in Runs /\ work[w].r < m
      BY <1>3, <1>11, <2>2 DEF TurnInv, RepliesOK
    <3>2. ~EarlierActive(work[w].r) /\ \A r \in Runs : r > work[w].r => ~HadTurn(r)
      BY <2>2 DEF TurnInv, TurnsOK
    <3>3. \A e \in Runs : e < work[w].r => e # m
      BY <3>1 DEF Runs, Msgs
    <3>4. \A e \in Runs : e < work[w].r => run'[e].st \notin Active
      BY <1>7, <3>2, <3>3 DEF EarlierActive, Active
    <3> QED BY <1>9, <3>2, <3>4
  <2> QED BY <1>1, <2>1, <2>2 DEF TurnsOK, Busy, EarlierActive
<1> QED BY <1>12, <1>13, <1>14 DEF TurnInv

LEMMA CallerTurns ==
    ASSUME TypeInv, TurnInv, NEW c \in Callers,
           \/ Decide(c) \/ SubmitResult(c) \/ TourStarted(c) \/ Sweep(c) \/ TourEnded(c)
           \/ Write(c) \/ MirrorTour(c) \/ AbortCall(c)
    PROVE  TurnInv'
<1>1. UNCHANGED <<run, post, work>>
  BY DEF Decide, SubmitResult, TourStarted, Sweep, TourEnded, Begin, Write, MirrorTour,
         AbortCall, rows
<1>2. \A d \in Callers \ {c} : call'[d] = call[d]
  BY DEF Decide, SubmitResult, TourStarted, Sweep, TourEnded, Begin, Write, MirrorTour,
         AbortCall, TypeInv, TypeOK
<1>3. call'[c].kind = "settle" => run[call'[c].r].st # "none"
  <2>1. CASE Decide(c) \/ SubmitResult(c) \/ TourStarted(c) \/ Sweep(c) \/ TourEnded(c)
    <3>1. PICK kind, r, op, val :
             /\ kind \in {"decide", "answer", "started", "settle"} /\ r \in Runs
             /\ Begin(c, kind, r, op, val)
             /\ kind = "settle" => ParkedOnPage(r)
      BY <2>1 DEF Decide, SubmitResult, TourStarted, Sweep, TourEnded, Unanswered
    <3>2. call'[c].kind = kind /\ call'[c].r = r
      BY <3>1 DEF Begin, TypeInv, TypeOK
    <3> QED BY <3>1, <3>2 DEF ParkedOnPage
  <2>2. CASE Write(c) \/ MirrorTour(c)
    <3>1. call'[c].kind = call[c].kind /\ call'[c].r = call[c].r
      BY <2>2 DEF Write, MirrorTour, TypeInv, TypeOK, CallRecs
    <3> QED BY <3>1 DEF TurnInv, InOrder
  <2>3. CASE AbortCall(c)
    BY <2>3 DEF AbortCall, IdleCall, TypeInv, TypeOK
  <2> QED BY <2>1, <2>2, <2>3
<1>4. \A w \in Workers : lockConv = w => lockConv' = w
  <2>1. \A w \in Workers : w # c /\ w # None
    BY TxnsAssumption DEF Txns
  <2> QED BY <2>1 DEF Decide, SubmitResult, TourStarted, Sweep, TourEnded, Begin, Write,
          MirrorTour, AbortCall, Release, locks
<1> QED BY <1>1, <1>2, <1>3, <1>4, OthersGoOn DEF TurnInv, InOrder

\* An answer changes no status; a tour that ends completes its run.
LEMMA CommitCallTurn ==
    ASSUME TypeInv, TurnInv, NEW c \in Callers, CommitCall(c) PROVE TurnInv'
<1>1. /\ UNCHANGED <<post, work>>
      /\ \A d \in Callers : call'[d] = call[d] \/ call'[d].kind = "none"
  BY DEF CommitCall, IdleCall, TypeInv, TypeOK
<1>2. \A w \in Workers : lockConv = w => lockConv' = w
  <2>1. \A w \in Workers : w # c
    BY TxnsAssumption
  <2> QED BY <2>1, ReleaseOthers DEF CommitCall
<1>3. \A r \in Runs : /\ run'[r].replies = run[r].replies
                      /\ \/ run'[r].st = run[r].st
                         \/ run[r].st # "none" /\ run'[r].st = "completed"
  <2>1. run \in [Runs -> Rows] /\ call[c].r \in Runs
    BY DEF TypeInv, TypeOK, CallRecs
  <2>2. CASE call[c].kind = "settle"
    <3>1. run' = [run EXCEPT ![call[c].r].pend = NoCall, ![call[c].r].st = "completed"]
      BY <2>2 DEF CommitCall
    <3>2. run[call[c].r].st # "none"
      BY <2>2 DEF TurnInv, InOrder
    <3> QED BY <2>1, <3>1, <3>2 DEF Rows
  <2>3. CASE call[c].kind # "settle"
    <3>1. \/ run' = run
          \/ run' = [run EXCEPT ![call[c].r].pend = [call[c].was EXCEPT !.res = call[c].val]]
      BY <2>3 DEF CommitCall
    <3> QED BY <2>1, <3>1 DEF Rows
  <2> QED BY <2>2, <2>3
<1>4. \A r \in Runs : run'[r].st \in Active \cup Parks => run'[r].st = run[r].st
  BY <1>3 DEF Active, Parks
<1>5. \A r \in Runs : run[r].st # "none" => run'[r].st # "none"
  BY <1>3
<1>6. /\ \A w \in Workers : work[w].r \in Runs
      /\ \A d \in Callers : call[d].r \in Runs
      /\ \A m \in Msgs : post[m].merged \subseteq Runs
  BY DEF TypeInv, TypeOK, WorkRecs, CallRecs, PostRecs
<1>7. InOrder'
  <2>1. \A m \in Msgs : run'[m].st # "none" => post[m].pc = "done"
    BY <1>3 DEF TurnInv, InOrder, Runs
  <2>2. \A d \in Callers : call'[d].kind = "settle" => run'[call'[d].r].st # "none"
    BY <1>1, <1>5, <1>6 DEF TurnInv, InOrder
  <2> QED BY <1>1, <2>1, <2>2 DEF TurnInv, InOrder, Handling, Over
<1>8. RepliesOK'
  <2>1. \A r \in Runs : /\ run'[r].replies <= 1
                        /\ run'[r].replies > 0 => run'[r].st \in Terminal
                        /\ run'[r].st = "canceled" => run'[r].replies = 0
    BY <1>3 DEF TurnInv, RepliesOK, Terminal, MergedNeverReplied
  <2>2. \A w \in Workers : Busy(w) =>
           run'[work[w].r].st # "none" /\ run'[work[w].r].replies = 0
    BY <1>3, <1>5, <1>6 DEF TurnInv, RepliesOK
  <2>3. \A m \in Msgs : Handling(m) =>
           \A r \in post[m].merged : run'[r].st # "none" /\ run'[r].replies = 0
    BY <1>3, <1>5, <1>6 DEF TurnInv, RepliesOK
  <2>4. \A w \in Workers : work[w].said = 1 =>
           /\ work[w].st \in {"completed", "handed_off"}
           /\ work[w].pc = "commit" => lockConv' = w
    BY <1>2 DEF TurnInv, RepliesOK
  <2> QED BY <1>1, <2>1, <2>2, <2>3, <2>4 DEF RepliesOK, Busy, Handling, MergedNeverReplied
<1>9. TurnsOK'
  <2>1. \A r \in Runs : HadTurn(r)' => HadTurn(r)
    BY <1>3, <1>4 DEF HadTurn, Parked, Parks
  <2>2. \A e \in Runs : run'[e].st \in Active => run[e].st \in Active
    BY <1>4
  <2>3. \A r \in Runs : HadTurn(r)' => ~EarlierActive(r)'
    BY <2>1, <2>2 DEF TurnInv, TurnsOK, EarlierActive
  <2>4. \A w \in Workers : Busy(w) =>
           /\ ~(\E e \in Runs : e < work[w].r /\ run'[e].st \in Active)
           /\ \A r \in Runs : r > work[w].r => ~HadTurn(r)'
    BY <2>1, <2>2 DEF TurnInv, TurnsOK, EarlierActive
  <2> QED BY <1>1, <2>3, <2>4 DEF TurnsOK, Busy, EarlierActive
<1> QED BY <1>7, <1>8, <1>9 DEF TurnInv

LEMMA TurnStep ==
    ASSUME OneWorker PROVE TypeInv /\ QueueInv /\ TurnInv /\ [Next]_vars => TurnInv'
<1> SUFFICES ASSUME TypeInv, QueueInv, TurnInv, [Next]_vars PROVE TurnInv'
    OBVIOUS
<1>1. ASSUME NEW m \in Msgs, PostBegin(m) \/ PostStep(m) PROVE TurnInv'
  BY <1>1, PostRows, CommitPostTurn DEF PostStep
<1>2. ASSUME NEW c \in Callers, \/ Decide(c) \/ SubmitResult(c) \/ TourStarted(c)
                                \/ Sweep(c) \/ TourEnded(c) \/ CallStep(c)
      PROVE  TurnInv'
  BY <1>2, CallerTurns, CommitCallTurn DEF CallStep
<1>3. CASE \/ \E s \in HandStatuses : SetStatus(s)
           \/ \E r \in Runs : Reap(r)
           \/ UNCHANGED vars
  <2>1. UNCHANGED <<run, post, work, call, lockConv>>
    BY <1>3 DEF SetStatus, Reap, vars, rows, locks, txns
  <2> QED BY <2>1, OthersGoOn DEF TurnInv, InOrder
<1>4. CASE BreakDeadlock
  <2>1. PICK t \in Workers \cup Callers, m \in Msgs :
           /\ post[m].pc = "handle"
           /\ \/ AbortPost(m)
              \/ t \in Workers /\ RollBack(t)
              \/ t \in Callers /\ AbortCall(t)
    BY <1>4 DEF BreakDeadlock, Deadlocked
  <2>2. CASE AbortPost(m)
    BY <2>1, <2>2, PostRows DEF Handling
  <2>3. CASE t \in Workers /\ RollBack(t)
    BY <2>3, GivesUp DEF RollBack, rows
  <2>4. CASE t \in Callers /\ AbortCall(t)
    BY <2>4, CallerTurns
  <2> QED BY <2>1, <2>2, <2>3, <2>4
<1> QED BY <1>1, <1>2, <1>3, <1>4, WorkerTurns DEF Next

LEMMA InitTurnInv == Init => TypeInv /\ QueueInv /\ TurnInv
<1> SUFFICES ASSUME Init PROVE TypeInv /\ QueueInv /\ TurnInv
    OBVIOUS
<1>1. TypeInv
  BY InitTypeInv
<1>2. QueueInv
  BY DEF Init, QueueInv, PostLock, MergeSeesQueued, AtMostOneQueued, Handling, IdlePost, NoRow
<1>3. InOrder
  BY DEF Init, InOrder, Handling, Over, IdlePost, IdleCall, NoRow, Runs
<1>4. \A r \in Runs : run[r].replies = 0 /\ run[r].st = "none"
  BY DEF Init, NoRow
<1>5. RepliesOK
  BY <1>4 DEF Init, RepliesOK, Busy, Handling, IdlePost, IdleWork, MergedNeverReplied
<1>6. TurnsOK
  BY <1>4 DEF Init, TurnsOK, Busy, HadTurn, Parked, IdleWork
<1> QED BY <1>1, <1>2, <1>3, <1>5, <1>6 DEF TurnInv

LEMMA TurnsAreKept == ASSUME OneWorker PROVE Spec => [](TypeInv /\ TurnInv)
<1>1. TypeInv /\ QueueInv /\ TurnInv /\ [Next]_vars => (TypeInv /\ QueueInv /\ TurnInv)'
  BY TurnStep, StepTypes, QueueStep
<1> QED BY <1>1, InitTurnInv, PTL DEF Spec

\* Whatever is delivered again, retried, swept or crashed, a run posts at
\* most one reply.
THEOREM RepliesOnce == ASSUME OneWorker PROVE Spec => []OneReply
<1>1. TurnInv => OneReply
  BY DEF TurnInv, RepliesOK, OneReply
<1> QED BY <1>1, TurnsAreKept, PTL

\* A run that is recorded as merged into a newer one has not replied on its
\* own, although the execution and the message handler race on its row.
THEOREM MergedStaySilent == ASSUME OneWorker PROVE Spec => []MergedNeverReplied
<1>1. TurnInv => MergedNeverReplied
  BY DEF TurnInv, RepliesOK
<1> QED BY <1>1, TurnsAreKept, PTL

\* A thread never has two runs that wait for a person or for the page.
THEOREM OneRunInFlight == ASSUME OneWorker PROVE Spec => []OneInFlight
<1>1. TurnInv => OneInFlight
  <2> SUFFICES ASSUME TurnInv, NEW r \in Runs, NEW s \in Runs, Parked(r), Parked(s), r < s
               PROVE  FALSE
    BY DEF OneInFlight, Runs, Msgs
  <2>1. ~EarlierActive(s)
    BY DEF TurnInv, TurnsOK, HadTurn
  <2> QED BY <2>1 DEF EarlierActive, Parked, Active
<1> QED BY <1>1, TurnsAreKept, PTL

\* No run replies while the run of an earlier message may still reply.
THEOREM RepliesKeepOrder == ASSUME OneWorker PROVE Spec => []RepliesInOrder
<1>1. TypeInv /\ TurnInv => RepliesInOrder
  <2> SUFFICES ASSUME TypeInv, TurnInv, NEW r \in Runs, NEW s \in Runs, r < s,
                      run[s].replies > 0
               PROVE  run[r].st \in Terminal \cup {"none"}
    BY DEF RepliesInOrder
  <2>1. ~EarlierActive(s)
    BY DEF TurnInv, TurnsOK, HadTurn
  <2> QED BY <2>1 DEF EarlierActive, TypeInv, TypeOK, Rows, RunStatuses
<1> QED BY <1>1, TurnsAreKept, PTL
=============================================================================
