------------------------- MODULE ToolDispatch_proof -------------------------
(***************************************************************************)
(* Proofs about tool dispatch, for every set of attempts and any number of *)
(* lost connections, resets, restarts and attachments.                     *)
(***************************************************************************)
EXTENDS ToolDispatch, FiniteSetTheorems, SequenceTheorems, TLAPS

\* The cloud's call of an attempt: it ends with its result, and until a reply
\* may have been lost nothing of it is on the way.  Before a task calls again,
\* only one incarnation has a request of it.
Calls ==
  \A a \in Attempts :
    /\ settled[a] # None => call[a] = "idle"
    /\ call[a] # "idle" => row[a] # 0
    /\ call[a] = "pause" => lost[a]
    /\ row[a] = 0 => \A o \in Incarnations : wire[a][o] = None
    /\ \A o \in Incarnations : o > Now => wire[a][o] = None
    /\ call[a] \in {"send", "pause"} \/ (call[a] = "idle" /\ settled[a] = None) => wire[a][Now] = None
    /\ a \notin again /\ call[a] # "idle" => \A o \in Incarnations : o # Now => wire[a][o] = None
    /\ a \notin again /\ settled[a] = "refused" => \A o \in Incarnations : wire[a][o] = None

\* What has not been sent has not been started.
NotYet ==
  \A a \in Attempts : row[a] = 0 \/ (call[a] = "send" /\ ~lost[a] /\ a \notin again) => starts[a] = 0

\* A machine process that is gone was counted.
Counted == executor = "down" => crashes > 0

\* The life of a command that must not be repeated: not started, running in the
\* attempts map, or over with its result in the journal.
Life(a) ==
  /\ starts[a] <= 1
  /\ starts[a] = 0 => run[a] = None /\ ~proc[a]
  /\ starts[a] = 1 => run[a] # None \/ saved[a] # None
  /\ run[a] # None => saved[a] = None
  /\ saved[a] # None /\ proc[a] => a \in severed /\ saved[a] # "completed"

\* What the cloud holds of it, or is about to be told.
Said(a) ==
  /\ a \notin again /\ (settled[a] = "refused" \/ (call[a] = "wait" /\ wire[a][Now] = "refused")) => starts[a] = 0
  /\ \A o \in Incarnations : wire[a][o] \in Results => saved[a] = wire[a][o]
  /\ settled[a] \in Results => saved[a] = settled[a]

Once == Unrestarted => \A a \in Unsafe : Life(a) /\ Said(a)

IInv == TypeOK /\ Calls /\ NotYet /\ Counted /\ Once

\* The object's incarnation is one that may have requests.
LEMMA NowIs ==
  ASSUME TypeOK
  PROVE  Now \in Incarnations
BY DispatchAssumption DEF TypeOK, Now, Incarnations

-----------------------------------------------------------------------------
(* The workspace object. *)

\* Nothing of an attempt was sent before it is dispatched.
LEMMA DispatchKeeps ==
  ASSUME IInv, NEW b \in Attempts, Dispatch(b)
  PROVE  IInv'
<1>0. Now \in Incarnations /\ Now' = Now
  BY NowIs DEF IInv, Dispatch, Now, faults
<1>1. /\ row[b] = 0 /\ settled[b] = None /\ call[b] = "idle" /\ starts[b] = 0
      /\ \A o \in Incarnations : wire[b][o] = None
      /\ UNCHANGED <<wire, cancelling, executor, connected, run, linked, saved, proc, starts, severed, remote, local,
                     prepared, lane, step, drops, resets, crashes>>
  BY DEF Dispatch, IInv, Calls, NotYet, relay, machine, attach, faults
<1>2. CASE Settle(b, "refused")
  <2>1. TypeOK'
    BY <1>0, <1>1, <1>2 DEF IInv, TypeOK, Results, Outcomes, None, Settle
  <2>2. Calls'
    BY <1>0, <1>1, <1>2 DEF IInv, TypeOK, Calls, Results, None, Settle
  <2>3. NotYet' /\ Counted'
    BY <1>0, <1>1, <1>2 DEF IInv, TypeOK, Calls, NotYet, Counted, None, Settle
  <2>4. Once'
    BY <1>0, <1>1, <1>2 DEF IInv, TypeOK, Calls, NotYet, Counted, Once, Unrestarted, Life, Said, Results, None, Settle
  <2> QED
    BY <2>1, <2>2, <2>3, <2>4 DEF IInv
<1>3. ASSUME NEW i \in Attachments, row' = [row EXCEPT ![b] = i], call' = [call EXCEPT ![b] = "send"],
             lost' = [lost EXCEPT ![b] = FALSE], UNCHANGED <<settled, told, again>>
      PROVE  IInv'
  <2>0. i \in 0..MaxAttachments /\ i # 0
    BY DispatchAssumption DEF Attachments
  <2>1. TypeOK'
    BY <1>0, <1>1, <2>0, <1>3 DEF IInv, TypeOK, Results, Outcomes, None
  <2>2. Calls'
    BY <1>0, <1>1, <2>0, <1>3 DEF IInv, TypeOK, Calls, Results, None
  <2>3. NotYet' /\ Counted'
    BY <1>0, <1>1, <2>0, <1>3 DEF IInv, TypeOK, Calls, NotYet, Counted, None
  <2>4. Once'
    BY <1>0, <1>1, <2>0, <1>3 DEF IInv, TypeOK, Calls, NotYet, Counted, Once, Unrestarted, Life, Said, Results, None
  <2> QED
    BY <2>1, <2>2, <2>3, <2>4 DEF IInv
<1> QED
  BY <1>2, <1>3 DEF Dispatch

\* A task that calls again has one request at a time, like any call.
LEMMA ResumeKeeps ==
  ASSUME IInv, NEW b \in Attempts, Resume(b)
  PROVE  IInv'
<1>0. Now \in Incarnations /\ Now' = Now
  BY NowIs DEF IInv, Resume, Now, faults
<1>1. /\ row[b] # 0 /\ settled[b] = None /\ call[b] = "idle" /\ wire[b][Now] = None
      /\ UNCHANGED <<wire, cancelling, executor, connected, run, linked, saved, proc, starts, severed, remote, local,
                     prepared, lane, step, drops, resets, crashes>>
  BY DEF Resume, IInv, Calls, relay, machine, attach, faults
<1>2. CASE Settle(b, "unknown")
  <2>1. TypeOK'
    BY <1>0, <1>1, <1>2 DEF IInv, TypeOK, Results, Outcomes, None, Settle
  <2>2. Calls'
    BY <1>0, <1>1, <1>2 DEF IInv, TypeOK, Calls, Results, None, Settle
  <2>3. NotYet' /\ Counted'
    BY <1>0, <1>1, <1>2 DEF IInv, TypeOK, Calls, NotYet, Counted, None, Settle
  <2>4. Once'
    BY <1>0, <1>1, <1>2 DEF IInv, TypeOK, Once, Unrestarted, Life, Said, Results, None, Settle
  <2> QED
    BY <2>1, <2>2, <2>3, <2>4 DEF IInv
<1>3. CASE /\ call' = [call EXCEPT ![b] = "send"] /\ lost' = [lost EXCEPT ![b] = FALSE]
           /\ again' = again \cup {b} /\ UNCHANGED <<row, settled, told>>
  <2>0. /\ call'[b] = "send" /\ \A a \in Attempts : a # b => call'[a] = call[a] /\ lost'[a] = lost[a]
        /\ b \in again' /\ \A a \in Attempts : a # b => (a \in again' <=> a \in again)
    BY <1>3 DEF IInv, TypeOK
  <2>1. TypeOK'
    BY <1>0, <1>1, <1>3 DEF IInv, TypeOK, Results, Outcomes, None
  <2>2. Calls'
    BY <1>0, <1>1, <1>3, <2>0 DEF IInv, Calls, None
  <2>3. NotYet' /\ Counted'
    BY <1>1, <1>3, <2>0 DEF IInv, NotYet, Counted
  <2>4. Once'
    BY <1>0, <1>1, <1>3, <2>0, DispatchAssumption DEF IInv, Once, Unrestarted, Life, Said
  <2> QED
    BY <2>1, <2>2, <2>3, <2>4 DEF IInv
<1> QED
  BY <1>2, <1>3 DEF Resume

\* A refusal is settled only of what this call has not sent.
LEMMA SendKeeps ==
  ASSUME IInv, NEW b \in Attempts, Send(b)
  PROVE  IInv'
<1>0. Now \in Incarnations /\ Now' = Now
  BY NowIs DEF IInv, Send, Now, faults
<1>1. /\ call[b] = "send" /\ row[b] # 0 /\ settled[b] = None /\ wire[b][Now] = None
      /\ UNCHANGED <<executor, connected, run, linked, saved, proc, starts, severed, remote, local, prepared, lane,
                     step, drops, resets, crashes>>
  BY DEF Send, IInv, Calls, machine, attach, faults
<1>2. CASE /\ wire' = [wire EXCEPT ![b][Now] = "request"]
           /\ call' = [call EXCEPT ![b] = "wait"]
           /\ UNCHANGED <<row, settled, told, lost, again, cancelling>>
  <2>1. TypeOK'
    BY <1>0, <1>1, <1>2 DEF IInv, TypeOK, Results, Outcomes, None
  <2>2. Calls'
    <3>1. \A a \in Attempts, o \in Incarnations : a # b \/ o # Now => wire'[a][o] = wire[a][o]
      BY <1>2 DEF IInv, TypeOK
    <3>2. call'[b] = "wait" /\ \A a \in Attempts : a # b => call'[a] = call[a]
      BY <1>2 DEF IInv, TypeOK
    <3>3. \A o \in Incarnations : o > Now => o # Now
      BY <1>0 DEF Incarnations
    <3> QED
      BY <1>0, <1>1, <1>2, <3>1, <3>2, <3>3 DEF IInv, Calls, None
  <2>3. NotYet' /\ Counted'
    BY <1>0, <1>1, <1>2 DEF IInv, TypeOK, Calls, NotYet, Counted, None
  <2>4. Once'
    BY <1>0, <1>1, <1>2 DEF IInv, TypeOK, Calls, NotYet, Counted, Once, Unrestarted, Life, Said, Results, None
  <2> QED
    BY <2>1, <2>2, <2>3, <2>4 DEF IInv
<1>3. CASE ~lost[b] /\ Settle(b, "refused") /\ UNCHANGED relay
  <2>1. TypeOK'
    BY <1>0, <1>1, <1>3 DEF IInv, TypeOK, Results, Outcomes, None, Settle, relay
  <2>2. Calls'
    BY <1>0, <1>1, <1>3 DEF IInv, TypeOK, Calls, Results, None, Settle, relay
  <2>3. NotYet' /\ Counted'
    BY <1>0, <1>1, <1>3 DEF IInv, TypeOK, Calls, NotYet, Counted, None, Settle, relay
  <2>4. Once'
    BY <1>0, <1>1, <1>3 DEF IInv, TypeOK, Calls, NotYet, Counted, Once, Unrestarted, Life, Said, Results, None, Settle, relay
  <2> QED
    BY <2>1, <2>2, <2>3, <2>4 DEF IInv
<1>4. CASE lost[b] /\ call' = [call EXCEPT ![b] = "pause"] /\ UNCHANGED <<row, settled, told, lost, again, relay>>
  <2>1. TypeOK'
    BY <1>0, <1>1, <1>4 DEF IInv, TypeOK, Results, Outcomes, None, relay
  <2>2. Calls'
    BY <1>0, <1>1, <1>4 DEF IInv, TypeOK, Calls, Results, None, relay
  <2>3. NotYet' /\ Counted'
    BY <1>0, <1>1, <1>4 DEF IInv, TypeOK, Calls, NotYet, Counted, None, relay
  <2>4. Once'
    BY <1>0, <1>1, <1>4 DEF IInv, TypeOK, Calls, NotYet, Counted, Once, Unrestarted, Life, Said, Results, None, relay
  <2> QED
    BY <2>1, <2>2, <2>3, <2>4 DEF IInv
<1> QED
  BY <1>2, <1>3, <1>4 DEF Send

LEMMA RetryKeeps ==
  ASSUME IInv, NEW b \in Attempts, Retry(b)
  PROVE  IInv'
<1>1. TypeOK'
  BY DEF IInv, TypeOK, Results, Outcomes, None, Retry, cloud, relay, machine, attach, faults
<1>2. Calls'
  BY DEF IInv, TypeOK, Calls, Results, None, Now, Retry, cloud, relay, machine, attach, faults
<1>3. NotYet' /\ Counted'
  BY DEF IInv, TypeOK, Calls, NotYet, Counted, None, Now, Retry, cloud, relay, machine, attach, faults
<1>4. Once'
  BY DEF IInv, TypeOK, Calls, NotYet, Counted, Once, Unrestarted, Life, Said, Results, None, Now, Retry,
     cloud, relay, machine, attach, faults
<1> QED
  BY <1>1, <1>2, <1>3, <1>4 DEF IInv

LEMMA GiveUpKeeps ==
  ASSUME IInv, NEW b \in Attempts, GiveUp(b)
  PROVE  IInv'
<1>1. TypeOK'
  BY DEF IInv, TypeOK, Results, Outcomes, None, GiveUp, Settle, cloud, relay, machine, attach, faults
<1>2. Calls'
  BY DEF IInv, TypeOK, Calls, Results, None, Now, GiveUp, Settle, cloud, relay, machine, attach, faults
<1>3. NotYet' /\ Counted'
  BY DEF IInv, TypeOK, Calls, NotYet, Counted, None, Now, GiveUp, Settle, cloud, relay, machine, attach, faults
<1>4. Once'
  BY DEF IInv, TypeOK, Calls, NotYet, Counted, Once, Unrestarted, Life, Said, Results, None, Now, GiveUp,
     Settle, cloud, relay, machine, attach, faults
<1> QED
  BY <1>1, <1>2, <1>3, <1>4 DEF IInv

\* What is settled is what the machine said.
LEMMA AnswerKeeps ==
  ASSUME IInv, NEW b \in Attempts, Answer(b)
  PROVE  IInv'
<1>0. Now \in Incarnations
  BY NowIs DEF IInv
<1>1. TypeOK'
  BY <1>0 DEF IInv, TypeOK, Results, Outcomes, None, Answer, Settle, Wire, cloud, relay, machine, attach, faults
<1>2. Calls'
  BY <1>0 DEF IInv, TypeOK, Calls, Results, None, Now, Answer, Settle, Wire, cloud, relay, machine, attach,
     faults
<1>3. NotYet' /\ Counted'
  BY <1>0 DEF IInv, TypeOK, Calls, NotYet, Counted, None, Now, Answer, Settle, Wire, cloud, relay, machine,
     attach, faults
<1>4. Once'
  BY <1>0 DEF IInv, TypeOK, Calls, NotYet, Counted, Once, Unrestarted, Life, Said, Results, None, Now, Answer,
     Settle, Wire, cloud, relay, machine, attach, faults
<1> QED
  BY <1>1, <1>2, <1>3, <1>4 DEF IInv

LEMMA CancelKeeps ==
  ASSUME IInv, NEW b \in Attempts, Cancel(b)
  PROVE  IInv'
<1>0. Now \in Incarnations
  BY NowIs DEF IInv
<1>1. TypeOK'
  BY <1>0 DEF IInv, TypeOK, Results, Outcomes, None, Cancel, Settle, Wire, cloud, relay, machine, attach, faults
<1>2. Calls'
  BY <1>0 DEF IInv, TypeOK, Calls, Results, None, Now, Cancel, Settle, Wire, cloud, relay, machine, attach,
     faults
<1>3. NotYet' /\ Counted'
  BY <1>0 DEF IInv, TypeOK, Calls, NotYet, Counted, None, Now, Cancel, Settle, Wire, cloud, relay, machine,
     attach, faults
<1>4. Once'
  BY <1>0 DEF IInv, TypeOK, Calls, NotYet, Counted, Once, Unrestarted, Life, Said, Results, None, Now, Cancel,
     Settle, Wire, cloud, relay, machine, attach, faults
<1> QED
  BY <1>1, <1>2, <1>3, <1>4 DEF IInv

LEMMA ReconcileKeeps ==
  ASSUME IInv, NEW b \in Attempts, Reconcile(b)
  PROVE  IInv'
<1>1. TypeOK'
  BY DEF IInv, TypeOK, Results, Outcomes, None, Reconcile, cloud, relay, machine, attach, faults
<1>2. Calls'
  BY DEF IInv, TypeOK, Calls, Results, None, Now, Reconcile, cloud, relay, machine, attach, faults
<1>3. NotYet' /\ Counted'
  BY DEF IInv, TypeOK, Calls, NotYet, Counted, None, Now, Reconcile, cloud, relay, machine, attach, faults
<1>4. Once'
  BY DEF IInv, TypeOK, Calls, NotYet, Counted, Once, Unrestarted, Life, Said, Results, None, Now, Reconcile,
     cloud, relay, machine, attach, faults
<1> QED
  BY <1>1, <1>2, <1>3, <1>4 DEF IInv

\* A restarted object has sent nothing yet.
LEMMA ResetKeeps ==
  ASSUME IInv, Reset
  PROVE  IInv'
<1>0. resets' = resets + 1 /\ resets' \in 0..MaxResets /\ resets \in Nat /\ Now' > Now /\ Now' \in Int /\ Now \in Int
  BY DispatchAssumption DEF Reset, IInv, TypeOK, Now
<1>1. /\ cancelling' \in [Attempts -> [Incarnations -> BOOLEAN]] /\ call' \in [Attempts -> {"idle"}]
      /\ UNCHANGED <<row, settled, told, lost, again, executor, connected, run, linked, saved, proc, starts, severed,
                     remote, local, prepared, lane, step, drops, crashes>>
  <2>1. call' \in [Attempts -> {"idle"}]
    BY DEF Reset
  <2>2. cancelling' \in [Attempts -> [Incarnations -> BOOLEAN]]
    <3>1. PICK noticed \in SUBSET Attempts :
             cancelling' = [a \in Attempts |-> [cancelling[a] EXCEPT ![Now] = @ \/ a \in noticed]]
      BY DEF Reset
    <3>2. ASSUME NEW a \in Attempts PROVE [cancelling[a] EXCEPT ![Now] = @ \/ a \in noticed] \in [Incarnations -> BOOLEAN]
      <4>1. cancelling[a] \in [Incarnations -> BOOLEAN]
        BY DEF IInv, TypeOK
      <4>2. (cancelling[a][Now] \/ a \in noticed) \in BOOLEAN
        OBVIOUS
      <4> HIDE DEF Now
      <4> QED
        BY <4>1, <4>2
    <3> QED
      BY <3>1, <3>2
  <2> QED
    BY <2>1, <2>2 DEF Reset, machine, attach
<1>2. /\ wire' \in [Attempts -> [Incarnations -> {None, "request", "held", "refused"} \cup Results]]
      /\ \A a \in Attempts, o \in Incarnations : wire'[a][o] \in {wire[a][o], None}
  BY DEF Reset, IInv, TypeOK
<1>3. TypeOK'
  BY <1>0, <1>1, <1>2 DEF IInv, TypeOK
<1>4. Calls'
  <2>1. \A o \in Incarnations : o >= Now' => o > Now
    BY <1>0 DEF Incarnations
  <2>2. Now' \in Incarnations
    BY <1>3, NowIs, DispatchAssumption, <1>0 DEF Now, Incarnations
  <2>3. \A o \in Incarnations : o > Now' => o > Now
    BY <2>1, <1>0 DEF Incarnations
  <2> QED
    BY <1>0, <1>1, <1>2, <2>1, <2>2, <2>3 DEF IInv, Calls, Results, None
<1>5. NotYet' /\ Counted'
  BY <1>1 DEF IInv, TypeOK, NotYet, Counted
<1>6. Once'
  BY <1>1, <1>2, DispatchAssumption DEF IInv, Once, Unrestarted, Life, Said, Results, None
<1> QED
  BY <1>3, <1>4, <1>5, <1>6 DEF IInv

-----------------------------------------------------------------------------
(* The relay connection. *)

\* Every request on the socket is lost, and its call knows.
LEMMA DropKeeps ==
  ASSUME IInv, Drop
  PROVE  IInv'
<1>0. Now \in Incarnations /\ Now' = Now
  BY NowIs DEF IInv, Drop, Now
<1>1. /\ connected' \in BOOLEAN /\ linked' \in [Attempts -> {0}]
      /\ wire' \in [Attempts -> [Incarnations -> {None}]] /\ cancelling' \in [Attempts -> [Incarnations -> BOOLEAN]]
      /\ lost' \in [Attempts -> BOOLEAN]
      /\ UNCHANGED <<row, settled, told, again, executor, run, saved, proc, starts, severed, remote, local, prepared,
                     lane, step, resets, crashes>>
  BY DEF Drop, Disconnected, attach
<1>2. /\ call' \in [Attempts -> {"idle", "send", "wait", "pause"}]
      /\ \A a \in Attempts : /\ call[a] = "wait" => call'[a] = "pause" /\ lost'[a]
                             /\ call[a] # "wait" => call'[a] = call[a] /\ lost'[a] = lost[a]
  BY DEF Drop, Disconnected, IInv, TypeOK
<1>3. drops' \in 0..MaxDrops
  BY DispatchAssumption DEF Drop, IInv, TypeOK
<1>4. TypeOK'
  <2>1. 0 \in 0..MaxResets + 1
    BY DispatchAssumption
  <2> QED
    BY <1>1, <1>2, <1>3, <2>1 DEF IInv, TypeOK
<1>5. \A a \in Attempts, o \in Incarnations : wire'[a][o] = None
  BY <1>1
<1>6. Calls'
  BY <1>0, <1>1, <1>2, <1>5 DEF IInv, TypeOK, Calls
<1>7. NotYet' /\ Counted'
  BY <1>1, <1>2 DEF IInv, TypeOK, NotYet, Counted
<1>8. Once'
  BY <1>0, <1>1, <1>2, <1>5, DispatchAssumption DEF IInv, Once, Unrestarted, Life, Said, Results, None
<1> QED
  BY <1>4, <1>6, <1>7, <1>8 DEF IInv

LEMMA ConnectKeeps ==
  ASSUME IInv, Connect
  PROVE  IInv'
<1>1. TypeOK'
  BY DEF IInv, TypeOK, Results, Outcomes, None, Connect, cloud, relay, machine, attach, faults
<1>2. Calls'
  BY DEF IInv, TypeOK, Calls, Results, None, Now, Connect, cloud, relay, machine, attach, faults
<1>3. NotYet' /\ Counted'
  BY DEF IInv, TypeOK, Calls, NotYet, Counted, None, Now, Connect, cloud, relay, machine, attach, faults
<1>4. Once'
  BY DEF IInv, TypeOK, Calls, NotYet, Counted, Once, Unrestarted, Life, Said, Results, None, Now, Connect,
     cloud, relay, machine, attach, faults
<1> QED
  BY <1>1, <1>2, <1>3, <1>4 DEF IInv

-----------------------------------------------------------------------------
(* The machine's executor. *)

\* A repeat joins the run or hears the journal; only a command that was never
\* started is started, refused, or failed unstarted.
LEMMA DeliverKeeps ==
  ASSUME IInv, NEW b \in Attempts, NEW p \in Incarnations, Deliver(b, p)
  PROVE  IInv'
<1>0. Now \in Incarnations /\ Now' = Now
  BY NowIs DEF IInv, Deliver, Now, faults
<1>1. /\ wire[b][p] = "request" /\ row[b] # 0
      /\ b \notin again => settled[b] # "refused" /\ call[b] # "send" /\ (call[b] # "idle" => p = Now)
      /\ UNCHANGED <<row, settled, told, call, lost, again, cancelling, executor, connected, remote, local, prepared,
                     lane, step, drops, resets, crashes>>
  <2>1. /\ wire[b][p] = "request" /\ wire[b][p] # None
        /\ UNCHANGED <<row, settled, told, call, lost, again, cancelling, executor, connected, remote, local, prepared,
                       lane, step, drops, resets, crashes>>
    BY DEF Deliver, None, cloud, attach, faults
  <2>2. b \notin again /\ call[b] # "idle" => p = Now
    BY <2>1 DEF IInv, Calls
  <2> QED
    BY <2>1, <2>2 DEF IInv, Calls
<1>2. PICK x \in {"held", "refused", "failed", None} \cup Results : wire' = [wire EXCEPT ![b][p] = x]
  <2>1. saved[b] \in Results \cup {None}
    BY DEF IInv, TypeOK
  <2>2. CASE executor # "up" /\ wire' = [wire EXCEPT ![b][p] = Answered(p, "refused")]
    BY <2>2 DEF Answered
  <2>3. CASE wire' = [wire EXCEPT ![b][p] = Answered(p, saved[b])]
    BY <2>1, <2>3 DEF Answered
  <2>4. CASE wire' = [wire EXCEPT ![b][p] = "held"]
    BY <2>4
  <2>5. CASE wire' = [wire EXCEPT ![b][p] = Answered(p, "refused")]
    BY <2>5 DEF Answered
  <2>6. CASE wire' = [wire EXCEPT ![b][p] = Answered(p, "failed")]
    BY <2>6 DEF Answered
  <2> QED
    BY <2>2, <2>3, <2>4, <2>5, <2>6 DEF Deliver
<1>3. /\ wire' \in [Attempts -> [Incarnations -> {None, "request", "held", "refused"} \cup Results]]
      /\ wire'[b][p] = x
      /\ \A a \in Attempts, o \in Incarnations : a # b \/ o # p => wire'[a][o] = wire[a][o]
  BY <1>2 DEF IInv, TypeOK, Results
<1>4. Calls'
  <2>1. /\ ~(p > Now)
        /\ p = Now => call[b] \notin {"send", "pause"} /\ (call[b] = "idle" => settled[b] # None)
    BY <1>1 DEF IInv, Calls, None
  <2>2. \A a \in Attempts : a # b => \A o \in Incarnations : wire'[a][o] = wire[a][o]
    BY <1>3
  <2> QED
    BY <1>0, <1>1, <1>3, <2>1, <2>2 DEF IInv, Calls
<1> DEFINE Idle == run' = run /\ linked' = linked /\ saved' = saved /\ proc' = proc /\ starts' = starts
                   /\ severed' = severed
<1>5. CASE Idle /\ executor # "up"
  <2>1. TypeOK'
    BY <1>1, <1>3, <1>5 DEF IInv, TypeOK
  <2>2. NotYet' /\ Counted'
    BY <1>1, <1>5 DEF IInv, NotYet, Counted
  <2>3. Once'
    BY <1>1, <1>5 DEF Once, Unrestarted
  <2> QED
    BY <1>4, <2>1, <2>2, <2>3 DEF IInv
<1>6. CASE Idle /\ executor = "up" /\ (x = "held" \/ x = None \/ (x = saved[b] /\ saved[b] # None)
                                       \/ (x = "refused" /\ saved[b] = None /\ run[b] = None))
  <2>1. TypeOK'
    BY <1>1, <1>3, <1>6 DEF IInv, TypeOK
  <2>2. NotYet' /\ Counted'
    BY <1>1, <1>6 DEF IInv, NotYet, Counted
  <2>3. ASSUME Unrestarted', NEW a \in Unsafe PROVE Life(a)' /\ Said(a)'
    <3>1. a \in Attempts /\ Life(a) /\ Said(a) /\ starts[a] \in Nat
      BY <1>1, <2>3, DispatchAssumption DEF IInv, TypeOK, Once, Unrestarted
    <3>2. Life(a)'
      BY <1>6, <3>1 DEF Life
    <3>3. saved[a] = None /\ run[a] = None => starts[a] = 0
      BY <3>1 DEF Life
    <3>4. saved[a] \in Results \cup {None}
      BY <3>1 DEF IInv, TypeOK
    <3>5. Said(a)'
      BY <1>0, <1>1, <1>3, <1>6, <3>1, <3>3, <3>4 DEF Said, Results, None
    <3> QED
      BY <3>2, <3>5
  <2> QED
    BY <1>4, <2>1, <2>2, <2>3 DEF IInv, Once
<1>7. CASE /\ executor = "up" /\ saved[b] = None /\ run[b] = None /\ x = "held"
           /\ run' = [run EXCEPT ![b] = "running"] /\ linked' = [linked EXCEPT ![b] = p]
           /\ proc' = [proc EXCEPT ![b] = TRUE] /\ starts' = [starts EXCEPT ![b] = @ + 1]
           /\ UNCHANGED <<saved, severed>>
  <2>1. TypeOK'
    BY <1>1, <1>3, <1>7, DispatchAssumption DEF IInv, TypeOK, Incarnations
  <2>2. NotYet' /\ Counted'
    BY <1>1, <1>7 DEF IInv, TypeOK, NotYet, Counted
  <2>3. ASSUME Unrestarted', NEW a \in Unsafe PROVE Life(a)' /\ Said(a)'
    <3>1. a \in Attempts /\ Life(a) /\ Said(a) /\ starts[a] \in Nat
      BY <1>1, <2>3, DispatchAssumption DEF IInv, TypeOK, Once, Unrestarted
    <3>2. CASE a # b
      BY <1>0, <1>1, <1>3, <1>7, <3>1, <3>2 DEF IInv, TypeOK, Life, Said
    <3>3. CASE a = b
      <4>1. starts[b] = 0 /\ starts'[b] = 1 /\ run'[b] = "running" /\ saved'[b] = None /\ proc'[b]
        BY <1>7, <3>1, <3>3 DEF IInv, TypeOK, Life
      <4>2. Life(b)'
        BY <4>1 DEF Life, None
      <4>3. Said(b)'
        BY <1>0, <1>1, <1>3, <1>7, <3>1, <3>3, <4>1 DEF Said, Results, None
      <4> QED
        BY <3>3, <4>2, <4>3
    <3> QED
      BY <3>2, <3>3
  <2> QED
    BY <1>4, <2>1, <2>2, <2>3 DEF IInv, Once
<1>8. CASE /\ executor = "up" /\ saved[b] = None /\ run[b] = None /\ Finished(b, "failed")
           /\ x = Answered(p, "failed") /\ UNCHANGED <<proc, starts, severed>>
  <2>0. /\ x \in {"failed", None}
        /\ run' = [run EXCEPT ![b] = None] /\ linked' = [linked EXCEPT ![b] = 0]
        /\ saved' = [saved EXCEPT ![b] = IF b \in Unsafe THEN "failed" ELSE None]
    BY <1>8 DEF Answered, Finished
  <2>1. TypeOK'
    BY <1>1, <1>3, <1>8, <2>0, DispatchAssumption DEF IInv, TypeOK, Results, None
  <2>2. NotYet' /\ Counted'
    BY <1>1, <1>8 DEF IInv, NotYet, Counted
  <2>3. ASSUME Unrestarted', NEW a \in Unsafe PROVE Life(a)' /\ Said(a)'
    <3>1. a \in Attempts /\ Life(a) /\ Said(a) /\ starts[a] \in Nat
      BY <1>1, <2>3, DispatchAssumption DEF IInv, TypeOK, Once, Unrestarted
    <3>2. CASE a # b
      BY <1>0, <1>1, <1>3, <1>8, <2>0, <3>1, <3>2 DEF IInv, TypeOK, Life, Said
    <3>3. CASE a = b
      <4>1. starts'[b] = 0 /\ run'[b] = None /\ saved'[b] = "failed" /\ ~proc'[b]
        BY <1>8, <2>0, <3>1, <3>3 DEF IInv, TypeOK, Life
      <4>2. Life(b)'
        BY <4>1 DEF Life, None
      <4>3. Said(b)'
        BY <1>0, <1>1, <1>3, <1>8, <2>0, <3>1, <3>3, <4>1 DEF Said, Results, None
      <4> QED
        BY <3>3, <4>2, <4>3
    <3> QED
      BY <3>2, <3>3
  <2> QED
    BY <1>4, <2>1, <2>2, <2>3 DEF IInv, Once
<1>9. wire'[b][p] = x
  BY <1>3
<1>10. CASE executor # "up" /\ UNCHANGED machine
  BY <1>5, <1>10 DEF machine
<1>11. CASE executor = "up" /\ saved[b] # None /\ wire' = [wire EXCEPT ![b][p] = Answered(p, saved[b])] /\ UNCHANGED machine
  <2>1. x = Answered(p, saved[b])
    BY <1>3, <1>11 DEF IInv, TypeOK
  <2> QED
    BY <1>6, <1>11, <2>1 DEF machine, Answered
<1>12. CASE executor = "up" /\ wire' = [wire EXCEPT ![b][p] = "held"] /\ UNCHANGED machine
  <2>1. x = "held"
    BY <1>3, <1>12 DEF IInv, TypeOK
  <2> QED
    BY <1>6, <1>12, <2>1 DEF machine
<1>13. CASE /\ executor = "up" /\ saved[b] = None /\ run[b] = None
            /\ wire' = [wire EXCEPT ![b][p] = Answered(p, "refused")] /\ UNCHANGED machine
  <2>1. x = Answered(p, "refused")
    BY <1>3, <1>13 DEF IInv, TypeOK
  <2> QED
    BY <1>6, <1>13, <2>1 DEF machine, Answered
<1>14. CASE /\ executor = "up" /\ saved[b] = None /\ run[b] = None /\ wire' = [wire EXCEPT ![b][p] = "held"]
            /\ run' = [run EXCEPT ![b] = "running"] /\ linked' = [linked EXCEPT ![b] = p]
            /\ proc' = [proc EXCEPT ![b] = TRUE] /\ starts' = [starts EXCEPT ![b] = @ + 1]
            /\ UNCHANGED <<saved, severed>>
  <2>1. x = "held"
    BY <1>3, <1>14 DEF IInv, TypeOK
  <2> QED
    BY <1>7, <1>14, <2>1
<1>15. CASE /\ executor = "up" /\ saved[b] = None /\ run[b] = None /\ Finished(b, "failed")
            /\ wire' = [wire EXCEPT ![b][p] = Answered(p, "failed")] /\ UNCHANGED <<proc, starts, severed>>
  <2>1. x = Answered(p, "failed")
    BY <1>3, <1>15 DEF IInv, TypeOK
  <2> QED
    BY <1>8, <1>15, <2>1
<1> QED
  BY <1>10, <1>11, <1>12, <1>13, <1>14, <1>15 DEF Deliver

LEMMA DeliverCancelKeeps ==
  ASSUME IInv, NEW b \in Attempts, NEW p \in Incarnations, DeliverCancel(b, p)
  PROVE  IInv'
<1>1. TypeOK'
  BY DEF IInv, TypeOK, Results, Outcomes, None, DeliverCancel, cloud, relay, machine, attach, faults
<1>2. Calls'
  BY DEF IInv, TypeOK, Calls, Results, None, Now, DeliverCancel, cloud, relay, machine, attach, faults
<1>3. NotYet' /\ Counted'
  BY DEF IInv, TypeOK, Calls, NotYet, Counted, None, Now, DeliverCancel, cloud, relay, machine, attach, faults
<1>4. Once'
  BY DEF IInv, TypeOK, Calls, NotYet, Counted, Once, Unrestarted, Life, Said, Results, None, Now,
     DeliverCancel, cloud, relay, machine, attach, faults
<1> QED
  BY <1>1, <1>2, <1>3, <1>4 DEF IInv

LEMMA DeadlineKeeps ==
  ASSUME IInv, NEW b \in Attempts, Deadline(b)
  PROVE  IInv'
<1>1. TypeOK'
  BY DEF IInv, TypeOK, Results, Outcomes, None, Deadline, cloud, relay, machine, attach, faults
<1>2. Calls'
  BY DEF IInv, TypeOK, Calls, Results, None, Now, Deadline, cloud, relay, machine, attach, faults
<1>3. NotYet' /\ Counted'
  BY DEF IInv, TypeOK, Calls, NotYet, Counted, None, Now, Deadline, cloud, relay, machine, attach, faults
<1>4. Once'
  BY DEF IInv, TypeOK, Calls, NotYet, Counted, Once, Unrestarted, Life, Said, Results, None, Now, Deadline,
     cloud, relay, machine, attach, faults
<1> QED
  BY <1>1, <1>2, <1>3, <1>4 DEF IInv

LEMMA ProcessExitsKeeps ==
  ASSUME IInv, NEW b \in Attempts, ProcessExits(b)
  PROVE  IInv'
<1>1. TypeOK'
  BY DEF IInv, TypeOK, Results, Outcomes, None, ProcessExits, cloud, relay, machine, attach, faults
<1>2. Calls'
  BY DEF IInv, TypeOK, Calls, Results, None, Now, ProcessExits, cloud, relay, machine, attach, faults
<1>3. NotYet' /\ Counted'
  BY DEF IInv, TypeOK, Calls, NotYet, Counted, None, Now, ProcessExits, cloud, relay, machine, attach, faults
<1>4. Once'
  BY DEF IInv, TypeOK, Calls, NotYet, Counted, Once, Unrestarted, Life, Said, Results, None, Now,
     ProcessExits, cloud, relay, machine, attach, faults
<1> QED
  BY <1>1, <1>2, <1>3, <1>4 DEF IInv

\* A run that ends leaves its result in the journal and answers those who wait.
LEMMA RepliedKeeps ==
  ASSUME IInv, NEW b \in Attempts, NEW result \in Results, run[b] # None,
         Finished(b, result), Reply(b, result),
         proc' \in [Attempts -> BOOLEAN], \A a \in Attempts : (proc'[a] => proc[a]) /\ (a # b => proc'[a] = proc[a]),
         severed \subseteq severed', severed' \subseteq Attempts,
         proc'[b] => b \in severed' /\ result # "completed",
         UNCHANGED <<cloud, cancelling, executor, connected, starts, attach, faults>>
  PROVE  IInv'
<1>0. Now \in Incarnations
  BY NowIs DEF IInv
<1>1. /\ wire' \in [Attempts -> [Incarnations -> {None, "request", "held", "refused"} \cup Results]]
      /\ \A a \in Attempts, o \in Incarnations :
            wire'[a][o] \in {wire[a][o], None} \/ (a = b /\ o = Now /\ wire[a][o] = "held" /\ wire'[a][o] = result)
  BY <1>0 DEF Reply, Answered, IInv, TypeOK
<1>2. /\ run' = [run EXCEPT ![b] = None] /\ linked' = [linked EXCEPT ![b] = 0]
      /\ saved' = [saved EXCEPT ![b] = IF b \in Unsafe THEN result ELSE None]
  BY DEF Finished
<1>3. TypeOK'
  BY <1>1, <1>2, DispatchAssumption DEF IInv, TypeOK, None, cloud, attach, faults
<1>4. Calls'
  BY <1>0, <1>1 DEF IInv, TypeOK, Calls, Results, None, Now, cloud, attach, faults
<1>5. NotYet' /\ Counted'
  BY DEF IInv, NotYet, Counted, cloud, faults
<1>6. ASSUME Unrestarted', NEW a \in Unsafe PROVE Life(a)' /\ Said(a)'
  <2>1. a \in Attempts /\ Life(a) /\ Said(a)
    BY <1>6, DispatchAssumption DEF IInv, Once, Unrestarted, faults
  <2>2. CASE a = b
    <3>1. saved[b] = None /\ saved'[b] = result /\ run'[b] = None /\ starts'[b] = starts[b]
      BY <1>2, <1>6, <2>1, <2>2 DEF IInv, TypeOK, Life
    <3>2. starts[b] = 1
      BY <2>1, <2>2 DEF IInv, TypeOK, Life
    <3>3. Life(b)'
      BY <3>1, <3>2 DEF Life, Results, None
    <3>4. \A o \in Incarnations : wire[b][o] \notin Results /\ settled[b] \notin Results
      BY <2>1, <2>2, <3>1 DEF Said, Results, None
    <3>5. Said(b)'
      BY <1>0, <1>1, <2>1, <2>2, <3>1, <3>2, <3>4 DEF Said, Results, None, Now, cloud, faults
    <3> QED
      BY <2>2, <3>3, <3>5
  <2>3. CASE a # b
    <3>1. /\ run'[a] = run[a] /\ saved'[a] = saved[a] /\ proc'[a] = proc[a] /\ starts'[a] = starts[a]
          /\ \A o \in Incarnations : wire'[a][o] \in {wire[a][o], None}
      BY <1>1, <1>2, <2>1, <2>3 DEF IInv, TypeOK
    <3> QED
      BY <1>0, <2>1, <3>1 DEF Life, Said, Results, None, Now, cloud, faults
  <2> QED
    BY <2>2, <2>3
<1>7. Once'
  BY <1>6 DEF Once
<1> QED
  BY <1>3, <1>4, <1>5, <1>7 DEF IInv

\* The command is over, or the supervisor stopped answering for it.
LEMMA CompleteKeeps ==
  ASSUME IInv, NEW b \in Attempts, Complete(b)
  PROVE  IInv'
<1>1. run[b] # None /\ UNCHANGED <<cloud, cancelling, executor, connected, starts, attach, faults>>
  BY DEF Complete, None
<1>2. proc \in [Attempts -> BOOLEAN] /\ proc' = proc /\ severed \subseteq severed' /\ severed' \subseteq Attempts
  BY DEF Complete, IInv, TypeOK
<1>3. CASE ~proc[b]
  <2>1. PICK result \in {"completed", "failed"} : Finished(b, result) /\ Reply(b, result)
    BY DEF Complete
  <2> QED
    BY <1>1, <1>2, <1>3, <2>1, RepliedKeeps DEF Results
<1>4. CASE proc[b]
  <2>1. Finished(b, "failed") /\ Reply(b, "failed") /\ b \in severed'
    BY <1>4 DEF Complete
  <2> QED
    BY <1>1, <1>2, <2>1, RepliedKeeps DEF Results
<1> QED
  BY <1>3, <1>4, <1>2

\* The process tree is stopped before the result is kept, or the supervisor
\* stopped answering for it.
LEMMA AbortKeeps ==
  ASSUME IInv, NEW b \in Attempts, Abort(b)
  PROVE  IInv'
<1>1. /\ run[b] # None /\ Finished(b, "interrupted") /\ Reply(b, "interrupted")
      /\ UNCHANGED <<cloud, cancelling, executor, connected, starts, attach, faults>>
  BY DEF Abort, None
<1>2. /\ proc' \in [Attempts -> BOOLEAN]
      /\ \A a \in Attempts : (proc'[a] => proc[a]) /\ (a # b => proc'[a] = proc[a])
      /\ severed \subseteq severed' /\ severed' \subseteq Attempts
      /\ proc'[b] => b \in severed'
  BY DEF Abort, IInv, TypeOK
<1> QED
  BY <1>1, <1>2, RepliedKeeps DEF Results

LEMMA ShutdownKeeps ==
  ASSUME IInv, Shutdown
  PROVE  IInv'
<1>1. TypeOK'
  BY DEF IInv, TypeOK, Results, Outcomes, None, Shutdown, cloud, relay, machine, attach, faults
<1>2. Calls'
  BY DEF IInv, TypeOK, Calls, Results, None, Now, Shutdown, cloud, relay, machine, attach, faults
<1>3. NotYet' /\ Counted'
  BY DEF IInv, TypeOK, Calls, NotYet, Counted, None, Now, Shutdown, cloud, relay, machine, attach, faults
<1>4. Once'
  BY DEF IInv, TypeOK, Calls, NotYet, Counted, Once, Unrestarted, Life, Said, Results, None, Now, Shutdown,
     cloud, relay, machine, attach, faults
<1> QED
  BY <1>1, <1>2, <1>3, <1>4 DEF IInv

\* The attempts map is gone: the promises end here, and it was counted.
LEMMA CrashKeeps ==
  ASSUME IInv, Crash
  PROVE  IInv'
<1>0. Now' = Now
  BY DEF Crash, Now
<1>1. /\ executor' = "down" /\ run' \in [Attempts -> {None}] /\ linked' \in [Attempts -> 0..MaxResets + 1]
      /\ wire' \in [Attempts -> [Incarnations -> {None, "request", "held", "refused"} \cup Results]]
      /\ \A a \in Attempts, o \in Incarnations : wire[a][o] = None => wire'[a][o] = None
      /\ lane' = <<>> /\ step' = "start"
      /\ UNCHANGED <<row, settled, told, call, lost, again, cancelling, connected, saved, proc, starts, severed,
                     remote, local, prepared, drops, resets>>
  BY DispatchAssumption DEF Crash, Answered, IInv, TypeOK, None, cloud
<1>2. crashes' \in 0..MaxCrashes /\ crashes' > 0
  BY DispatchAssumption DEF Crash, IInv, TypeOK
<1>3. TypeOK'
  BY <1>1, <1>2 DEF IInv, TypeOK
<1>4. Calls'
  <2>1. Now \in Incarnations
    BY NowIs DEF IInv
  <2> QED
    BY <1>0, <1>1, <2>1 DEF IInv, Calls
<1>5. NotYet' /\ Counted' /\ Once'
  BY <1>1, <1>2 DEF IInv, NotYet, Counted, Once, Unrestarted
<1> QED
  BY <1>3, <1>4, <1>5 DEF IInv

LEMMA BootKeeps ==
  ASSUME IInv, Boot
  PROVE  IInv'
<1>1. TypeOK'
  BY DEF IInv, TypeOK, Results, Outcomes, None, Boot, cloud, relay, machine, attach, faults
<1>2. Calls'
  BY DEF IInv, TypeOK, Calls, Results, None, Now, Boot, cloud, relay, machine, attach, faults
<1>3. NotYet' /\ Counted'
  BY DEF IInv, TypeOK, Calls, NotYet, Counted, None, Now, Boot, cloud, relay, machine, attach, faults
<1>4. Once'
  BY DEF IInv, TypeOK, Calls, NotYet, Counted, Once, Unrestarted, Life, Said, Results, None, Now, Boot, cloud,
     relay, machine, attach, faults
<1> QED
  BY <1>1, <1>2, <1>3, <1>4 DEF IInv

-----------------------------------------------------------------------------
(* Attachments. *)

\* What a read of the assignments queues is a sequence of assignments.
LEMMA ListedSeq ==
  ASSUME NEW S \in SUBSET (Attachments \X {"attaching", "ready", "gone"})
  PROVE  SetToSeq(S) \in Seq(Attachments \X {"attaching", "ready", "gone"})
<1> DEFINE E == Attachments \X {"attaching", "ready", "gone"}
<1>1. IsFiniteSet(S)
  <2>1. IsFiniteSet(Attachments)
    <3>1. 1 \in Int /\ MaxAttachments \in Int
      BY DispatchAssumption
    <3> QED
      BY <3>1, FS_Interval DEF Attachments
  <2>2. IsFiniteSet({"attaching", "ready", "gone"})
    <3>1. IsFiniteSet({}) /\ IsFiniteSet({"attaching"})
      BY FS_EmptySet, FS_Singleton
    <3>2. IsFiniteSet({"attaching"} \cup {"ready"})
      BY <3>1, FS_AddElement
    <3>3. IsFiniteSet(({"attaching"} \cup {"ready"}) \cup {"gone"})
      BY <3>2, FS_AddElement
    <3>4. ({"attaching"} \cup {"ready"}) \cup {"gone"} = {"attaching", "ready", "gone"}
      OBVIOUS
    <3> QED
      BY <3>3, <3>4
  <2>3. IsFiniteSet(E)
    BY <2>1, <2>2, FS_Product
  <2> QED
    BY <2>3, FS_Subset
<1>2. PICK f \in [1..Cardinality(S) -> S] : IsInjective(f)
  <2>1. Cardinality(S) \in Nat /\ \E f : f \in Bijection(1..Cardinality(S), S)
    BY <1>1, FS_CardinalityType DEF ExistsBijection
  <2> QED
    BY <2>1 DEF Bijection, Injection
<1>3. SetToSeq(S) \in [1..Cardinality(S) -> S]
  BY <1>2 DEF SetToSeq
<1>4. Cardinality(S) \in Nat
  BY <1>1, FS_CardinalityType
<1> DEFINE n == Cardinality(S)
<1>5. SetToSeq(S) \in [1..n -> E] /\ n \in Nat
  BY <1>3, <1>4
<1> HIDE DEF n, E
<1>6. SetToSeq(S) \in Seq(E)
  BY <1>5, SeqDef
<1> QED
  BY <1>6 DEF E

LEMMA ReadAssignmentsKeeps ==
  ASSUME IInv, ReadAssignments
  PROVE  IInv'
<1> DEFINE E        == Attachments \X {"attaching", "ready", "gone"}
           listed   == {i \in Attachments : Live(i) /\ ~(remote[i] = "ready" /\ local[i] = "ready")}
           vanished == {i \in Attachments : ~Live(i) /\ local[i] \in {"attaching", "ready"}}
<1>1. lane' = SetToSeq({<<i, remote[i]>> : i \in listed}) \o SetToSeq(vanished \X {"gone"})
  BY DEF ReadAssignments
<1>2. {<<i, remote[i]>> : i \in listed} \in SUBSET E /\ vanished \X {"gone"} \in SUBSET E
  BY DEF Live
<1> DEFINE one == SetToSeq({<<i, remote[i]>> : i \in listed})
           two == SetToSeq(vanished \X {"gone"})
<1> HIDE DEF listed, vanished
<1>3. lane' \in Seq(E)
  <2>1. one \in Seq(E) /\ two \in Seq(E)
    BY <1>2, ListedSeq
  <2> HIDE DEF one, two, E
  <2>2. one \o two \in Seq(E)
    BY <2>1, ConcatProperties
  <2> QED
    BY <1>1, <2>2 DEF one, two
<1>4. UNCHANGED <<row, settled, told, call, lost, again, wire, cancelling, executor, connected, run, linked, saved,
                  proc, starts, severed, remote, local, prepared, step, drops, resets, crashes>>
  BY DEF ReadAssignments, cloud, relay, machine, faults
<1>5. TypeOK'
  BY <1>3, <1>4 DEF IInv, TypeOK
<1>6. Calls' /\ NotYet' /\ Counted' /\ Once'
  BY <1>4 DEF IInv, Calls, Now, NotYet, Counted, Once, Unrestarted, Life, Said
<1> QED
  BY <1>5, <1>6 DEF IInv

LEMMA DetachKeeps ==
  ASSUME IInv, NEW i \in Attachments, Detach(i)
  PROVE  IInv'
<1>1. TypeOK'
  BY DEF IInv, TypeOK, Results, Outcomes, None, Detach, cloud, relay, machine, attach, faults
<1>2. Calls'
  BY DEF IInv, TypeOK, Calls, Results, None, Now, Detach, cloud, relay, machine, attach, faults
<1>3. NotYet' /\ Counted'
  BY DEF IInv, TypeOK, Calls, NotYet, Counted, None, Now, Detach, cloud, relay, machine, attach, faults
<1>4. Once'
  BY DEF IInv, TypeOK, Calls, NotYet, Counted, Once, Unrestarted, Life, Said, Results, None, Now, Detach,
     cloud, relay, machine, attach, faults
<1> QED
  BY <1>1, <1>2, <1>3, <1>4 DEF IInv

LEMMA AttachKeeps ==
  ASSUME IInv, NEW i \in Attachments, Attach(i)
  PROVE  IInv'
<1>1. TypeOK'
  BY DEF IInv, TypeOK, Results, Outcomes, None, Attach, cloud, relay, machine, attach, faults
<1>2. Calls'
  BY DEF IInv, TypeOK, Calls, Results, None, Now, Attach, cloud, relay, machine, attach, faults
<1>3. NotYet' /\ Counted'
  BY DEF IInv, TypeOK, Calls, NotYet, Counted, None, Now, Attach, cloud, relay, machine, attach, faults
<1>4. Once'
  BY DEF IInv, TypeOK, Calls, NotYet, Counted, Once, Unrestarted, Life, Said, Results, None, Now, Attach,
     cloud, relay, machine, attach, faults
<1> QED
  BY <1>1, <1>2, <1>3, <1>4 DEF IInv

LEMMA InstallKeeps ==
  ASSUME IInv, NEW i \in Attachments, Install(i)
  PROVE  IInv'
<1>1. TypeOK'
  BY DEF IInv, TypeOK, Results, Outcomes, None, Install, Installed, AtHead, cloud, relay, machine, attach,
     faults
<1>2. Calls'
  BY DEF IInv, TypeOK, Calls, Results, None, Now, Install, Installed, AtHead, cloud, relay, machine, attach,
     faults
<1>3. NotYet' /\ Counted'
  BY DEF IInv, TypeOK, Calls, NotYet, Counted, None, Now, Install, Installed, AtHead, cloud, relay, machine,
     attach, faults
<1>4. Once'
  BY DEF IInv, TypeOK, Calls, NotYet, Counted, Once, Unrestarted, Life, Said, Results, None, Now, Install,
     Installed, AtHead, cloud, relay, machine, attach, faults
<1> QED
  BY <1>1, <1>2, <1>3, <1>4 DEF IInv

LEMMA PreparedKeeps ==
  ASSUME IInv, NEW i \in Attachments, Prepared(i)
  PROVE  IInv'
<1>1. TypeOK'
  BY DEF IInv, TypeOK, Results, Outcomes, None, Prepared, Installed, AtHead, cloud, relay, machine, attach,
     faults
<1>2. Calls'
  BY DEF IInv, TypeOK, Calls, Results, None, Now, Prepared, Installed, AtHead, cloud, relay, machine, attach,
     faults
<1>3. NotYet' /\ Counted'
  BY DEF IInv, TypeOK, Calls, NotYet, Counted, None, Now, Prepared, Installed, AtHead, cloud, relay, machine,
     attach, faults
<1>4. Once'
  BY DEF IInv, TypeOK, Calls, NotYet, Counted, Once, Unrestarted, Life, Said, Results, None, Now, Prepared,
     Installed, AtHead, cloud, relay, machine, attach, faults
<1> QED
  BY <1>1, <1>2, <1>3, <1>4 DEF IInv

\* What is left of a lane is one.
LEMMA TailSeq ==
  ASSUME NEW E, NEW s \in Seq(E), s # <<>>
  PROVE  Tail(s) \in Seq(E)
OBVIOUS

LEMMA ReinstallKeeps ==
  ASSUME IInv, NEW i \in Attachments, Reinstall(i)
  PROVE  IInv'
<1>1. TypeOK'
  <2>1. lane \in Seq(Attachments \X {"attaching", "ready", "gone"}) /\ lane # <<>> /\ lane' \in {lane, Tail(lane)}
    BY DEF Reinstall, AtHead, IInv, TypeOK
  <2>2. lane' \in Seq(Attachments \X {"attaching", "ready", "gone"})
    BY <2>1, TailSeq
  <2>3. /\ local' \in [Attachments -> {None, "attaching", "ready", "detached"}]
        /\ remote' \in [Attachments -> {None, "attaching", "ready", "detached"}]
        /\ step' \in {"start", "preparing", "announcing", "draining", "closing"}
    BY DEF Reinstall, Installed, IInv, TypeOK
  <2> QED
    BY <2>2, <2>3 DEF Reinstall, IInv, TypeOK, cloud, relay, machine, faults
<1>2. Calls'
  BY DEF IInv, TypeOK, Calls, Results, None, Now, Reinstall, Installed, AtHead, cloud, relay, machine, attach,
     faults
<1>3. NotYet' /\ Counted'
  BY DEF IInv, TypeOK, Calls, NotYet, Counted, None, Now, Reinstall, Installed, AtHead, cloud, relay, machine,
     attach, faults
<1>4. Once'
  BY DEF IInv, TypeOK, Calls, NotYet, Counted, Once, Unrestarted, Life, Said, Results, None, Now, Reinstall,
     Installed, AtHead, cloud, relay, machine, attach, faults
<1> QED
  BY <1>1, <1>2, <1>3, <1>4 DEF IInv

LEMMA AnnounceKeeps ==
  ASSUME IInv, NEW i \in Attachments, Announce(i)
  PROVE  IInv'
<1>1. TypeOK'
  <2>1. lane \in Seq(Attachments \X {"attaching", "ready", "gone"}) /\ lane # <<>> /\ lane' \in {lane, Tail(lane)}
    BY DEF Announce, AtHead, IInv, TypeOK
  <2>2. lane' \in Seq(Attachments \X {"attaching", "ready", "gone"})
    BY <2>1, TailSeq
  <2>3. Installed(i, "ready") \/ local' = local
    BY DEF Announce
  <2>4. local' \in [Attachments -> {None, "attaching", "ready", "detached"}]
    <3>1. CASE local' = local
      BY <3>1 DEF IInv, TypeOK
    <3>2. CASE Installed(i, "ready")
      BY <3>2 DEF Installed
    <3> QED
      BY <2>3, <3>1, <3>2
  <2>5. remote' = remote \/ remote' = [remote EXCEPT ![i] = "ready"]
    BY DEF Announce
  <2>6. remote' \in [Attachments -> {None, "attaching", "ready", "detached"}]
    BY <2>5 DEF IInv, TypeOK
  <2>7. step' = "start"
    BY DEF Announce
  <2> QED
    BY <2>2, <2>4, <2>6, <2>7 DEF Announce, IInv, TypeOK, cloud, relay, machine, faults
<1>2. Calls'
  BY DEF IInv, TypeOK, Calls, Results, None, Now, Announce, Installed, AtHead, cloud, relay, machine, attach,
     faults
<1>3. NotYet' /\ Counted'
  BY DEF IInv, TypeOK, Calls, NotYet, Counted, None, Now, Announce, Installed, AtHead, cloud, relay, machine,
     attach, faults
<1>4. Once'
  BY DEF IInv, TypeOK, Calls, NotYet, Counted, Once, Unrestarted, Life, Said, Results, None, Now, Announce,
     Installed, AtHead, cloud, relay, machine, attach, faults
<1> QED
  BY <1>1, <1>2, <1>3, <1>4 DEF IInv

\* The commands of a vanished attachment are aborted, not forgotten.
LEMMA ReleaseKeeps ==
  ASSUME IInv, NEW i \in Attachments, Release(i)
  PROVE  IInv'
<1>1. /\ run' \in [Attempts -> {None, "running", "aborting"}]
      /\ \A a \in Attempts : run'[a] = None <=> run[a] = None
      /\ UNCHANGED <<row, settled, told, call, lost, again, wire, cancelling, executor, connected, linked, saved,
                     proc, starts, severed, remote, local, prepared, drops, resets, crashes>>
  BY DEF Release, IInv, TypeOK, None, cloud, relay, faults
<1>2. lane' \in Seq(Attachments \X {"attaching", "ready", "gone"}) /\ step' \in {step, "draining"}
  <2>1. lane \in Seq(Attachments \X {"attaching", "ready", "gone"}) /\ lane # <<>>
    BY DEF Release, AtHead, IInv, TypeOK
  <2>2. lane' \in {lane, Tail(lane)} /\ step' \in {step, "draining"}
    BY DEF Release
  <2>3. lane' \in Seq(Attachments \X {"attaching", "ready", "gone"})
    BY <2>1, <2>2, TailSeq
  <2> QED
    BY <2>2, <2>3
<1>3. TypeOK'
  BY <1>1, <1>2 DEF IInv, TypeOK
<1>4. Calls' /\ NotYet' /\ Counted'
  BY <1>1 DEF IInv, Calls, Now, NotYet, Counted
<1>5. Once'
  BY <1>1, DispatchAssumption DEF IInv, Once, Unrestarted, Life, Said, Results, None, Now
<1> QED
  BY <1>3, <1>4, <1>5 DEF IInv

LEMMA DrainedKeeps ==
  ASSUME IInv, NEW i \in Attachments, Drained(i)
  PROVE  IInv'
<1>1. TypeOK'
  BY DEF IInv, TypeOK, Results, Outcomes, None, Drained, AtHead, cloud, relay, machine, attach, faults
<1>2. Calls'
  BY DEF IInv, TypeOK, Calls, Results, None, Now, Drained, AtHead, cloud, relay, machine, attach, faults
<1>3. NotYet' /\ Counted'
  BY DEF IInv, TypeOK, Calls, NotYet, Counted, None, Now, Drained, AtHead, cloud, relay, machine, attach, faults
<1>4. Once'
  BY DEF IInv, TypeOK, Calls, NotYet, Counted, Once, Unrestarted, Life, Said, Results, None, Now, Drained,
     AtHead, cloud, relay, machine, attach, faults
<1> QED
  BY <1>1, <1>2, <1>3, <1>4 DEF IInv

LEMMA ReleasedKeeps ==
  ASSUME IInv, NEW i \in Attachments, Released(i)
  PROVE  IInv'
<1>1. TypeOK'
  BY DEF IInv, TypeOK, Results, Outcomes, None, Released, Installed, AtHead, cloud, relay, machine, attach,
     faults
<1>2. Calls'
  BY DEF IInv, TypeOK, Calls, Results, None, Now, Released, Installed, AtHead, cloud, relay, machine, attach,
     faults
<1>3. NotYet' /\ Counted'
  BY DEF IInv, TypeOK, Calls, NotYet, Counted, None, Now, Released, Installed, AtHead, cloud, relay, machine,
     attach, faults
<1>4. Once'
  BY DEF IInv, TypeOK, Calls, NotYet, Counted, Once, Unrestarted, Life, Said, Results, None, Now, Released,
     Installed, AtHead, cloud, relay, machine, attach, faults
<1> QED
  BY <1>1, <1>2, <1>3, <1>4 DEF IInv

-----------------------------------------------------------------------------
(* The theorems. *)

LEMMA InitIInv == Init => IInv
<1> SUFFICES ASSUME Init PROVE IInv
  OBVIOUS
<1>1. /\ \A a \in Attempts : /\ row[a] = 0 /\ settled[a] = None /\ call[a] = "idle" /\ starts[a] = 0
                             /\ run[a] = None /\ ~proc[a] /\ saved[a] = None
                             /\ \A o \in Incarnations : wire[a][o] = None
      /\ executor = "up"
  BY DEF Init
<1>2. TypeOK
  <2>1. /\ lost \in [Attempts -> BOOLEAN] /\ cancelling \in [Attempts -> [Incarnations -> BOOLEAN]]
        /\ linked \in [Attempts -> 0..MaxResets + 1]
        /\ proc \in [Attempts -> BOOLEAN] /\ connected \in BOOLEAN /\ prepared \subseteq Attachments
    BY DispatchAssumption DEF Init, Attachments
  <2> QED
    BY <2>1, DispatchAssumption DEF Init, TypeOK, None
<1>3. Now \in Incarnations
  BY <1>2, NowIs
<1>4. Calls /\ NotYet /\ Counted
  BY <1>1, <1>3 DEF Calls, NotYet, Counted, None
<1>5. Once
  BY <1>1, <1>3, DispatchAssumption DEF Once, Life, Said, Results, None
<1> QED
  BY <1>2, <1>4, <1>5 DEF IInv

LEMMA StepIInv == IInv /\ [Next]_vars => IInv'
<1> SUFFICES ASSUME IInv, [Next]_vars PROVE IInv'
  OBVIOUS
<1>1. CASE UNCHANGED vars
  BY <1>1 DEF IInv, TypeOK, Calls, Now, NotYet, Counted, Once, Unrestarted, Life, Said, vars, cloud, relay, machine,
              attach, faults
<1>2. ASSUME NEW a \in Attempts,
             \/ Dispatch(a) \/ Resume(a) \/ Send(a) \/ Retry(a) \/ GiveUp(a) \/ Answer(a) \/ Cancel(a)
             \/ Reconcile(a)
      PROVE  IInv'
  BY <1>2, DispatchKeeps, ResumeKeeps, SendKeeps, RetryKeeps, GiveUpKeeps, AnswerKeeps, CancelKeeps, ReconcileKeeps
<1>3. ASSUME NEW a \in Attempts, NEW o \in Incarnations, Deliver(a, o) \/ DeliverCancel(a, o)
      PROVE  IInv'
  BY <1>3, DeliverKeeps, DeliverCancelKeeps
<1>4. ASSUME NEW a \in Attempts, Deadline(a) \/ ProcessExits(a) \/ Complete(a) \/ Abort(a)
      PROVE  IInv'
  BY <1>4, DeadlineKeeps, ProcessExitsKeeps, CompleteKeeps, AbortKeeps
<1>5. CASE Reset \/ Drop \/ Connect \/ Shutdown \/ Crash \/ Boot \/ ReadAssignments
  BY <1>5, ResetKeeps, DropKeeps, ConnectKeeps, ShutdownKeeps, CrashKeeps, BootKeeps, ReadAssignmentsKeeps
<1>6. ASSUME NEW i \in Attachments,
             \/ Detach(i) \/ Attach(i) \/ Install(i) \/ Prepared(i) \/ Reinstall(i) \/ Announce(i)
             \/ Release(i) \/ Drained(i) \/ Released(i)
      PROVE  IInv'
  BY <1>6, DetachKeeps, AttachKeeps, InstallKeeps, PreparedKeeps, ReinstallKeeps, AnnounceKeeps, ReleaseKeeps,
     DrainedKeeps, ReleasedKeeps
<1> QED
  BY <1>1, <1>2, <1>3, <1>4, <1>5, <1>6 DEF Next

\* The inductive invariant holds of every reachable state.
THEOREM Invariance == Spec => []IInv
BY InitIInv, StepIInv, PTL DEF Spec

\* Every variable keeps its type; the lane stays a sequence of assignments.
THEOREM TypeCorrect == Spec => []TypeOK
<1>1. IInv => TypeOK
  BY DEF IInv
<1> QED
  BY <1>1, Invariance, PTL

\* executor.ts starts a command that must not be repeated at most once while the
\* machine's process runs, whatever the relay loses or the cloud repeats.
THEOREM StartedOnce == Spec => []RunsOnce
<1>1. IInv => RunsOnce
  BY DEF IInv, Once, Life, RunsOnce
<1> QED
  BY <1>1, Invariance, PTL

\* AttachmentStore.execute settles a refusal only of a command that never ran,
\* and that never will, unless its task called again after a restart.
THEOREM RefusalsTrue == Spec => []RefusedNeverRan
<1>1. IInv => RefusedNeverRan
  BY DEF IInv, Once, Said, RefusedNeverRan
<1> QED
  BY <1>1, Invariance, PTL

\* A settled answer of the machine is the result its journal holds, of a command
\* that is over unless the supervisor stopped answering for it.
THEOREM AnswersFinal == Spec => []AnswerIsFinal
<1>1. IInv => AnswerIsFinal
  BY DEF IInv, Once, Life, Said, Results, None, Now, Wire, AnswerIsFinal
<1> QED
  BY <1>1, Invariance, PTL
=============================================================================
