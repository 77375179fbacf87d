-------------------------- MODULE LiveWindowProofs --------------------------
(***************************************************************************)
(* A verdict of validate_live_merge_ready rests on two complete batches:   *)
(* one that ended before the window began and one that began after it      *)
(* ended.  The inductive invariant follows the batch under way: what it    *)
(* has read so far, when, and with what answer.                            *)
(***************************************************************************)
EXTENDS LiveWindow, TLAPS

Positions == 0..LastPosition

\* Position p was served in the batch under way, and its answer is not refused.
ReadAt(p) == at = "close" \/ (Reading /\ (p < n \/ (p = n /\ got \in {0, 1})))
AcceptedAt(p) == at = "close" \/ (Reading /\ (p < n \/ (p = n /\ got = 0)))

\* A batch runs in three of the stages, and only a reading one has a request.
OneBatch ==
    /\ at = "idle" <=> stage \notin {"opening", "polling", "ending"}
    /\ ~Reading => got = Nothing

\* What was served was served in the past.
ServedBefore ==
    \A i \in Indexes : /\ first[i] # Never => first[i] <= mono
                       /\ last[i] # Never => last[i] <= mono

WindowBegan == stage \in {"loop", "nap", "asleep", "polling", "ending", "verdict", "passed"}

\* The opening batch serves every original, and the window begins after it.
ReadBefore ==
    /\ stage = "opening" => \A p \in Positions : ReadAt(p) => first[Original(p)] # Never
    /\ WindowBegan => \A i \in Indexes : first[i] # Never /\ first[i] <= start

\* The ending batch begins after the window and serves every original again.
ReadAfter ==
    /\ stage = "ending" =>
         /\ mono >= deadline
         /\ at \in {"reading", "close"} =>
               /\ deadline + LIVE_BATCH_TIMEOUT_SECONDS <= batch
               /\ batch <= mono + LIVE_BATCH_TIMEOUT_SECONDS
         /\ \A p \in Positions : ReadAt(p) =>
               /\ last[Original(p)] # Never
               /\ batch <= last[Original(p)] + LIVE_BATCH_TIMEOUT_SECONDS
         /\ at = "close" => \A i \in Indexes : last[i] <= batch
    /\ stage \in {"verdict", "passed"} =>
         /\ deadline + LIVE_BATCH_TIMEOUT_SECONDS <= batch
         /\ \A i \in Indexes : /\ last[i] # Never
                               /\ batch <= last[i] + LIVE_BATCH_TIMEOUT_SECONDS
                               /\ last[i] <= batch

DriftedLate(i) == drift[i] # Never => drift[i] >= deadline

\* While nothing has reverted, an original served as in the evidence after the
\* window has not changed before the window's end.
Unchanged ==
    ~reverted =>
      /\ \A i \in Indexes : remote[i] = 1 <=> drift[i] # Never
      /\ stage = "ending" => \A p \in Positions : AcceptedAt(p) => DriftedLate(Original(p))
      /\ stage \in {"verdict", "passed"} => \A i \in Indexes : DriftedLate(i)

IInv == TypeOK /\ OneBatch /\ ServedBefore /\ ReadBefore /\ ReadAfter /\ Unchanged

-----------------------------------------------------------------------------
\* A position stands for one of the originals, and every original has one.
LEMMA PositionsCover ==
  /\ \A p \in Positions : Original(p) \in Indexes
  /\ \A i \in Indexes : i \in Positions /\ Original(i) = i
BY TimeAssumption DEF Positions, LastPosition, Original, Indexes

\* Nothing has been read, nothing has changed.
LEMMA InitIInv == Init => IInv
<1> SUFFICES ASSUME Init PROVE IInv
  OBVIOUS
<1> USE TimeAssumption, MarkAssumption DEF Init
<1>1. TypeOK
  <2>1. 0 \in Times /\ 0 \in 0..MaxLag /\ 0 \in 0..(Originals + 1)
    BY DEF Times
  <2> QED BY <2>1 DEF TypeOK
<1>2. OneBatch /\ ServedBefore
  BY DEF OneBatch, ServedBefore, Reading
<1>3. ReadBefore /\ ReadAfter
  BY DEF ReadBefore, ReadAfter, WindowBegan
<1>4. Unchanged
  BY DEF Unchanged
<1> QED BY <1>1, <1>2, <1>3, <1>4 DEF IInv

\* A failed requirement leaves the histories as they are and no batch under way.
LEMMA FailInv == IInv /\ Fail => IInv'
BY MarkAssumption
   DEF Fail, Ended, IInv, TypeOK, OneBatch, ServedBefore, ReadBefore, ReadAfter,
       Unchanged, WindowBegan, DriftedLate, Reading, clocks, history

\* The first check of the residuals opens a batch, or fails.
LEMMA BeginInv == IInv /\ Begin => IInv'
<1> SUFFICES ASSUME IInv, Begin, ~Fail PROVE IInv'
  BY FailInv
<1> USE TimeAssumption, MarkAssumption
   DEF IInv, Begin, require_live_residual_validity, Goto, clocks, history
<1>1. TypeOK'
  BY DEF TypeOK
<1>2. OneBatch'
  BY DEF OneBatch, Reading
<1>3. ServedBefore'
  BY DEF ServedBefore
<1>4. ReadBefore'
  BY DEF ReadBefore, WindowBegan, ReadAt, Reading
<1>5. ReadAfter'
  BY DEF ReadAfter
<1>6. Unchanged'
  BY DEF Unchanged
<1> QED BY <1>1, <1>2, <1>3, <1>4, <1>5, <1>6

\* A new batch has read nothing and ends one batch's time from now.
LEMMA begin_batchInv == IInv /\ begin_batch => IInv'
<1> SUFFICES ASSUME IInv, begin_batch, ~Fail PROVE IInv'
  BY FailInv
<1> USE TimeAssumption, MarkAssumption
   DEF IInv, begin_batch, require_live_residual_validity, Goto, clocks, history
<1>1. TypeOK'
  BY DEF TypeOK, BatchEnd, Times
<1>2. OneBatch'
  BY DEF OneBatch, Reading
<1>3. ServedBefore'
  BY DEF ServedBefore
<1>4. ReadBefore'
  BY DEF OneBatch, ReadBefore, WindowBegan, ReadAt, Reading, Positions
<1>5. ReadAfter'
  BY DEF TypeOK, OneBatch, ReadAfter, ReadAt, Reading, deadline, BatchEnd,
         Positions, Times
<1>6. Unchanged'
  BY DEF OneBatch, Unchanged, AcceptedAt, Reading, Positions
<1> QED BY <1>1, <1>2, <1>3, <1>4, <1>5, <1>6

\* A request leaves, and nothing more is read yet.
LEMMA RequestInv == IInv /\ _request => IInv'
<1> SUFFICES ASSUME IInv, _request, ~Fail PROVE IInv'
  BY FailInv
<1> USE TimeAssumption, MarkAssumption
   DEF IInv, _request, require_live_residual_validity, Goto, clocks, history
<1>1. TypeOK'
  BY DEF TypeOK
<1>2. OneBatch'
  BY DEF OneBatch, Reading
<1>3. ServedBefore'
  BY DEF ServedBefore
<1>4. ReadBefore'
  BY DEF ReadBefore, WindowBegan, ReadAt
<1>5. ReadAfter'
  BY DEF ReadAfter, ReadAt, deadline
<1>6. Unchanged'
  BY DEF Unchanged, AcceptedAt, DriftedLate, deadline
<1> QED BY <1>1, <1>2, <1>3, <1>4, <1>5, <1>6

\* An answer in time and as in the evidence completes its position.
LEMMA ReceiveInv == IInv /\ Receive => IInv'
<1> SUFFICES ASSUME IInv, Receive, ~Fail PROVE IInv'
  BY FailInv
<1> USE TimeAssumption, MarkAssumption
   DEF IInv, Receive, require_live_residual_validity, Goto, clocks, history
<1>1. TypeOK'
  BY DEF TypeOK, LastPosition
<1>2. OneBatch'
  BY DEF OneBatch, Reading
<1>3. ServedBefore'
  BY DEF ServedBefore
<1>4. ReadBefore'
  BY DEF TypeOK, ReadBefore, WindowBegan, ReadAt, Positions
<1>5. ReadAfter'
  BY PositionsCover
     DEF TypeOK, ServedBefore, ReadAfter, ReadAt, Reading, deadline, Positions,
         Times
<1>6. Unchanged'
  BY DEF TypeOK, Unchanged, AcceptedAt, DriftedLate, deadline, Positions
<1> QED BY <1>1, <1>2, <1>3, <1>4, <1>5, <1>6

\* A complete batch starts the window, ends a poll, or leads to the verdict.
LEMMA CloseInv == IInv /\ Close => IInv'
<1> SUFFICES ASSUME IInv, Close, ~Fail PROVE IInv'
  BY FailInv
<1> USE TimeAssumption, MarkAssumption
   DEF IInv, Close, require_live_residual_validity, Goto, clocks, history
<1>1. TypeOK'
  BY DEF TypeOK
<1>2. OneBatch'
  BY DEF OneBatch, Reading
<1>3. ServedBefore'
  BY DEF ServedBefore
<1>4. ReadBefore'
  BY PositionsCover DEF ServedBefore, ReadBefore, WindowBegan, ReadAt
<1>5. ReadAfter'
  BY PositionsCover DEF ReadAfter, ReadAt, deadline
<1>6. Unchanged'
  BY PositionsCover DEF Unchanged, AcceptedAt, DriftedLate, deadline
<1> QED BY <1>1, <1>2, <1>3, <1>4, <1>5, <1>6

\* The loop goes to the ending batch only at the deadline.
LEMMA LoopInv == IInv /\ Loop => IInv'
<1> SUFFICES ASSUME IInv, Loop, ~Fail PROVE IInv'
  BY FailInv
<1> USE TimeAssumption, MarkAssumption
   DEF IInv, Loop, require_live_residual_validity, Goto, clocks, history
<1>1. TypeOK'
  BY DEF TypeOK, FinalRead
<1>2. OneBatch'
  BY DEF OneBatch, Reading, FinalRead
<1>3. ServedBefore'
  BY DEF ServedBefore
<1>4. ReadBefore'
  BY PositionsCover DEF ReadBefore, WindowBegan
<1>5. ReadAfter'
  BY DEF ReadAfter, ReadAt, Reading, deadline, FinalRead
<1>6. Unchanged'
  BY DEF Unchanged, AcceptedAt, Reading, FinalRead
<1> QED BY <1>1, <1>2, <1>3, <1>4, <1>5, <1>6

\* Only the end of the sleep is chosen.
LEMMA NapInv == IInv /\ Nap => IInv'
<1> SUFFICES ASSUME IInv, Nap, ~Fail PROVE IInv'
  BY FailInv
<1> USE TimeAssumption, MarkAssumption
   DEF IInv, Nap, require_live_residual_validity, Goto, clocks, history
<1>1. TypeOK'
  BY DEF TypeOK, Times
<1>2. OneBatch'
  BY DEF OneBatch, Reading
<1>3. ServedBefore'
  BY DEF ServedBefore
<1>4. ReadBefore'
  BY DEF ReadBefore, WindowBegan
<1>5. ReadAfter'
  BY DEF ReadAfter
<1>6. Unchanged'
  BY DEF Unchanged
<1> QED BY <1>1, <1>2, <1>3, <1>4, <1>5, <1>6

\* A poll begins; nothing is required of it.
LEMMA WakeInv == IInv /\ Wake => IInv'
<1> SUFFICES ASSUME IInv, Wake, ~Fail PROVE IInv'
  BY FailInv
<1> USE TimeAssumption, MarkAssumption
   DEF IInv, Wake, require_live_residual_validity, Goto, clocks, history
<1>1. TypeOK'
  BY DEF TypeOK
<1>2. OneBatch'
  BY DEF OneBatch, Reading
<1>3. ServedBefore'
  BY DEF ServedBefore
<1>4. ReadBefore'
  BY DEF ReadBefore, WindowBegan
<1>5. ReadAfter'
  BY DEF ReadAfter
<1>6. Unchanged'
  BY DEF Unchanged
<1> QED BY <1>1, <1>2, <1>3, <1>4, <1>5, <1>6

\* The verdict changes nothing the invariant rests on.
LEMMA VerdictInv == IInv /\ Verdict => IInv'
<1> SUFFICES ASSUME IInv, Verdict, ~Fail PROVE IInv'
  BY FailInv
<1> USE TimeAssumption, MarkAssumption
   DEF IInv, Verdict, require_live_residual_validity, Goto, clocks, history
<1>1. TypeOK'
  BY DEF TypeOK
<1>2. OneBatch'
  BY DEF OneBatch, Reading
<1>3. ServedBefore'
  BY DEF ServedBefore
<1>4. ReadBefore'
  BY DEF ReadBefore, WindowBegan
<1>5. ReadAfter'
  BY DEF ReadAfter, deadline
<1>6. Unchanged'
  BY DEF Unchanged, DriftedLate, deadline
<1> QED BY <1>1, <1>2, <1>3, <1>4, <1>5, <1>6

\* GitHub serves one position: now, and as the original is now.
LEMMA ServeInv == IInv /\ Serve => IInv'
<1> SUFFICES ASSUME IInv, Serve PROVE IInv'
  OBVIOUS
<1> USE TimeAssumption, MarkAssumption, PositionsCover DEF IInv, Serve
<1> DEFINE i == Original(n)
<1>1. /\ Reading /\ i \in Indexes
      /\ first' \in [Indexes -> Times \cup {Never}] /\ last' \in [Indexes -> Times \cup {Never}]
      /\ last'[i] = mono /\ \A j \in Indexes : j # i => last'[j] = last[j]
      /\ \A j \in Indexes : first'[j] = IF j = i /\ first[j] = Never THEN mono ELSE first[j]
      /\ mono \in Times /\ mono # Never /\ mono' = mono
      /\ got' \in {0, 1} /\ got' = remote[i]
  BY DEF TypeOK, OneBatch, Positions, LastPosition, Times, clocks
<1> HIDE DEF i
<1>2. TypeOK'
  BY <1>1 DEF TypeOK, clocks
<1>3. OneBatch'
  BY <1>1 DEF OneBatch, Reading
<1>4. ServedBefore'
  BY <1>1 DEF ServedBefore, Times
<1>5. ReadBefore'
  BY <1>1 DEF ReadBefore, WindowBegan, ReadAt
<1>6. ReadAfter'
  BY <1>1 DEF OneBatch, ReadAfter, ReadAt, Reading, deadline
<1>7. Unchanged'
  BY <1>1 DEF Unchanged, AcceptedAt, DriftedLate, deadline, i
<1> QED BY <1>2, <1>3, <1>4, <1>5, <1>6, <1>7

\* An original changes: now, and after the deadline once the window ended.
LEMMA DriftInv == ASSUME IInv, NEW i \in Indexes, Drift(i) PROVE IInv'
<1> USE TimeAssumption, MarkAssumption, PositionsCover DEF IInv, Drift
<1>1. /\ remote' \in [Indexes -> {0, 1}] /\ drift' \in [Indexes -> Times \cup {Never}]
      /\ remote'[i] = 1 - remote[i] /\ \A j \in Indexes : j # i => remote'[j] = remote[j]
      /\ \A j \in Indexes : drift'[j] = IF j = i /\ drift[j] = Never THEN mono ELSE drift[j]
      /\ mono \in Times /\ mono # Never /\ mono' = mono
  BY DEF TypeOK, Times, clocks
<1>a. ~reverted' => ~reverted /\ remote[i] = 0
  BY DEF TypeOK
<1>b. ~reverted' => drift[i] = Never /\ drift'[i] = mono
  BY <1>1, <1>a DEF Unchanged
<1>2. TypeOK'
  BY <1>1 DEF TypeOK, clocks
<1>3. OneBatch'
  BY <1>1 DEF OneBatch, Reading
<1>4. ServedBefore'
  BY <1>1 DEF ServedBefore
<1>5. ReadBefore'
  BY DEF ReadBefore, WindowBegan, ReadAt, Reading
<1>6. ReadAfter'
  BY <1>1 DEF ReadAfter, ReadAt, Reading, deadline
<1>7. Unchanged'
  <2> SUFFICES ASSUME ~reverted' PROVE Unchanged'
    BY DEF Unchanged
  <2>1. \A j \in Indexes : remote'[j] = 1 <=> drift'[j] # Never
    BY <1>1, <1>a DEF Unchanged
  <2>2. stage' = "ending" =>
          \A p \in Positions : AcceptedAt(p)' => DriftedLate(Original(p))'
    BY <1>a DEF Unchanged, AcceptedAt, DriftedLate, Reading, deadline, ReadAfter
  <2>3. stage \in {"verdict", "passed"} => mono >= deadline
    BY DEF TypeOK, ServedBefore, ReadAfter, deadline, Times
  <2>4. stage' \in {"verdict", "passed"} => \A j \in Indexes : DriftedLate(j)'
    BY <1>a, <2>3 DEF Unchanged, DriftedLate, deadline
  <2> QED BY <2>1, <2>2, <2>4 DEF Unchanged
<1> QED BY <1>2, <1>3, <1>4, <1>5, <1>6, <1>7

\* Time passes; what was read in the past stays in the past.
LEMMA ElapseInv == IInv /\ Elapse => IInv'
<1> SUFFICES ASSUME IInv, Elapse PROVE IInv'
  OBVIOUS
<1> USE TimeAssumption, MarkAssumption DEF IInv, Elapse, history
<1>1. mono' \in Times /\ mono' >= mono /\ lag' \in 0..MaxLag /\ mono \in Times
  BY DEF TypeOK, Pass, Tick, Suspend, Times
<1>2. TypeOK'
  BY <1>1 DEF TypeOK
<1>3. OneBatch'
  BY DEF OneBatch, Reading
<1>4. ServedBefore'
  BY <1>1 DEF ServedBefore, TypeOK, Times
<1>5. ReadBefore'
  BY DEF ReadBefore, WindowBegan, ReadAt, Reading
<1>6. ReadAfter'
  <2>1. \A p \in Positions : ReadAt(p)' <=> ReadAt(p)
    BY DEF ReadAt, Reading
  <2>2. \A x \in Nat : mono >= x => mono' >= x
    BY <1>1 DEF Times
  <2>3. batch \in Nat /\ deadline \in Nat /\ deadline' = deadline
    BY DEF TypeOK, Times, deadline
  <2>4. batch <= mono + LIVE_BATCH_TIMEOUT_SECONDS
          => batch <= mono' + LIVE_BATCH_TIMEOUT_SECONDS
    <3>1. /\ mono \in Nat /\ mono' \in Nat /\ mono' >= mono
          /\ LIVE_BATCH_TIMEOUT_SECONDS \in Nat
      BY <1>1 DEF Times
    <3>2. \A b, m, q, t \in Nat : q >= m /\ b <= m + t => b <= q + t
      OBVIOUS
    <3> QED BY <3>1, <3>2, <2>3
  <2> QED BY <2>1, <2>2, <2>3, <2>4 DEF ReadAfter
<1>7. Unchanged'
  BY DEF Unchanged, AcceptedAt, DriftedLate, Reading, deadline
<1> QED BY <1>2, <1>3, <1>4, <1>5, <1>6, <1>7

\* Every step of the process, of GitHub and of the clocks keeps the invariant.
LEMMA NextInv == IInv /\ [Next]_vars => IInv'
<1> SUFFICES ASSUME IInv, [Next]_vars PROVE IInv'
  OBVIOUS
<1>1. CASE UNCHANGED vars
  BY <1>1
     DEF vars, clocks, history, IInv, TypeOK, OneBatch, ServedBefore,
         ReadBefore,
       ReadAfter, Unchanged, WindowBegan, ReadAt, AcceptedAt, DriftedLate, Reading, deadline
<1>2. CASE Step
  BY <1>2, BeginInv, begin_batchInv, RequestInv, ReceiveInv, FailInv, CloseInv, LoopInv,
     NapInv, WakeInv, VerdictInv DEF Step, LoseRequest
<1>3. CASE Serve
  BY <1>3, ServeInv
<1>4. CASE Elapse
  BY <1>4, ElapseInv
<1>5. CASE \E i \in Indexes : Drift(i)
  BY <1>5, DriftInv
<1> QED BY <1>1, <1>2, <1>3, <1>4, <1>5 DEF Next

-----------------------------------------------------------------------------
\* The invariant bounds the last reads of a verdict from both sides.
LEMMA Verdicts == IInv => Inv /\ StableWindow
<1> SUFFICES ASSUME IInv PROVE Inv /\ StableWindow
  OBVIOUS
<1> USE TimeAssumption, MarkAssumption DEF IInv
<1>1. Bracketed
  BY DEF TypeOK, ReadBefore, ReadAfter, WindowBegan, Bracketed, Times, deadline
<1>2. LastReadsTogether
  BY DEF TypeOK, ReadAfter, LastReadsTogether, Times
<1>3. StableWindow
  BY DEF Unchanged, DriftedLate, StableWindow
<1> QED BY <1>1, <1>2, <1>3 DEF Inv

\* Whatever the window, the interval and the number of originals, a verdict of
\* validate_live_merge_ready rests on a read of every original before the window
\* and on one after it, the latter all within one batch's time of each other.
THEOREM Invariance == Spec => []Inv
<1>1. Spec => []IInv
  BY InitIInv, NextInv, PTL DEF Spec
<1> QED BY <1>1, Verdicts, PTL

\* When no original regains its old bytes, a verdict of validate_live_merge_ready
\* means that main, the pull request and the jobs stood still for the whole window.
THEOREM WindowIsStable == Spec => []StableWindow
<1>1. Spec => []IInv
  BY InitIInv, NextInv, PTL DEF Spec
<1> QED BY <1>1, Verdicts, PTL
=============================================================================
