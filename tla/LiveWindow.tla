----------------------------- MODULE LiveWindow -----------------------------
(***************************************************************************)
(* validate_live_merge_ready and verify_live_snapshot                      *)
(* (scripts/validate_governance_state.py): one process reads GitHub again  *)
(* and again over a window of monotonic time while main, the pull request  *)
(* and the jobs may change under it, requests may hang or fail, and the    *)
(* process may be descheduled or suspended between any two steps.          *)
(*                                                                         *)
(* The evidence packages name, for each remote original, the bytes it must *)
(* still have.  Original 0 is refs/heads/main; the others are the API      *)
(* responses, the candidate, and each job, log and execution commit, in    *)
(* the order read.  Only "as in the evidence" or not matters: version 0 is *)
(* the one in the evidence.                                                *)
(***************************************************************************)
EXTENDS Naturals

CONSTANTS Originals,     \* how many originals there are besides main
          LIVE_POLL_SECONDS, LIVE_WINDOW_SECONDS, LIVE_BATCH_TIMEOUT_SECONDS,
          Expiry,        \* UTC instant at which the accepted residuals expire
          MaxStart,      \* bound on the time before the window begins
          MaxMono,       \* bound on monotonic time
          MaxLag,        \* bound on the time spent suspended
          Never, Nothing, Sent

ASSUME TimeAssumption ==
    /\ Originals \in Nat /\ Expiry \in Nat /\ MaxLag \in Nat
    /\ MaxStart \in Nat /\ MaxMono \in Nat
    /\ LIVE_POLL_SECONDS \in Nat \ {0}
    /\ LIVE_WINDOW_SECONDS \in Nat \ {0}
    /\ LIVE_BATCH_TIMEOUT_SECONDS \in Nat \ {0}
    /\ MaxStart + LIVE_WINDOW_SECONDS <= MaxMono  \* every window can end

\* The marks are no instants and no versions.
ASSUME MarkAssumption ==
    /\ Never \notin 0..MaxMono
    /\ Nothing \notin {0, 1} /\ Sent \notin {0, 1} /\ Nothing # Sent

VARIABLES remote,    \* which originals differ from the evidence at GitHub
          mono, lag, \* monotonic time; UTC is ahead of it by the time suspended
          stage,     \* where validate_live_merge_ready stands
          at, n,     \* where verify_live_snapshot stands in one batch, and the
                     \* position it reads there
          got,       \* the request under way, or the answer on its way back
          batch,     \* LiveGitHubReader._deadline
          start,     \* when the window began
          wake,      \* when the sleep ends
          first, last,  \* history: when each original was first and last served
          drift,     \* history: when each original first differed
          reverted   \* history: whether an original has returned to its old bytes

clocks == <<mono, lag>>
history == <<first, last, drift, reverted>>
vars == <<remote, clocks, stage, at, n, got, batch, start, wake, history>>

Indexes == 0..Originals

\* One batch reads main, every other original, and main once more.
Original(k) == IF k = Originals + 1 THEN 0 ELSE k

Times == 0..MaxMono
utc == mono + lag
ResidualsValid == utc < Expiry
deadline == start + LIVE_WINDOW_SECONDS

Init ==
    /\ remote = [i \in Indexes |-> 0]
    /\ mono = 0 /\ lag = 0
    /\ stage = "check" /\ at = "idle" /\ n = 0 /\ got = Nothing
    /\ batch = 0 /\ start = 0 /\ wake = 0
    /\ first = [i \in Indexes |-> Never]
    /\ last = [i \in Indexes |-> Never]
    /\ drift = [i \in Indexes |-> Never] /\ reverted = FALSE

-----------------------------------------------------------------------------
(* The world *)

Tick ==
    /\ mono < IF stage \in {"check", "opening"} THEN MaxStart ELSE MaxMono
    /\ mono' = mono + 1
    /\ UNCHANGED lag

\* The machine sleeps: UTC moves on, the monotonic clock stands still.
Suspend == lag < MaxLag /\ lag' = lag + 1 /\ UNCHANGED mono

Pass == Tick \/ Suspend

Drift(i) ==
    /\ remote' = [remote EXCEPT ![i] = 1 - @]
    /\ drift' = [drift EXCEPT ![i] = IF @ = Never THEN mono ELSE @]
    /\ reverted' = (reverted \/ remote[i] = 1)
    /\ UNCHANGED <<clocks, stage, at, n, got, batch, start, wake, first, last>>

\* GitHub answers with the original as it is when the request arrives.
Serve ==
    /\ got = Sent
    /\ LET i == Original(n) IN
       /\ got' = remote[i]
       /\ first' = [first EXCEPT ![i] = IF @ = Never THEN mono ELSE @]
       /\ last' = [last EXCEPT ![i] = mono]
    /\ UNCHANGED <<remote, clocks, stage, at, n, batch, start, wake, drift, reverted>>

Elapse == Pass /\ UNCHANGED <<remote, stage, at, n, got, batch, start, wake, history>>

-----------------------------------------------------------------------------
(* The process.  A failed requirement ends it for good. *)

Done == stage \in {"passed", "failed"}

Ended == at' = "idle" /\ got' = Nothing
         /\ UNCHANGED <<remote, clocks, n, batch, start, wake, history>>

\* Mutant: a failed requirement starts the validation over.
StartOver == stage' = "check" /\ Ended

Fail == stage' = "failed" /\ Ended

Goto(s, a) == stage' = s /\ at' = a

\* require_live_residual_validity, then either go on or fail.
require_live_residual_validity(goOn) ==
    \/ ResidualsValid /\ goOn
    \/ ~ResidualsValid /\ Fail

Begin ==
    /\ stage = "check"
    /\ require_live_residual_validity(
          /\ Goto("opening", "open")
          /\ UNCHANGED <<remote, clocks, n, got, batch, start, wake, history>>)

\* Mutant: the batch is given the whole window.
WindowBatch == mono + LIVE_WINDOW_SECONDS

BatchEnd == mono + LIVE_BATCH_TIMEOUT_SECONDS

begin_batch ==
    /\ at = "open"
    /\ require_live_residual_validity(
          /\ Goto(stage, "reading") /\ n' = 0
          /\ batch' = BatchEnd
          /\ UNCHANGED <<remote, clocks, got, start, wake, history>>)

Reading == at = "reading"

\* The request leaves only with time remaining in the batch.
_request ==
    /\ Reading /\ got = Nothing
    /\ \/ /\ mono < batch
          /\ got' = Sent
          /\ UNCHANGED <<remote, clocks, stage, at, n, batch, start, wake, history>>
       \/ mono >= batch /\ Fail

LastPosition == Originals + 1

\* The answer must be complete by the batch deadline and equal the evidence.
Receive ==
    /\ Reading /\ got \in {0, 1}
    /\ \/ /\ mono <= batch /\ got = 0
          /\ \/ n < LastPosition /\ n' = n + 1 /\ UNCHANGED at
             \/ n = LastPosition /\ at' = "close" /\ UNCHANGED n
          /\ got' = Nothing
          /\ UNCHANGED <<remote, clocks, stage, batch, start, wake, history>>
       \/ (mono > batch \/ got # 0) /\ Fail

\* Any transport failure, timeout of one request or malformed answer.
LoseRequest == Reading /\ Fail

\* The end of verify_live_snapshot, and what follows each of its three uses.
Close ==
    /\ at = "close"
    /\ require_live_residual_validity(
          \/ /\ stage = "opening"
             /\ start' = mono
             /\ Goto("loop", "idle")
             /\ UNCHANGED <<remote, clocks, n, got, batch, wake, history>>
          \/ /\ stage = "polling"
             /\ Goto("loop", "idle")
             /\ UNCHANGED <<remote, clocks, n, got, batch, start, wake, history>>
          \/ /\ stage = "ending"
             /\ Goto("verdict", "idle")
             /\ UNCHANGED <<remote, clocks, n, got, batch, start, wake, history>>)

\* Mutant: no read is made after the window has ended.
NoFinalRead == Goto("verdict", "idle")

FinalRead == Goto("ending", "open")

\* The loop reads the clock for its condition and again for the sleep.
Loop ==
    /\ stage = "loop"
    /\ \/ /\ mono < deadline
          /\ require_live_residual_validity(
                /\ Goto("nap", "idle")
                /\ UNCHANGED <<remote, clocks, n, got, batch, start, wake, history>>)
       \/ /\ mono >= deadline
          /\ FinalRead
          /\ UNCHANGED <<remote, clocks, n, got, batch, start, wake, history>>

Nap ==
    /\ stage = "nap"
    /\ wake' = IF mono + LIVE_POLL_SECONDS <= deadline THEN mono + LIVE_POLL_SECONDS
               ELSE IF mono <= deadline THEN deadline ELSE mono
    /\ Goto("asleep", "idle")
    /\ UNCHANGED <<remote, clocks, n, got, batch, start, history>>

Wake ==
    /\ stage = "asleep" /\ mono >= wake
    /\ Goto("polling", "open")
    /\ UNCHANGED <<remote, clocks, n, got, batch, start, wake, history>>

Verdict ==
    /\ stage = "verdict"
    /\ \/ mono < deadline /\ Fail
       \/ /\ mono >= deadline
          /\ require_live_residual_validity(
                /\ Goto("passed", "idle")
                /\ UNCHANGED <<remote, clocks, n, got, batch, start, wake, history>>)

Step ==
    \/ Begin \/ begin_batch \/ _request \/ Receive \/ LoseRequest \/ Close
    \/ Loop \/ Nap \/ Wake \/ Verdict

Next == Step \/ Serve \/ Elapse \/ \E i \in Indexes : Drift(i)

Spec == Init /\ [][Next]_vars

\* The process is not held up for ever (a request without an answer times out)
\* and time goes on; nothing obliges GitHub to answer, the machine to sleep or
\* the originals to change.
FairSpec ==
    /\ Spec
    /\ WF_vars(Step)
    /\ WF_vars(Tick /\ UNCHANGED <<remote, stage, at, n, got, batch, start, wake, history>>)

-----------------------------------------------------------------------------
TypeOK ==
    /\ remote \in [Indexes -> {0, 1}]
    /\ mono \in Times /\ lag \in 0..MaxLag
    /\ stage \in {"check", "opening", "loop", "nap", "asleep", "polling", "ending",
                  "verdict", "passed", "failed"}
    /\ at \in {"idle", "open", "reading", "close"} /\ n \in 0..(Originals + 1)
    /\ got \in {Nothing, Sent, 0, 1}
    /\ batch \in Nat /\ start \in Times /\ wake \in Nat
    /\ first \in [Indexes -> Times \cup {Never}]
    /\ last \in [Indexes -> Times \cup {Never}]
    /\ drift \in [Indexes -> Times \cup {Never}] /\ reverted \in BOOLEAN

\* A verdict rests on reads at both ends of the window: every original was read
\* before it began and again after it ended, even if the process slept through
\* all the polls or a poll straddled the deadline.
Bracketed ==
    stage = "passed" =>
        \A i \in Indexes : first[i] <= start /\ last[i] >= deadline

\* The last reads belong to one batch, which did not outlive its deadline.
LastReadsTogether ==
    stage = "passed" =>
        \A i, j \in Indexes : last[i] <= last[j] + LIVE_BATCH_TIMEOUT_SECONDS

\* The shape of the state, and what a verdict rests on: reads on both sides of the
\* window, the last of them in one batch (validate_live_merge_ready).
Inv == TypeOK /\ Bracketed /\ LastReadsTogether

\* The stable window: when no original can regain its old bytes (a protected
\* main only moves forward, updated_at only grows), a verdict means that none of
\* them changed from the start of the window until its end.
StableWindow ==
    (stage = "passed" /\ ~reverted) =>
        \A i \in Indexes : drift[i] # Never => drift[i] >= deadline

\* The process always reaches a verdict or a failure.
Terminates == <>Done
=============================================================================
