----------------------------- MODULE SafeVerify -----------------------------
(***************************************************************************)
(* process_safe_verify (process_safe_math_verify.py): each answer of the   *)
(* policy is checked by Math-Verify in a process of its own, because       *)
(* parsing may run forever, fail or kill the process.  The parent waits on *)
(* a pipe with a timeout and kills the child if it expires.  The reward    *)
(* function calls it once per answer, one call after the other.            *)
(*                                                                         *)
(* Time is abstracted: a timeout may expire whenever what it waits for has *)
(* not happened.  Each call has a new pipe, to which its child writes at   *)
(* most one message.                                                       *)
(***************************************************************************)
EXTENDS Naturals, Sequences

CONSTANTS
    Scores,   \* what verify can return
    Calls     \* bound of the model: the calls made

ASSUME VerifyAssumption == Calls \in Nat

VARIABLES
    pc,       \* of the parent: "idle", "poll", "recv", "join", "timeout",
              \* "join killed"; "raised" is final
    call,     \* the number of the current, or of the next call
    child,    \* child[c]: "none", "working", "closing" (it has sent), "gone"
    pipe,     \* pipe[c]: the message in the pipe or taken from it
    result    \* result[c]: what call c returned

vars == <<pc, call, child, pipe, result>>

Numbers == 1..Calls
Nothing == <<>>
Sent(ok, value) == <<ok, value>>
NoScore == <<"None">>                            \* the Python value None
Messages == {Sent("ok", s) : s \in Scores} \cup {Sent("failed", 0)}

Init == /\ pc = "idle"
        /\ call = 1
        /\ child = [c \in Numbers |-> "none"]
        /\ pipe = [c \in Numbers |-> Nothing]
        /\ result = [c \in Numbers |-> Nothing]

-----------------------------------------------------------------------------
(***************************************************************************)
(* The child.                                                              *)
(***************************************************************************)

\* parse and verify return, or raise: the outcome is sent.
Send(c) ==
    /\ child[c] = "working"
    /\ \E m \in Messages : pipe' = [pipe EXCEPT ![c] = m]
    /\ child' = [child EXCEPT ![c] = "closing"]
    /\ UNCHANGED <<pc, call, result>>

\* The connection is closed and the process exits.
Exit(c) ==
    /\ child[c] = "closing"
    /\ child' = [child EXCEPT ![c] = "gone"]
    /\ UNCHANGED <<pc, call, pipe, result>>

\* The process ends without a message: killed for its memory, a crash in a
\* native library, an import that exits.
Die(c) ==
    /\ child[c] = "working"
    /\ child' = [child EXCEPT ![c] = "gone"]
    /\ UNCHANGED <<pc, call, pipe, result>>

-----------------------------------------------------------------------------
(***************************************************************************)
(* The parent.                                                             *)
(***************************************************************************)

Start ==
    /\ pc = "idle"
    /\ call \in Numbers
    /\ child' = [child EXCEPT ![call] = "working"]
    /\ pc' = "poll"
    /\ UNCHANGED <<call, pipe, result>>

\* poll() is true for a message and for the end of the file.
Ready == pipe[call] # Nothing \/ child[call] = "gone"

PollTrue ==
    /\ pc = "poll"
    /\ Ready
    /\ pc' = "recv"
    /\ UNCHANGED <<call, child, pipe, result>>

\* Faulty: poll() has no timeout.
PollForever == FALSE /\ UNCHANGED vars

PollExpires ==
    /\ pc = "poll"
    /\ ~Ready
    /\ pc' = "timeout"
    /\ UNCHANGED <<call, child, pipe, result>>

\* recv() returns the message, or raises EOFError if there is none.
Recv ==
    /\ pc = "recv"
    /\ pc' = IF pipe[call] = Nothing THEN "raised" ELSE "join"
    /\ UNCHANGED <<call, child, pipe, result>>

\* Faulty: the outcome is taken from the pipe of another call.
ReplyOfPrevious(c) ==
    LET d == IF c > 1 /\ pipe[c - 1] # Nothing THEN c - 1 ELSE c
    IN  IF pipe[d][1] = "ok" THEN pipe[d] ELSE NoScore

Reply(c) == IF pipe[c][1] = "ok" THEN pipe[c] ELSE NoScore

\* join(timeout=1.0) waits for the child, or not long enough; the call
\* returns the score, or None if the child sent an error.
Join ==
    /\ pc = "join"
    /\ result' = [result EXCEPT ![call] = Reply(call)]
    /\ call' = call + 1
    /\ pc' = "idle"
    /\ UNCHANGED <<child, pipe>>

\* Faulty: the child is left to itself.
LeaveChild ==
    /\ pc = "timeout"
    /\ pc' = "join killed"
    /\ UNCHANGED <<call, child, pipe, result>>

\* proc.terminate(); the child has no handler for the signal.
Terminate ==
    /\ pc = "timeout"
    /\ child' = [child EXCEPT ![call] = "gone"]
    /\ pc' = "join killed"
    /\ UNCHANGED <<call, pipe, result>>

JoinKilled ==
    /\ pc = "join killed"
    /\ result' = [result EXCEPT ![call] = NoScore]
    /\ call' = call + 1
    /\ pc' = "idle"
    /\ UNCHANGED <<child, pipe>>

Parent == Start \/ PollTrue \/ PollExpires \/ Recv \/ Join \/ Terminate \/ JoinKilled

Child == \E c \in Numbers : Send(c) \/ Exit(c) \/ Die(c)

Next == Parent \/ Child

\* The parent is scheduled and its timeouts expire; nothing is assumed of a
\* child.
Spec == Init /\ [][Next]_vars /\ WF_vars(Parent)
-----------------------------------------------------------------------------
(***************************************************************************)
(* Properties.                                                             *)
(***************************************************************************)

\* Every variable holds a value of its kind.
TypeOK ==
    /\ pc \in {"idle", "poll", "recv", "join", "timeout", "join killed", "raised"}
    /\ call \in 1..Calls + 1
    /\ child \in [Numbers -> {"none", "working", "closing", "gone"}]
    /\ pipe \in [Numbers -> Messages \cup {Nothing}]
    /\ result \in [Numbers -> Messages \cup {Nothing, NoScore}]

\* A call returns the score its own child sent, or None: never the late
\* answer of the child of an earlier call.
OwnAnswer == \A c \in Numbers :
    result[c] \notin {Nothing, NoScore} => result[c] = pipe[c]

\* When a call has returned, its child does not compute any more, so that
\* endless computations cannot pile up.
NoComputationLeft == \A c \in Numbers : c < call => child[c] # "working"

\* Every call ends, even if its child computes forever.
CallEnds == \A n \in Numbers : (call = n /\ pc = "poll") ~> (call # n \/ pc = "raised")

(***************************************************************************)
(* The docstring of process_safe_verify: "Returns float score or None on   *)
(* timeout/error."                                                         *)
(***************************************************************************)
ScoreOrNone == pc # "raised"
=============================================================================
