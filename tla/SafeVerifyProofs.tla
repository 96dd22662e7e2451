--------------------------- MODULE SafeVerifyProofs --------------------------
(***************************************************************************)
(* Proofs about process_safe_verify, for any set of scores and any number  *)
(* of calls.  A child is one of a kind: it is started once, sends at most  *)
(* one message, and has either sent one or been killed when its call       *)
(* returns.                                                                *)
(***************************************************************************)
EXTENDS SafeVerify, TLAPS

Running == {"poll", "recv", "join", "timeout", "join killed"}

\* A call in progress has a number, and the calls after it have no child.
CallInv ==
    /\ pc \in Running => call \in Numbers
    /\ \A c \in Numbers :
          c > call \/ (c = call /\ pc = "idle") => child[c] = "none"

\* Only a child that has done its work has a message in its pipe.
PipeInv == \A c \in Numbers : pipe[c] # Nothing => child[c] \in {"closing", "gone"}

\* What the parent knows of the child it waits for.
ParentInv ==
    /\ pc = "join" => pipe[call] # Nothing
    /\ pc = "join killed" => child[call] = "gone"

IInv == TypeOK /\ CallInv /\ PipeInv /\ ParentInv /\ OwnAnswer /\ NoComputationLeft

\* A reply is what the child sent, or None.
LEMMA ReplyOwn ==
    ASSUME TypeOK, call \in Numbers, pipe[call] # Nothing
    PROVE  /\ Reply(call) \in Messages \cup {Nothing, NoScore}
           /\ Reply(call) # NoScore => Reply(call) = pipe[call]
  BY DEF TypeOK, Reply

LEMMA InitIInv == Init => IInv
  BY VerifyAssumption
     DEF Init, IInv, TypeOK, CallInv, PipeInv, ParentInv, OwnAnswer,
         NoComputationLeft, Running, Numbers, Nothing, VerifyAssumption

\* The steps of the child of call c.
LEMMA ChildStep ==
    ASSUME IInv, NEW c \in Numbers, Send(c) \/ Exit(c) \/ Die(c)
    PROVE  IInv'
  <1> USE DEF IInv, Numbers
  <1>1. CASE Send(c)
    <2>1. pipe[c] = Nothing /\ child[c] = "working"
      BY <1>1 DEF Send, PipeInv, TypeOK
    <2>2. PICK m \in Messages : pipe' = [pipe EXCEPT ![c] = m]
      BY <1>1 DEF Send
    <2>3. TypeOK'
      BY <1>1, <2>2 DEF Send, TypeOK
    <2>4. CallInv'
      BY <1>1, <2>1 DEF Send, CallInv, TypeOK
    <2>5. PipeInv'
      BY <1>1, <2>1, <2>2 DEF Send, PipeInv, TypeOK
    <2>6. ParentInv'
      <3>1. m # Nothing
        BY <2>2 DEF Messages, Sent, Nothing
      <3>2. pc = "join" => call \in Numbers
        BY DEF CallInv, Running
      <3>3. pc = "join killed" => child[call] # "working" /\ call \in Numbers
        BY DEF ParentInv, CallInv, Running
      <3> QED BY <1>1, <2>1, <2>2, <3>1, <3>2, <3>3 DEF Send, ParentInv, TypeOK
    <2>7. OwnAnswer'
      <3> SUFFICES ASSUME NEW d \in Numbers, result'[d] \notin {Nothing, NoScore}
                   PROVE  result'[d] = pipe'[d]
        BY DEF OwnAnswer
      <3>1. result[d] = pipe[d]
        BY <1>1 DEF Send, OwnAnswer
      <3>2. d # c
        BY <1>1, <2>1, <3>1 DEF Send
      <3> QED BY <1>1, <2>2, <3>1, <3>2 DEF Send, TypeOK
    <2>8. NoComputationLeft'
      BY <1>1 DEF Send, NoComputationLeft, TypeOK
    <2> QED BY <2>3, <2>4, <2>5, <2>6, <2>7, <2>8
  <1>2. CASE Exit(c) \/ Die(c)
    <2>1. /\ child[c] \in {"closing", "working"}
          /\ child' = [child EXCEPT ![c] = "gone"]
          /\ UNCHANGED <<pc, call, pipe, result>>
      BY <1>2 DEF Exit, Die
    <2>2. TypeOK' /\ PipeInv' /\ NoComputationLeft' /\ OwnAnswer'
      BY <2>1 DEF TypeOK, PipeInv, NoComputationLeft, OwnAnswer
    <2>3. CallInv'
      BY <2>1 DEF CallInv, TypeOK
    <2>4. ParentInv'
      BY <2>1 DEF ParentInv, TypeOK, CallInv, Running
    <2> QED BY <2>2, <2>3, <2>4
  <1> QED BY <1>1, <1>2

\* The steps of the parent that do not end a call.
LEMMA WaitStep ==
    ASSUME IInv, Start \/ PollTrue \/ PollExpires \/ Recv \/ Terminate
    PROVE  IInv'
  <1> USE VerifyAssumption DEF IInv, Numbers, VerifyAssumption
  <1>1. CASE Start
    <2>1. pipe[call] = Nothing
      BY <1>1 DEF Start, CallInv, PipeInv, TypeOK
    <2>2. TypeOK' /\ CallInv' /\ ParentInv'
      BY <1>1 DEF Start, TypeOK, CallInv, ParentInv, Running
    <2>3. PipeInv'
      BY <1>1, <2>1 DEF Start, PipeInv, TypeOK
    <2>4. OwnAnswer' /\ NoComputationLeft'
      BY <1>1 DEF Start, OwnAnswer, NoComputationLeft, TypeOK
    <2> QED BY <2>2, <2>3, <2>4
  <1>2. CASE PollTrue \/ PollExpires \/ Recv
    <2>1. /\ pc \in Running
          /\ pc' \in {"recv", "timeout", "raised", "join"}
          /\ pc' = "join" => pipe[call] # Nothing
          /\ UNCHANGED <<call, child, pipe, result>>
      BY <1>2 DEF PollTrue, PollExpires, Recv, Running
    <2>2. TypeOK' /\ PipeInv' /\ OwnAnswer' /\ NoComputationLeft'
      BY <2>1 DEF TypeOK, PipeInv, OwnAnswer, NoComputationLeft
    <2>3. CallInv' /\ ParentInv'
      BY <2>1 DEF CallInv, ParentInv, Running
    <2> QED BY <2>2, <2>3
  <1>3. CASE Terminate
    <2>1. call \in Numbers
      BY <1>3 DEF Terminate, CallInv, Running
    <2>2. TypeOK' /\ PipeInv' /\ OwnAnswer' /\ NoComputationLeft'
      BY <1>3, <2>1 DEF Terminate, TypeOK, PipeInv, OwnAnswer, NoComputationLeft
    <2>3. CallInv'
      <3>1. /\ pc' = "join killed" /\ call' = call
            /\ child' = [child EXCEPT ![call] = "gone"]
        BY <1>3 DEF Terminate
      <3>2. \A c \in 1..Calls : c > call => c # call /\ child[c] = "none"
        BY <2>1 DEF CallInv
      <3>3. child \in [1..Calls -> {"none", "working", "closing", "gone"}]
        BY DEF TypeOK
      <3> QED BY <2>1, <3>1, <3>2, <3>3 DEF CallInv, Running
    <2>4. ParentInv'
      BY <1>3, <2>1 DEF Terminate, ParentInv, TypeOK
    <2> QED BY <2>2, <2>3, <2>4
  <1> QED BY <1>1, <1>2, <1>3

\* A call ends: its child does not work any more, whichever way it ends.
LEMMA EndStep ==
    ASSUME IInv, Join \/ JoinKilled
    PROVE  IInv'
  <1> USE VerifyAssumption DEF IInv, Numbers, VerifyAssumption
  <1>1. /\ pc \in Running /\ call \in Numbers
        /\ child[call] # "working"
        /\ pc' = "idle" /\ call' = call + 1
        /\ UNCHANGED <<child, pipe>>
    BY DEF Join, JoinKilled, CallInv, ParentInv, PipeInv, Running
  <1>2. PICK r \in Messages \cup {Nothing, NoScore} :
            /\ result' = [result EXCEPT ![call] = r]
            /\ r # NoScore => r = pipe[call]
    <2>1. CASE Join
      BY <1>1, <2>1, ReplyOwn DEF Join, ParentInv
    <2>2. CASE JoinKilled
      BY <2>2 DEF JoinKilled
    <2> QED BY <2>1, <2>2
  <1>0. Calls \in Nat /\ call \in 1..Calls
    BY <1>1
  <1>3. TypeOK'
    <2>1. call' \in 1..Calls + 1 /\ pc' = "idle"
      BY <1>0, <1>1
    <2>2. result' \in [Numbers -> Messages \cup {Nothing, NoScore}]
      BY <1>1, <1>2 DEF TypeOK
    <2> QED BY <1>1, <2>1, <2>2 DEF TypeOK
  <1>4. CallInv' /\ ParentInv' /\ PipeInv'
    <2>1. \A c \in Numbers : c > call' \/ c = call' => c > call
      BY <1>0, <1>1
    <2> QED BY <1>1, <2>1 DEF CallInv, ParentInv, PipeInv, Running
  <1>5. OwnAnswer'
    BY <1>1, <1>2 DEF OwnAnswer, TypeOK
  <1>6. NoComputationLeft'
    <2>1. \A c \in Numbers : c < call' => c < call \/ c = call
      BY <1>0, <1>1
    <2> QED BY <1>1, <2>1 DEF NoComputationLeft
  <1> QED BY <1>3, <1>4, <1>5, <1>6

LEMMA NextIInv == IInv /\ [Next]_vars => IInv'
  <1> SUFFICES ASSUME IInv, [Next]_vars PROVE IInv'
    OBVIOUS
  <1>1. CASE Child
    BY <1>1, ChildStep DEF Child
  <1>2. CASE Start \/ PollTrue \/ PollExpires \/ Recv \/ Terminate
    BY <1>2, WaitStep
  <1>3. CASE Join \/ JoinKilled
    BY <1>3, EndStep
  <1>4. CASE UNCHANGED vars
    BY <1>4 DEF vars, IInv, TypeOK, CallInv, PipeInv, ParentInv, OwnAnswer,
                NoComputationLeft
  <1> QED BY <1>1, <1>2, <1>3, <1>4 DEF Next, Parent

LEMMA Invariance == Spec => []IInv
  BY InitIInv, NextIInv, PTL DEF Spec

(***************************************************************************)
(* Every state is well typed, however many calls are made.                 *)
(***************************************************************************)
THEOREM TypeCorrect == Spec => []TypeOK
  BY Invariance, PTL DEF IInv

(***************************************************************************)
(* A call of process_safe_verify returns what its own child sent, or None, *)
(* however late the children of earlier calls answer.                      *)
(***************************************************************************)
THEOREM AnswerIsOwn == Spec => []OwnAnswer
  BY Invariance, PTL DEF IInv

(***************************************************************************)
(* No call leaves a computing child behind: either it has sent its answer  *)
(* or it has been terminated.                                              *)
(***************************************************************************)
THEOREM NothingIsLeftComputing == Spec => []NoComputationLeft
  BY Invariance, PTL DEF IInv
=============================================================================
