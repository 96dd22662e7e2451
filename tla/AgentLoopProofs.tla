--------------------------- MODULE AgentLoopProofs ---------------------------
(***************************************************************************)
(* Proofs about the agent loop, for any number of servers, samples and     *)
(* workers, any limits and any length of the response.                     *)
(***************************************************************************)
EXTENDS AgentLoop, SequenceTheorems, FiniteSetTheorems, WellFoundedInduction, TLAPS

Agents == [state : States, promptIds : Seq(Writers), mask : Seq({0, 1}),
           user : Nat, assistant : Nat, server : Servers \cup {Nowhere}]

Entries == [request : Nat, server : Servers]

-----------------------------------------------------------------------------
(***************************************************************************)
(* The operators of the model.                                             *)
(***************************************************************************)
LEMMA LeastNumber ==
    ASSUME NEW S \in SUBSET Nat, S # {}
    PROVE  \E n \in S : \A m \in S : n <= m
<1> DEFINE R == OpToRel(<, Nat)
<1>1. PICK n \in S : \A m \in S : ~(<<m, n>> \in R)
  BY NatLessThanWellFounded, WFMin
<1>2. \A m \in S : m \in Nat /\ n \in Nat /\ ~(m < n)
  BY <1>1 DEF OpToRel
<1>3. \A m \in S : n <= m
  BY <1>2
<1> QED
  BY <1>3

(***************************************************************************)
(* Equal chunks of a batch.                                                *)
(***************************************************************************)
LEMMA Division ==
    ASSUME NEW a \in Nat, NEW b \in Nat \ {0}
    PROVE  /\ a \div b \in Nat /\ a % b \in Nat /\ a % b < b
           /\ a = b * (a \div b) + (a % b)
<1>1. a \div b \in Int /\ a % b \in Int
  OBVIOUS
<1>2. 0 <= a % b /\ a % b < b
  OBVIOUS
<1>3. a = b * (a \div b) + (a % b)
  OBVIOUS
<1>4. a \div b >= 0
  <2> DEFINE q == a \div b
             r == a % b
  <2>1. q \in Int /\ r \in Int /\ r < b /\ a = b * q + r
    BY <1>1, <1>2, <1>3
  <2> HIDE DEF q, r
  <2> SUFFICES ASSUME q + 1 <= 0 PROVE FALSE
    BY <2>1 DEF q
  <2>2. b * (q + 1) <= 0
    BY <2>1
  <2>3. b * (q + 1) = b * q + b /\ b * q \in Int
    BY <2>1
  <2> QED
    BY <2>1, <2>2, <2>3
<1> QED BY <1>1, <1>2, <1>3, <1>4

LEMMA Chunks ==
    ASSUME NEW B \in Nat \ {0}, NEW n \in Nat \ {0}, B % n = 0
    PROVE  /\ B \div n \in Nat \ {0}
           /\ B = n * (B \div n)
<1> DEFINE c == B \div n
<1>1. c \in Nat /\ B = n * c + (B % n)
  BY Division
<1> HIDE DEF c
<1>2. B = n * c
  BY <1>1
<1>3. c # 0
  BY <1>1, <1>2
<1> QED
  BY <1>1, <1>2, <1>3 DEF c
LEMMA InChunk ==
    ASSUME NEW n \in Nat \ {0}, NEW c \in Nat \ {0}, NEW i \in 1..n * c
    PROVE  /\ (i - 1) \div c + 1 \in 1..n
           /\ ((i - 1) % c) + 1 \in 1..c
           /\ ((i - 1) \div c) * c + ((i - 1) % c) + 1 = i
<1>0. n * c \in Nat
  OBVIOUS
<1> DEFINE q == (i - 1) \div c
           r == (i - 1) % c
<1>1. i - 1 \in Nat /\ i - 1 < n * c
  BY <1>0
<1>2. /\ q \in Nat /\ r \in Nat /\ r < c /\ i - 1 = c * q + r
  BY <1>1, Division
<1> HIDE DEF q, r
<1>3. q < n
  <2> SUFFICES ASSUME q >= n PROVE FALSE
    BY <1>2
  <2>1. c * q >= c * n
    BY <1>2
  <2> QED
    <3> DEFINE x == c * q
               y == n * c
    <3>1. x \in Nat /\ y \in Nat /\ x >= y
      BY <1>2, <2>1
    <3>2. i - 1 = x + r /\ i - 1 < y
      BY <1>1, <1>2
    <3> HIDE DEF x, y
    <3> QED
      BY <1>2, <3>1, <3>2
<1>4. q + 1 \in 1..n /\ r + 1 \in 1..c
  BY <1>2, <1>3
<1>5. q * c + r + 1 = i
  BY <1>2
<1> QED
  BY <1>4, <1>5 DEF q, r

\* n equal tokens are a sequence.
LEMMA Tokens ==
    ASSUME NEW S, NEW x \in S, NEW n \in Nat
    PROVE  /\ [k \in 1..n |-> x] \in Seq(S)
           /\ Len([k \in 1..n |-> x]) = n
           /\ \A k \in 1..n : [j \in 1..n |-> x][k] = x
OBVIOUS

\* An agent whose tokens and mask belong together: the last Len(mask) tokens
\* are the response.
Aligned(a) ==
    /\ Len(a.mask) <= Len(a.promptIds)
    /\ \A k \in 1..Len(a.promptIds) - Len(a.mask) : a.promptIds[k] = "prompt"
    /\ \A k \in 1..Len(a.mask) :
          LET token == a.promptIds[Len(a.promptIds) - Len(a.mask) + k]
          IN  token # "prompt" /\ (a.mask[k] = 1 <=> token = "model")

LEMMA WrittenFacts ==
    ASSUME NEW a \in Agents, NEW writer \in Writers, NEW n \in Nat, NEW bit \in {0, 1}
    PROVE  LET b == Written(a, writer, n, bit)
           IN  /\ b \in Agents
               /\ b.state = a.state /\ b.user = a.user
               /\ b.assistant = a.assistant /\ b.server = a.server
               /\ Len(b.mask) = Len(a.mask) + n
               /\ Len(b.promptIds) = Len(a.promptIds) + n
               /\ Aligned(a) /\ writer # "prompt" /\ (bit = 1 <=> writer = "model")
                     => Aligned(b)
<1> DEFINE Bits == {0, 1}
           ts == [k \in 1..n |-> writer]
           bs == [k \in 1..n |-> bit]
           p == a.promptIds
           m == a.mask
           b == Written(a, writer, n, bit)
<1>1. /\ ts \in Seq(Writers) /\ Len(ts) = n /\ \A k \in 1..n : ts[k] = writer
      /\ bs \in Seq(Bits) /\ Len(bs) = n /\ \A k \in 1..n : bs[k] = bit
  BY Tokens
<1>2. /\ p \in Seq(Writers) /\ m \in Seq(Bits)
      /\ Len(p) \in Nat /\ Len(m) \in Nat
  BY LenProperties DEF Agents
<1>3. b = [a EXCEPT !.promptIds = p \o ts, !.mask = m \o bs]
  BY DEF Written
<1> HIDE DEF ts, bs, Bits, p, m, b
<1>4. /\ p \o ts \in Seq(Writers) /\ Len(p \o ts) = Len(p) + n
      /\ \A k \in 1..Len(p) + n :
            (p \o ts)[k] = IF k <= Len(p) THEN p[k] ELSE ts[k - Len(p)]
  BY <1>1, <1>2, ConcatProperties
<1>5. /\ m \o bs \in Seq(Bits) /\ Len(m \o bs) = Len(m) + n
      /\ \A k \in 1..Len(m) + n :
            (m \o bs)[k] = IF k <= Len(m) THEN m[k] ELSE bs[k - Len(m)]
  <2>1. m \in Seq(Bits) /\ bs \in Seq(Bits) /\ Len(bs) = n
    BY <1>1, <1>2
  <2> QED
    BY ONLY <2>1, ConcatProperties
<1>6. /\ b \in Agents
      /\ b.state = a.state /\ b.user = a.user
      /\ b.assistant = a.assistant /\ b.server = a.server
      /\ b.promptIds = p \o ts /\ b.mask = m \o bs
  BY <1>3, <1>4, <1>5 DEF Agents, Bits, p, m
<1>7. ASSUME Aligned(a), writer # "prompt", bit = 1 <=> writer = "model"
      PROVE  Aligned(b)
  <2> DEFINE from == Len(p) - Len(m)
  <2>0. Len(m) <= Len(p)
    BY <1>7 DEF Aligned, m, p
  <2>5. Len(b.promptIds) = Len(p) + n /\ Len(b.mask) = Len(m) + n
    BY <1>4, <1>5, <1>6
  <2>1. /\ Len(b.promptIds) = Len(p) + n /\ Len(b.mask) = Len(m) + n
        /\ Len(b.promptIds) - Len(b.mask) = from
        /\ from \in Nat
    BY <1>2, <2>0, <2>5
  <2>2. ASSUME NEW k \in 1..from
        PROVE  b.promptIds[k] = "prompt"
    BY <1>2, <1>4, <1>6, <1>7, <2>1 DEF Aligned, m, p
  <2>3. ASSUME NEW k \in 1..Len(m) + n
        PROVE  LET token == b.promptIds[from + k]
               IN  token # "prompt" /\ (b.mask[k] = 1 <=> token = "model")
    <3>1. /\ from + k \in 1..Len(p) + n
          /\ from + k <= Len(p) <=> k <= Len(m)
          /\ from + k - Len(p) = k - Len(m)
      BY <1>2, <2>1
    <3>2. CASE k <= Len(m)
      <4>1. b.promptIds[from + k] = p[from + k] /\ b.mask[k] = m[k]
        BY <1>4, <1>5, <1>6, <3>1, <3>2
      <4>2. k \in 1..Len(m)
        BY <1>2, <3>2
      <4> QED
        BY <1>7, <4>1, <4>2 DEF Aligned, m, p
    <3>3. CASE ~(k <= Len(m))
      <4>1. k - Len(m) \in 1..n
        BY <1>2, <3>3
      <4>2. b.promptIds[from + k] = ts[k - Len(m)] /\ b.mask[k] = bs[k - Len(m)]
        BY <1>4, <1>5, <1>6, <3>1, <3>3
      <4> QED
        BY <1>1, <1>7, <4>1, <4>2
    <3> QED
      BY <3>2, <3>3
  <2>4. Len(b.mask) <= Len(b.promptIds)
    BY <1>2, <2>0, <2>1
  <2> QED
    BY <2>1, <2>2, <2>3, <2>4 DEF Aligned
<1> QED
  BY <1>4, <1>5, <1>6, <1>7 DEF b, m, p

\* The last token is that of the turn just written.
LEMMA WrittenLast ==
    ASSUME NEW a \in Agents, NEW writer \in Writers, NEW n \in Nat \ {0}, NEW bit
    PROVE  LET p == Written(a, writer, n, bit).promptIds
           IN  p # <<>> /\ p[Len(p)] = writer
<1> DEFINE ts == [k \in 1..n |-> writer]
           q == a.promptIds
           p == Written(a, writer, n, bit).promptIds
<1>1. ts \in Seq(Writers) /\ Len(ts) = n /\ ts[n] = writer
  BY Tokens
<1>2. q \in Seq(Writers) /\ Len(q) \in Nat
  BY LenProperties DEF Agents
<1>3. p = q \o ts
  BY DEF Written, Agents
<1> HIDE DEF ts, q, p
<1>4. /\ p \in Seq(Writers) /\ Len(p) = Len(q) + n
      /\ \A k \in 1..Len(q) + n : p[k] = IF k <= Len(q) THEN q[k] ELSE ts[k - Len(q)]
  BY <1>1, <1>2, <1>3, ConcatProperties
<1> DEFINE l == Len(q) + n
<1>5. l \in 1..Len(q) + n /\ ~(l <= Len(q)) /\ l - Len(q) = n /\ l > 0
  BY <1>2
<1>6. p[l] = ts[l - Len(q)] /\ Len(p) = l
  BY <1>4, <1>5
<1> HIDE DEF l
<1> QED
  BY <1>1, <1>4, <1>5, <1>6, EmptySeq DEF p

-----------------------------------------------------------------------------
(***************************************************************************)
(* The inductive invariant.                                                *)
(***************************************************************************)

\* What holds of every sample: before its turn of the assistant it is within
\* its limits, and before a turn of the user within that of the user as well.
Turns(a) ==
    /\ config.maxAssistant # 0 =>
          /\ a.assistant <= config.maxAssistant
          /\ a.state # "terminated" => a.assistant < config.maxAssistant
    /\ config.maxUser # 0 =>
          /\ a.user <= config.maxUser
          /\ a.state \in {"pending", "processing_tools", "interacting"} =>
                a.user < config.maxUser

\* The prompt fits, and so does what the sample has when it takes its next
\* turn, unless the user has spoken last.
Lengths(a) ==
    /\ Len(a.promptIds) - Len(a.mask) <= PromptLength
    /\ a.state = "interacting" \/ EndsWithUser(a) => config.interactive
    /\ a.state \in {"processing_tools", "interacting"} => Len(a.mask) < ResponseLength
    /\ a.state = "generating" /\ ~EndsWithUser(a) => Len(a.mask) < ResponseLength
    /\ ~EndsWithUser(a) => Room(a) >= 0
    /\ a.state = "failed" => Overrun(a)

AgentOK(a) ==
    /\ a \in Agents
    /\ Aligned(a)
    /\ a.state = "pending" => a = NewAgent
    /\ Turns(a)
    /\ Lengths(a)

AgentInv == \A i \in Samples : AgentOK(agent[i])

\* Samples run only while the manager waits for the workers.
PhaseInv == /\ ~Running => agent = [i \in Samples |-> NewAgent]
            /\ phase # "idle" => call > 0

\* How far the replicas have got in waking up and in going to sleep.
EngineInv ==
    /\ phase = "wake" => \A s \in Servers \ tasks : s \in awake /\ loaded[s] = policy
    /\ Running => \A s \in Servers : /\ s \in awake /\ loaded[s] = policy
                                     /\ cached[s] \subseteq {policy}
    /\ phase = "sleep" => \A s \in Servers \ tasks : cached[s] = {}
    /\ phase \in {"idle", "wake"} => \A s \in Servers : cached[s] = {}

RowsFit == \A j \in DOMAIN output :
               /\ Len(output[j].prompt) <= PromptLength
               /\ Len(output[j].response) <= ResponseLength

IInv == /\ TypeOK /\ AgentInv /\ PhaseInv /\ EngineInv /\ Balanced
        /\ RowsMatch /\ RowsFit

LEMMA ConfigFacts ==
    ASSUME TypeOK
    PROVE  /\ config.workers \in Nat \ {0}
           /\ config.maxUser \in Nat /\ config.maxAssistant \in Nat
           /\ PromptLength \in Nat \ {0} /\ ResponseLength \in Nat \ {0}
           /\ 1..MaxTokens \subseteq Nat /\ 1..MaxReply \subseteq Nat
           /\ BatchSize \in Nat \ {0} /\ NumServers \in Nat \ {0}
<1>1. /\ config \in [workers : WorkerCounts, freeCache : BOOLEAN,
                     interactive : BOOLEAN,
                     maxUser : TurnLimits, maxAssistant : TurnLimits]
  BY DEF TypeOK
<1>2. WorkerCounts \subseteq Nat \ {0} /\ TurnLimits \subseteq Nat
  BY AgentAssumption
<1>3. /\ config.workers \in Nat \ {0}
      /\ config.maxUser \in Nat /\ config.maxAssistant \in Nat
  BY <1>1, <1>2
<1>4. /\ PromptLength \in Nat \ {0} /\ ResponseLength \in Nat \ {0}
      /\ 1..MaxTokens \subseteq Nat /\ 1..MaxReply \subseteq Nat
      /\ BatchSize \in Nat \ {0} /\ NumServers \in Nat \ {0}
  BY AgentAssumption
<1> QED
  BY <1>3, <1>4

LEMMA NewAgentOK == TypeOK => AgentOK(NewAgent)
<1> SUFFICES ASSUME TypeOK PROVE AgentOK(NewAgent)
  OBVIOUS
<1>1. /\ <<>> \in Seq(Writers) /\ <<>> \in Seq({0, 1}) /\ Len(<<>>) = 0
  BY EmptySeq
<1>2. NewAgent \in Agents
  BY <1>1 DEF NewAgent, Agents, States
<1>3. Aligned(NewAgent)
  BY <1>1 DEF Aligned, NewAgent
<1>4. Turns(NewAgent)
  BY ConfigFacts DEF Turns, NewAgent
<1>5. Lengths(NewAgent)
  BY <1>1, ConfigFacts DEF Lengths, EndsWithUser, Room, NewAgent
<1> QED
  BY <1>2, <1>3, <1>4, <1>5 DEF AgentOK

-----------------------------------------------------------------------------
(***************************************************************************)
(* The steps of a sample.                                                  *)
(***************************************************************************)

\* Sample i becomes a, which is again as it should be.
Becomes(i, a) == AgentOK(a) /\ agent' = [agent EXCEPT ![i] = a]

LEMMA PendingFacts ==
    ASSUME TypeOK, AgentInv, NEW i \in Samples, NEW n \in 1..PromptLength,
           HandlePending(i, n)
    PROVE  \E a : Becomes(i, a)
<1> DEFINE ts == [k \in 1..n |-> "prompt"]
           b == [NewAgent EXCEPT !.promptIds = ts, !.state = "generating"]
<1>1. agent[i] = NewAgent /\ AgentOK(NewAgent)
  BY NewAgentOK DEF AgentInv, AgentOK, HandlePending
<1>2. agent' = [agent EXCEPT ![i] = b]
  BY <1>1 DEF HandlePending, TypeOK
<1>3. /\ n \in Nat /\ n > 0 /\ n <= PromptLength /\ PromptLength \in Nat
      /\ ts \in Seq(Writers) /\ Len(ts) = n /\ \A k \in 1..n : ts[k] = "prompt"
      /\ Len(<<>>) = 0
  <2>1. n \in Nat /\ n > 0 /\ n <= PromptLength /\ PromptLength \in Nat
    BY ConfigFacts
  <2>2. "prompt" \in Writers
    BY DEF Writers
  <2> QED
    BY <2>1, <2>2, Tokens, EmptySeq
<1> HIDE DEF ts
<1>4. b \in Agents /\ b.mask = <<>> /\ b.promptIds = ts
  BY <1>1, <1>3 DEF AgentOK, Agents, NewAgent, States
<1>5. Aligned(b)
  BY <1>3, <1>4 DEF Aligned
<1>7. b.state = "generating"
  BY DEF NewAgent
<1>8. Lengths(b)
  <2>1. ts[Len(ts)] = "prompt"
    BY <1>3
  <2>2. ~EndsWithUser(b)
    BY <1>4, <2>1 DEF EndsWithUser
  <2> QED
    BY <1>3, <1>4, <1>7, <2>2, ConfigFacts DEF Lengths, Room
<1>6. Turns(b)
  BY ConfigFacts DEF Turns, NewAgent
<1> QED
  BY <1>2, <1>4, <1>5, <1>6, <1>7, <1>8 DEF Becomes, AgentOK

LEMMA SendFacts ==
    ASSUME TypeOK, AgentInv, NEW i \in Samples, SendRequest(i)
    PROVE  \E a : Becomes(i, a)
<1>1. PICK s \in Servers : agent' = [agent EXCEPT ![i].server = s]
  BY DEF SendRequest
<1> DEFINE b == [agent[i] EXCEPT !.server = s]
<1>2. agent' = [agent EXCEPT ![i] = b]
  BY <1>1
<1>3. AgentOK(agent[i]) /\ agent[i].state = "generating"
  BY DEF AgentInv, SendRequest
<1>4. b \in Agents
  BY <1>3 DEF AgentOK, Agents
<1>5. /\ b.mask = agent[i].mask /\ b.promptIds = agent[i].promptIds
      /\ b.state = agent[i].state /\ b.user = agent[i].user
      /\ b.assistant = agent[i].assistant
  BY <1>3 DEF AgentOK, Agents
<1>6. Aligned(b)
  BY <1>3, <1>5 DEF AgentOK, Aligned
<1>7. Turns(b)
  BY <1>3, <1>5 DEF AgentOK, Turns
<1>8. Lengths(b)
  BY <1>3, <1>5 DEF AgentOK, Lengths, EndsWithUser, Room, Overrun
<1> QED
  BY <1>2, <1>3, <1>4, <1>5, <1>6, <1>7, <1>8 DEF Becomes, AgentOK

\* As many tokens more in the request as in the mask: the prompt is the same.
LEMMA Grown ==
    ASSUME NEW p \in Nat, NEW m \in Nat, NEW n \in Nat, NEW P \in Nat, p - m <= P
    PROVE  (p + n) - (m + n) <= P
OBVIOUS

\* There is room for a token while the response is not full.
LEMMA HasRoom ==
    ASSUME NEW p \in Nat, NEW m \in Nat, NEW P \in Nat, NEW R \in Nat,
           p - m <= P, m < R
    PROVE  ~(P + R - p < 1)
OBVIOUS

\* A request is refused only if the user has spoken last.
LEMMA RejectFacts ==
    ASSUME TypeOK, AgentInv, NEW i \in Samples, RejectRequest(i)
    PROVE  \E a : Becomes(i, a)
<1> DEFINE b == [agent[i] EXCEPT !.server = Nowhere, !.state = "failed"]
<1>1. agent' = [agent EXCEPT ![i] = b]
  BY DEF RejectRequest
<1>2. /\ AgentOK(agent[i]) /\ agent[i].state = "generating"
      /\ Room(agent[i]) < 1
  BY DEF AgentInv, RejectRequest
<1>3. b \in Agents /\ b.state = "failed"
  BY <1>2 DEF AgentOK, Agents, States
<1>4. /\ b.mask = agent[i].mask /\ b.promptIds = agent[i].promptIds
      /\ b.user = agent[i].user /\ b.assistant = agent[i].assistant
  BY <1>2 DEF AgentOK, Agents
<1>5. EndsWithUser(agent[i])
  <2> SUFFICES ASSUME ~EndsWithUser(agent[i]) PROVE FALSE
    OBVIOUS
  <2>1. /\ Len(agent[i].promptIds) \in Nat /\ Len(agent[i].mask) \in Nat
    BY <1>2, LenProperties DEF AgentOK, Agents
  <2>2. /\ Len(agent[i].promptIds) - Len(agent[i].mask) <= PromptLength
        /\ Len(agent[i].mask) < ResponseLength
    BY <1>2 DEF AgentOK, Lengths
  <2> QED
    <3>1. PromptLength \in Nat /\ ResponseLength \in Nat
      BY ConfigFacts
    <3>2. PromptLength + ResponseLength - Len(agent[i].promptIds) < 1
      BY <1>2 DEF Room
    <3> QED
      BY <2>1, <2>2, <3>1, <3>2, HasRoom
<1>6. Lengths(b)
  BY <1>2, <1>3, <1>4, <1>5 DEF AgentOK, Lengths, EndsWithUser, Room, Overrun
<1>7. Aligned(b)
  BY <1>2, <1>4 DEF AgentOK, Aligned
<1>8. Turns(b)
  BY <1>2, <1>3, <1>4 DEF AgentOK, Turns
<1> QED
  BY <1>1, <1>3, <1>6, <1>7, <1>8 DEF Becomes, AgentOK

LEMMA GeneratedFacts ==
    ASSUME TypeOK, AgentInv, NEW i \in Samples, NEW n \in 1..MaxTokens,
           NEW toolCalls \in BOOLEAN, HandleGenerated(i, n, toolCalls)
    PROVE  \E a : Becomes(i, a)
<1> DEFINE w == Written(agent[i], "model", n, 1)
           a == [w EXCEPT !.assistant = @ + 1]
           state == AfterTurn(a, toolCalls)
           b == [a EXCEPT !.server = Nowhere, !.state = state]
<1>1. AgentOK(agent[i]) /\ agent[i].state = "generating" /\ agent[i] \in Agents
  BY DEF AgentInv, AgentOK, HandleGenerated
<1>2. /\ n \in Nat \ {0} /\ "model" \in Writers
      /\ PromptLength \in Nat /\ ResponseLength \in Nat
  BY ConfigFacts DEF Writers
<1>3. /\ w \in Agents /\ Aligned(w)
      /\ w.user = agent[i].user /\ w.assistant = agent[i].assistant
      /\ Len(w.mask) = Len(agent[i].mask) + n
      /\ Len(w.promptIds) = Len(agent[i].promptIds) + n
  BY <1>1, <1>2, WrittenFacts DEF AgentOK
<1>13. w.promptIds[Len(w.promptIds)] = "model"
  BY <1>1, <1>2, WrittenLast
<1>4. agent' = [agent EXCEPT ![i] = b]
  BY DEF HandleGenerated
<1>12. n <= Room(agent[i])
  BY DEF HandleGenerated
<1> HIDE DEF w
<1>5. /\ a \in Agents /\ a.user = w.user /\ a.assistant = w.assistant + 1
      /\ a.mask = w.mask /\ a.promptIds = w.promptIds
  <2>1. w \in Agents
    BY <1>3
  <2> QED
    BY <2>1 DEF Agents
<1> HIDE DEF a
<1>6. state \in {"terminated", "processing_tools", "interacting"}
  BY DEF AfterTurn
<1>7. /\ state # "terminated" => ~TurnsUsed(a) /\ ~(Len(a.mask) >= ResponseLength)
      /\ state = "interacting" => config.interactive
  BY DEF AfterTurn
<1> HIDE DEF state
<1>8. /\ b \in Agents /\ b.user = w.user /\ b.assistant = w.assistant + 1
      /\ b.mask = w.mask /\ b.promptIds = w.promptIds /\ b.state = state
  BY <1>5, <1>6 DEF Agents, States
<1> HIDE DEF b
<1>9. Aligned(b)
  BY <1>3, <1>8 DEF Aligned
<1>10. Turns(b)
  <2>1. /\ b.user = agent[i].user /\ agent[i].user \in Nat
        /\ b.assistant = agent[i].assistant + 1 /\ agent[i].assistant \in Nat
    BY <1>1, <1>3, <1>8 DEF AgentOK, Agents
  <2>2. /\ config.maxAssistant # 0 => agent[i].assistant < config.maxAssistant
        /\ config.maxUser # 0 => agent[i].user <= config.maxUser
    BY <1>1 DEF AgentOK, Turns
  <2>3. b.state # "terminated" =>
           /\ config.maxAssistant # 0 => ~(b.assistant >= config.maxAssistant)
           /\ config.maxUser # 0 => ~(b.user >= config.maxUser)
    BY <1>5, <1>7, <1>8 DEF TurnsUsed, AtLimit
  <2> QED
    BY <2>1, <2>2, <2>3, ConfigFacts DEF Turns
<1>11. Lengths(b)
  <2>1. /\ Len(agent[i].promptIds) \in Nat /\ Len(agent[i].mask) \in Nat
        /\ Len(w.mask) \in Nat
    BY <1>1, <1>3, LenProperties DEF AgentOK, Agents
  <2>2. ~EndsWithUser(b)
    BY <1>8, <1>13 DEF EndsWithUser
  <2>3. /\ Len(agent[i].promptIds) - Len(agent[i].mask) <= PromptLength
        /\ n <= PromptLength + ResponseLength - Len(agent[i].promptIds)
    BY <1>1, <1>12 DEF AgentOK, Lengths, Room
  <2>7. /\ Len(b.promptIds) = Len(agent[i].promptIds) + n
        /\ Len(b.mask) = Len(agent[i].mask) + n
    BY <1>3, <1>8
  <2>4. Len(b.promptIds) - Len(b.mask) <= PromptLength
    BY <1>2, <2>1, <2>3, <2>7, Grown
  <2>8. PromptLength + ResponseLength - Len(b.promptIds) >= 0
    BY ONLY <1>2, <2>1, <2>3, <2>7
  <2>5. Room(b) >= 0
    BY <2>8 DEF Room
  <2>6. b.state # "terminated" => Len(b.mask) < ResponseLength
    BY <1>2, <1>5, <1>7, <1>8, <2>1
  <2> QED
    BY <1>6, <1>7, <1>8, <2>2, <2>4, <2>5, <2>6 DEF Lengths
<1> QED
  BY <1>4, <1>6, <1>8, <1>9, <1>10, <1>11 DEF Becomes, AgentOK

LEMMA UserTurn ==
    ASSUME NEW w \in Agents, NEW state \in States
    PROVE  LET b == [w EXCEPT !.user = @ + 1, !.state = state]
           IN  /\ b \in Agents /\ b.user = w.user + 1 /\ b.assistant = w.assistant
               /\ b.mask = w.mask /\ b.promptIds = w.promptIds /\ b.state = state
<1> DEFINE c == [w EXCEPT !.user = @ + 1]
           b == [w EXCEPT !.user = @ + 1, !.state = state]
<1>1. /\ c \in Agents /\ c.user = w.user + 1 /\ c.assistant = w.assistant
      /\ c.mask = w.mask /\ c.promptIds = w.promptIds
  BY DEF Agents
<1>2. b = [c EXCEPT !.state = state]
  BY DEF Agents
<1> HIDE DEF b, c
<1> QED
  <2>1. /\ b \in Agents /\ b.user = c.user /\ b.assistant = c.assistant
        /\ b.mask = c.mask /\ b.promptIds = c.promptIds /\ b.state = state
    BY <1>1, <1>2 DEF Agents
  <2> QED
    BY <1>1, <2>1 DEF b

LEMMA ToolsFacts ==
    ASSUME TypeOK, AgentInv, NEW i \in Samples, NEW n \in 1..MaxReply, HandleTools(i, n)
    PROVE  \E a : Becomes(i, a)
<1> DEFINE w == Written(agent[i], "tool", n, 0)
           b == AfterTools(agent[i], n)
<1>1. AgentOK(agent[i]) /\ agent[i].state = "processing_tools" /\ agent[i] \in Agents
  BY DEF AgentInv, AgentOK, HandleTools
<1>2. /\ n \in Nat \ {0} /\ "tool" \in Writers
      /\ PromptLength \in Nat /\ ResponseLength \in Nat
  BY ConfigFacts DEF Writers
<1>3. agent' = [agent EXCEPT ![i] = b]
  BY DEF HandleTools
<1>6. /\ w \in Agents /\ Aligned(w)
      /\ w.user = agent[i].user /\ w.assistant = agent[i].assistant
      /\ Len(w.mask) = Len(agent[i].mask) + n
      /\ Len(w.promptIds) = Len(agent[i].promptIds) + n
  <2>1. /\ "tool" # "prompt" /\ 0 \in {0, 1}
        /\ Aligned(agent[i])
        /\ (0 = 1 <=> "tool" = "model")
    BY <1>1 DEF AgentOK
  <2> HIDE DEF b
  <2> QED
    BY <1>1, <1>2, <2>1, WrittenFacts
<1>7. w.promptIds[Len(w.promptIds)] = "tool"
  BY <1>1, <1>2, WrittenLast
<1>4. CASE TooLong(agent[i], n)
  <2>1. b = [agent[i] EXCEPT !.state = "terminated"]
    BY <1>4 DEF AfterTools
  <2>2. /\ b \in Agents /\ b.user = agent[i].user /\ b.assistant = agent[i].assistant
        /\ b.mask = agent[i].mask /\ b.promptIds = agent[i].promptIds
        /\ b.state = "terminated"
    BY <1>1, <2>1 DEF Agents, States
  <2> HIDE DEF b
  <2>3. Aligned(b)
    BY <1>1, <2>2 DEF AgentOK, Aligned
  <2>4. Turns(b)
    BY <1>1, <2>2 DEF AgentOK, Turns
  <2>5. Lengths(b)
    BY <1>1, <2>2 DEF AgentOK, Lengths, EndsWithUser, Room
  <2> QED
    BY <1>3, <2>2, <2>3, <2>4, <2>5 DEF Becomes, AgentOK
<1>5. CASE ~TooLong(agent[i], n)
  <2>1. b = [w EXCEPT !.user = @ + 1, !.state = "generating"]
    BY <1>5 DEF AfterTools
  <2> HIDE DEF b
  <2>2. /\ w \in Agents /\ Aligned(w)
        /\ w.user = agent[i].user /\ w.assistant = agent[i].assistant
        /\ Len(w.mask) = Len(agent[i].mask) + n
        /\ Len(w.promptIds) = Len(agent[i].promptIds) + n
    BY <1>6
  <2>7. w.promptIds[Len(w.promptIds)] = "tool"
    BY <1>7
  <2> HIDE DEF w
  <2>3. /\ b \in Agents /\ b.user = w.user + 1 /\ b.assistant = w.assistant
        /\ b.mask = w.mask /\ b.promptIds = w.promptIds /\ b.state = "generating"
    BY <2>1, <2>2, UserTurn DEF States
  <2>8. /\ b.user = agent[i].user + 1 /\ b.assistant = agent[i].assistant
        /\ Len(b.mask) = Len(agent[i].mask) + n
        /\ Len(b.promptIds) = Len(agent[i].promptIds) + n
    BY <2>2, <2>3
  <2>4. Aligned(b)
    BY <2>2, <2>3 DEF Aligned
  <2>5. Turns(b)
    <3>1. agent[i].user \in Nat /\ agent[i].assistant \in Nat
      BY <1>1 DEF Agents
    <3>2. /\ config.maxAssistant # 0 => agent[i].assistant < config.maxAssistant
          /\ config.maxUser # 0 => agent[i].user < config.maxUser
      BY <1>1 DEF AgentOK, Turns
    <3> QED
      BY <2>3, <2>8, <3>1, <3>2, ConfigFacts DEF Turns
  <2>6. Lengths(b)
    <3>1. /\ Len(agent[i].promptIds) \in Nat /\ Len(agent[i].mask) \in Nat
      BY <1>1, LenProperties DEF Agents
    <3>2. ~EndsWithUser(b)
      BY <2>3, <2>7 DEF EndsWithUser
    <3>3. Len(agent[i].promptIds) - Len(agent[i].mask) <= PromptLength
      BY <1>1 DEF AgentOK, Lengths
    <3>7. ~(Len(agent[i].mask) + n >= ResponseLength)
      BY <1>5 DEF TooLong
    <3>4. Len(b.mask) < ResponseLength
      BY ONLY <1>2, <2>8, <3>1, <3>7
    <3>5. Len(b.promptIds) - Len(b.mask) <= PromptLength
      BY <1>2, <2>8, <3>1, <3>3, Grown
    <3>8. PromptLength + ResponseLength - Len(b.promptIds) >= 0
      BY ONLY <1>2, <2>8, <3>1, <3>3, <3>7
    <3>6. Room(b) >= 0
      BY <3>8 DEF Room
    <3> QED
      BY <2>3, <3>2, <3>4, <3>5, <3>6 DEF Lengths
  <2> QED
    BY <1>3, <2>3, <2>4, <2>5, <2>6 DEF Becomes, AgentOK
<1> QED
  BY <1>4, <1>5

LEMMA InteractionFacts ==
    ASSUME TypeOK, AgentInv, NEW i \in Samples, NEW n \in 1..MaxReply,
           NEW terminate \in BOOLEAN, HandleInteraction(i, n, terminate)
    PROVE  \E a : Becomes(i, a)
<1> DEFINE w == Written(agent[i], "user", n, 0)
           state == IF terminate THEN "terminated" ELSE "generating"
           b == [w EXCEPT !.user = @ + 1, !.state = state]
<1>1. AgentOK(agent[i]) /\ agent[i].state = "interacting" /\ agent[i] \in Agents
  BY DEF AgentInv, AgentOK, HandleInteraction
<1>2. n \in Nat \ {0} /\ "user" \in Writers /\ PromptLength \in Nat
  BY ConfigFacts DEF Writers
<1>3. agent' = [agent EXCEPT ![i] = b]
  BY DEF HandleInteraction
<1>4. /\ w \in Agents /\ Aligned(w)
      /\ w.user = agent[i].user /\ w.assistant = agent[i].assistant
      /\ Len(w.mask) = Len(agent[i].mask) + n
      /\ Len(w.promptIds) = Len(agent[i].promptIds) + n
  <2>1. /\ "user" # "prompt" /\ 0 \in {0, 1}
        /\ Aligned(agent[i])
        /\ (0 = 1 <=> "user" = "model")
    BY <1>1 DEF AgentOK
  <2> HIDE DEF b
  <2> QED
    BY <1>1, <1>2, <2>1, WrittenFacts
<1>10. w.promptIds # <<>> /\ w.promptIds[Len(w.promptIds)] = "user"
  BY <1>1, <1>2, WrittenLast
<1>5. state \in {"terminated", "generating"}
  OBVIOUS
<1> HIDE DEF w, state
<1>6. /\ b \in Agents /\ b.user = w.user + 1 /\ b.assistant = w.assistant
      /\ b.mask = w.mask /\ b.promptIds = w.promptIds /\ b.state = state
  <2>1. state \in States
    BY <1>5 DEF States
  <2> QED
    BY <1>4, <2>1, UserTurn
<1> HIDE DEF b
<1>11. /\ b.user = agent[i].user + 1 /\ b.assistant = agent[i].assistant
       /\ Len(b.mask) = Len(agent[i].mask) + n
       /\ Len(b.promptIds) = Len(agent[i].promptIds) + n
  BY <1>4, <1>6
<1>7. Aligned(b)
  BY <1>4, <1>6 DEF Aligned
<1>8. Turns(b)
  <2>1. agent[i].user \in Nat /\ agent[i].assistant \in Nat
    BY <1>1 DEF Agents
  <2>2. /\ config.maxAssistant # 0 => agent[i].assistant < config.maxAssistant
        /\ config.maxUser # 0 => agent[i].user < config.maxUser
    BY <1>1 DEF AgentOK, Turns
  <2> QED
    <3>1. config.maxUser \in Nat /\ config.maxAssistant \in Nat
      BY ConfigFacts
    <3>2. b.state \in {"terminated", "generating"}
      BY <1>5, <1>6
    <3> QED
      BY <1>11, <2>1, <2>2, <3>1, <3>2 DEF Turns
<1>9. Lengths(b)
  <2>1. /\ Len(agent[i].promptIds) \in Nat /\ Len(agent[i].mask) \in Nat
    BY <1>1, LenProperties DEF Agents
  <2>2. /\ Len(agent[i].promptIds) - Len(agent[i].mask) <= PromptLength
        /\ config.interactive
    BY <1>1 DEF AgentOK, Lengths
  <2>3. EndsWithUser(b)
    BY <1>6, <1>10 DEF EndsWithUser
  <2>4. Len(b.promptIds) - Len(b.mask) <= PromptLength
    BY <1>2, <1>11, <2>1, <2>2, Grown
  <2> QED
    BY <1>5, <1>6, <2>2, <2>3, <2>4 DEF Lengths
<1> QED
  BY <1>3, <1>5, <1>6, <1>7, <1>8, <1>9 DEF Becomes, AgentOK

-----------------------------------------------------------------------------
LEMMA WorkerFacts ==
    ASSUME TypeOK, NEW i \in Samples
    PROVE  /\ ChunkSize \in Nat \ {0}
           /\ WorkerOf(i) \in Workers
           /\ ((i - 1) % ChunkSize) + 1 \in 1..ChunkSize
           /\ (WorkerOf(i) - 1) * ChunkSize + ((i - 1) % ChunkSize) + 1 = i
<1>1. /\ BatchSize \in Nat \ {0} /\ config.workers \in Nat \ {0}
      /\ BatchSize % config.workers = 0
  <2>1. config.workers \in WorkerCounts
    BY DEF TypeOK
  <2> QED
    BY <2>1, AgentAssumption
<1>2. ChunkSize \in Nat \ {0} /\ BatchSize = config.workers * ChunkSize
  BY <1>1, Chunks DEF ChunkSize
<1>3. i \in 1..config.workers * ChunkSize
  BY <1>2 DEF Samples
<1>4. /\ ((i - 1) \div ChunkSize) + 1 \in 1..config.workers
      /\ ((i - 1) % ChunkSize) + 1 \in 1..ChunkSize
      /\ ((i - 1) \div ChunkSize) * ChunkSize + ((i - 1) % ChunkSize) + 1 = i
  BY <1>1, <1>2, <1>3, InChunk
<1>5. (i - 1) \div ChunkSize \in Int
  BY <1>2, Division DEF Samples
<1>6. WorkerOf(i) - 1 = (i - 1) \div ChunkSize
  BY <1>5 DEF WorkerOf
<1> QED
  BY <1>2, <1>4, <1>6 DEF WorkerOf, Workers

\* The root of the heap exists: counts differ by at most one, and of the
\* servers with the lowest count there is one with the lowest number.
LEMMA LeastFacts ==
    ASSUME TypeOK, Balanced, NEW w \in Workers
    PROVE  /\ LeastRequests(w) \in Servers
           /\ \A t \in Servers : counts[w][LeastRequests(w)] <= counts[w][t]
<1> DEFINE c == counts[w]
           low == {s \in Servers : \A t \in Servers : c[s] <= c[t]}
<1>1. c \in [Servers -> Nat] /\ \A s, t \in Servers : c[s] <= c[t] + 1
  BY DEF TypeOK, Balanced
<1>2. 1 \in Servers
  BY ConfigFacts DEF Servers
<1> HIDE DEF c
<1>3. low # {}
  <2>1. CASE \A t \in Servers : c[1] <= c[t]
    BY <1>2, <2>1
  <2>2. CASE \E t \in Servers : ~(c[1] <= c[t])
    <3>1. PICK t \in Servers : ~(c[1] <= c[t])
      BY <2>2
    <3>2. c[1] = c[t] + 1
      BY <1>1, <1>2, <3>1
    <3>3. \A u \in Servers : c[t] <= c[u]
      BY <1>1, <1>2, <3>2
    <3> QED
      BY <3>3
  <2> QED
    BY <2>1, <2>2
<1>4. low \in SUBSET Nat
  BY ConfigFacts DEF Servers
<1>5. PICK s \in low : \A t \in low : s <= t
  BY <1>3, <1>4, LeastNumber
<1>6. \A t \in Servers : c[s] < c[t] \/ (c[s] = c[t] /\ s <= t)
  <2> TAKE t \in Servers
  <2>1. c[s] <= c[t] /\ c[s] \in Nat /\ c[t] \in Nat
    BY <1>1, <1>5
  <2>2. CASE c[s] = c[t]
    <3>1. t \in low
      BY <1>5, <2>2
    <3> QED
      BY <1>5, <2>2, <3>1
  <2> QED
    BY <2>1, <2>2
<1>7. \E r \in Servers : \A t \in Servers :
         counts[w][r] < counts[w][t] \/ (counts[w][r] = counts[w][t] /\ r <= t)
  BY <1>5, <1>6 DEF c
<1>8. /\ LeastRequests(w) \in Servers
      /\ \A t \in Servers :
            \/ counts[w][LeastRequests(w)] < counts[w][t]
            \/ counts[w][LeastRequests(w)] = counts[w][t] /\ LeastRequests(w) <= t
  BY <1>7 DEF LeastRequests
<1> QED
  BY <1>1, <1>8 DEF c

\* What the choice of a server changes.
LEMMA RouteFacts ==
    ASSUME TypeOK, Balanced, NEW w \in Workers, NEW r \in Nat, NEW s \in Servers,
           ToKnown(w, r, s) \/ ToLeast(w, r, s)
    PROVE  /\ sticky' \in [Workers -> Seq(Entries)]
           /\ counts' \in [Workers -> [Servers -> Nat]]
           /\ \A v \in Workers : \A t, u \in Servers : counts'[v][t] <= counts'[v][u] + 1
<1> DEFINE q == sticky[w]
           e == [request |-> r, server |-> s]
<1>1. /\ sticky \in [Workers -> Seq(Entries)] /\ q \in Seq(Entries) /\ Len(q) \in Nat
      /\ DOMAIN q = 1..Len(q)
  BY LenProperties DEF TypeOK, Entries
<1>2. e \in Entries
  BY DEF Entries
<1>3. CASE ToKnown(w, r, s)
  <2>1. PICK k \in DOMAIN q :
            sticky' = [sticky EXCEPT ![w] = Append(RemoveAt(q, k), q[k])]
    BY <1>3 DEF ToKnown
  <2>2. /\ SubSeq(q, 1, k - 1) \in Seq(Entries)
        /\ SubSeq(q, k + 1, Len(q)) \in Seq(Entries)
    <3>1. /\ 1 \in Int /\ k - 1 \in Int /\ k + 1 \in Int /\ Len(q) \in Int
          /\ \A i \in 1..k - 1 : q[i] \in Entries
          /\ \A i \in k + 1..Len(q) : q[i] \in Entries
      BY <1>1, ElementOfSeq
    <3> HIDE DEF q
    <3> QED
      BY <3>1, SubSeqProperties
  <2>3. RemoveAt(q, k) \in Seq(Entries) /\ q[k] \in Entries
    BY <1>1, <2>2, ConcatProperties, ElementOfSeq DEF RemoveAt
  <2>4. Append(RemoveAt(q, k), q[k]) \in Seq(Entries)
    BY <2>3, AppendProperties
  <2>5. UNCHANGED counts
    BY <1>3 DEF ToKnown
  <2> QED
    BY <1>1, <2>1, <2>4, <2>5 DEF TypeOK, Balanced
<1>4. CASE ToLeast(w, r, s)
  <2>1. /\ sticky' = [sticky EXCEPT ![w] = Append(Evicted(w), e)]
        /\ s = LeastRequests(w)
        /\ counts' = [counts EXCEPT ![w][s] = @ + 1]
    BY <1>4 DEF ToLeast
  <2>2. Evicted(w) \in Seq(Entries)
    <3>1. CASE Len(q) < MaxCacheSize
      BY <1>1, <3>1 DEF Evicted
    <3>2. CASE ~(Len(q) < MaxCacheSize)
      <4>1. MaxCacheSize \in Nat \ {0}
        BY AgentAssumption
      <4>2. q # <<>>
        BY <1>1, <3>2, <4>1, EmptySeq
      <4>3. Tail(q) \in Seq(Entries)
        BY <1>1, <4>2, HeadTailProperties
      <4> QED
        BY <3>2, <4>3 DEF Evicted
    <3> QED
      BY <3>1, <3>2
  <2>3. sticky' \in [Workers -> Seq(Entries)]
    BY <1>1, <1>2, <2>1, <2>2, AppendProperties
  <2>4. counts \in [Workers -> [Servers -> Nat]]
    BY DEF TypeOK
  <2>5. counts' \in [Workers -> [Servers -> Nat]]
    BY <2>1, <2>4
  <2>6. ASSUME NEW v \in Workers, NEW t \in Servers, NEW u \in Servers
        PROVE  counts'[v][t] <= counts'[v][u] + 1
    <3>1. counts[v][t] <= counts[v][u] + 1 /\ counts[w][s] <= counts[w][u]
      BY <2>1, LeastFacts DEF Balanced
    <3>2. /\ counts'[v][t] = IF v = w /\ t = s THEN counts[v][t] + 1 ELSE counts[v][t]
          /\ counts'[v][u] = IF v = w /\ u = s THEN counts[v][u] + 1 ELSE counts[v][u]
      BY <2>1, <2>4
    <3>3. counts[v][t] \in Nat /\ counts[v][u] \in Nat
      BY <2>4
    <3> QED
      BY <3>1, <3>2, <3>3
  <2> QED
    BY <2>3, <2>5, <2>6
<1> QED
  BY <1>3, <1>4

-----------------------------------------------------------------------------
(***************************************************************************)
(* Every step preserves the invariant.                                     *)
(***************************************************************************)
LEMMA InitIInv == Init => IInv
<1> SUFFICES ASSUME Init PROVE IInv
  OBVIOUS
<1>1. /\ <<>> \in Seq(Writers) /\ <<>> \in Seq({0, 1}) /\ <<>> \in Seq(Samples)
      /\ <<>> \in Seq([request : Nat, server : Servers])
  BY EmptySeq
<1>2. NewAgent \in Agents
  BY <1>1 DEF NewAgent, Agents, States
<1>3. TypeOK
  BY <1>1, <1>2, AgentAssumption DEF Init, TypeOK, Agents
<1>4. AgentInv
  BY <1>3, NewAgentOK DEF Init, AgentInv
<1>5. PhaseInv /\ EngineInv
  BY DEF Init, PhaseInv, EngineInv, Running
<1>6. Balanced
  BY DEF Init, Balanced
<1>7. RowsMatch /\ RowsFit
  <2>1. output = <<>> /\ DOMAIN <<>> = {}
    BY DEF Init
  <2> QED
    BY <2>1 DEF RowsMatch, RowsFit
<1> QED
  BY <1>3, <1>4, <1>5, <1>6, <1>7 DEF IInv

\* A sample leaves the manager alone.
LEMMA SampleFrame ==
    ASSUME IInv, NEW i \in Samples, SampleStep(i)
    PROVE  /\ Running
           /\ UNCHANGED <<trainer, phase, tasks, awake, loaded, output>>
           /\ \E a : Becomes(i, a)
           /\ finished' \in {finished, Append(finished, i)}
           /\ \/ UNCHANGED cached
              \/ \E s \in Servers : cached' = [cached EXCEPT ![s] = @ \cup {loaded[s]}]
           /\ \/ UNCHANGED routing
              \/ SendRequest(i)
<1>1. TypeOK /\ AgentInv
  BY DEF IInv
<1>2. ~Running => agent[i].state = "pending" /\ agent[i].server = Nowhere
  BY DEF IInv, PhaseInv, NewAgent
<1>3. ASSUME NEW n \in 1..PromptLength, HandlePending(i, n)
      PROVE  /\ Running
             /\ UNCHANGED <<trainer, phase, engines, output, routing, finished>>
             /\ \E a : Becomes(i, a)
  BY <1>1, <1>3, PendingFacts DEF HandlePending
<1>8. CASE RejectRequest(i)
  BY <1>1, <1>2, <1>8, RejectFacts DEF RejectRequest, engines
<1>4. CASE SendRequest(i)
  BY <1>1, <1>4, SendFacts DEF SendRequest, engines
<1>5. ASSUME NEW n \in 1..MaxTokens, NEW toolCalls \in BOOLEAN,
             HandleGenerated(i, n, toolCalls)
      PROVE  /\ Running
             /\ UNCHANGED <<trainer, phase, tasks, awake, loaded, output, routing>>
             /\ \E a : Becomes(i, a)
             /\ finished' \in {finished, Append(finished, i)}
             /\ \E s \in Servers : cached' = [cached EXCEPT ![s] = @ \cup {loaded[s]}]
  <2>1. agent[i].server \in Servers
    BY <1>5 DEF HandleGenerated, IInv, TypeOK
  <2>2. \E a : Becomes(i, a)
    BY <1>1, <1>5, GeneratedFacts
  <2>3. Running
    BY <1>2, <1>5 DEF HandleGenerated
  <2> QED
    BY <1>5, <2>1, <2>2, <2>3 DEF HandleGenerated, Finish
<1>6. ASSUME NEW n \in 1..MaxReply, HandleTools(i, n)
      PROVE  /\ Running
             /\ UNCHANGED <<trainer, phase, engines, output, routing>>
             /\ \E a : Becomes(i, a)
             /\ finished' \in {finished, Append(finished, i)}
  BY <1>1, <1>2, <1>6, ToolsFacts DEF HandleTools, Finish
<1>7. ASSUME NEW n \in 1..MaxReply, NEW terminate \in BOOLEAN,
             HandleInteraction(i, n, terminate)
      PROVE  /\ Running
             /\ UNCHANGED <<trainer, phase, engines, output, routing>>
             /\ \E a : Becomes(i, a)
             /\ finished' \in {finished, Append(finished, i)}
  BY <1>1, <1>2, <1>7, InteractionFacts DEF HandleInteraction, Finish
<1> QED
  BY <1>3, <1>4, <1>5, <1>6, <1>7, <1>8 DEF SampleStep, engines

LEMMA SampleInv ==
    ASSUME IInv, NEW i \in Samples, SampleStep(i)
    PROVE  IInv'
<1>1. /\ Running /\ Running'
      /\ UNCHANGED <<trainer, phase, tasks, awake, loaded, output>>
  BY SampleFrame DEF Running
<1>2. PICK a : AgentOK(a) /\ agent' = [agent EXCEPT ![i] = a]
  BY SampleFrame DEF Becomes
<1>3. TypeOK /\ AgentInv /\ EngineInv /\ Balanced /\ RowsMatch /\ RowsFit
  BY DEF IInv
<1>4. /\ agent' \in [Samples -> Agents]
      /\ AgentInv'
  <2>1. agent \in [Samples -> Agents] /\ a \in Agents
    BY <1>2, <1>3 DEF TypeOK, Agents, AgentOK
  <2>2. config' = config
    BY <1>1 DEF trainer
  <2>4. agent' \in [Samples -> Agents]
    BY <1>2, <2>1
  <2>5. ASSUME NEW j \in Samples PROVE AgentOK(agent[j])'
    <3>1. AgentOK(agent'[j])
      BY <1>2, <1>3, <2>1 DEF AgentInv
    <3> QED
      BY <2>2, <3>1 DEF AgentOK, Turns, Lengths, Overrun, EndsWithUser, Room
  <2> QED
    BY <2>4, <2>5 DEF AgentInv
<1>5. /\ cached' \in [Servers -> SUBSET Nat]
      /\ \A s \in Servers : cached'[s] \subseteq {policy}
  <2>1. /\ cached \in [Servers -> SUBSET Nat] /\ loaded \in [Servers -> Nat]
        /\ \A s \in Servers : cached[s] \subseteq {policy} /\ loaded[s] = policy
    BY <1>1, <1>3 DEF TypeOK, EngineInv
  <2>2. \/ UNCHANGED cached
        \/ \E s \in Servers : cached' = [cached EXCEPT ![s] = @ \cup {loaded[s]}]
    BY SampleFrame
  <2> QED
    BY <2>1, <2>2
<1>6. /\ sticky' \in [Workers -> Seq(Entries)]
      /\ counts' \in [Workers -> [Servers -> Nat]]
      /\ sentTo' \in [Samples -> SUBSET Servers]
      /\ \A v \in Workers : \A t, u \in Servers : counts'[v][t] <= counts'[v][u] + 1
  <2>1. CASE UNCHANGED routing
    BY <1>3, <2>1 DEF routing, TypeOK, Balanced, Entries
  <2>2. CASE SendRequest(i)
    <3>1. PICK s \in Servers :
             /\ \/ ToKnown(WorkerOf(i), RequestId(i), s)
                \/ ToLeast(WorkerOf(i), RequestId(i), s)
             /\ sentTo' = [sentTo EXCEPT ![i] = @ \cup {s}]
      BY <2>2 DEF SendRequest
    <3>2. WorkerOf(i) \in Workers
      BY <1>3, WorkerFacts
    <3>3. RequestId(i) \in Nat
      <4>1. call - 1 \in Nat /\ BatchSize \in Nat /\ i \in Nat
        <5>1. call > 0 /\ call \in 0..MaxCalls
          BY <1>1, <1>3 DEF TypeOK, IInv, PhaseInv, Running
        <5>2. BatchSize \in Nat /\ MaxCalls \in Nat
          BY AgentAssumption
        <5> QED
          BY <5>1, <5>2 DEF Samples
      <4>2. (call - 1) * BatchSize \in Nat
        BY <4>1
      <4> QED
        BY <4>1, <4>2 DEF RequestId
    <3>4. /\ sticky' \in [Workers -> Seq(Entries)]
          /\ counts' \in [Workers -> [Servers -> Nat]]
          /\ \A v \in Workers : \A t, u \in Servers : counts'[v][t] <= counts'[v][u] + 1
      BY <1>3, <3>1, <3>2, <3>3, RouteFacts
    <3> QED
      BY <1>3, <3>1, <3>4 DEF TypeOK
  <2> QED
    BY <2>1, <2>2, SampleFrame
<1>7. finished' \in Seq(Samples)
  <2>1. finished \in Seq(Samples) /\ Append(finished, i) \in Seq(Samples)
    BY <1>3, AppendProperties DEF TypeOK
  <2>2. finished' \in {finished, Append(finished, i)}
    BY SampleFrame
  <2> QED
    BY <2>1, <2>2
<1>8. TypeOK'
  BY <1>1, <1>3, <1>4, <1>5, <1>6, <1>7 DEF TypeOK, trainer, Agents, Entries, Workers
<1>9. PhaseInv' /\ EngineInv'
  BY <1>1, <1>3, <1>5 DEF IInv, PhaseInv, EngineInv, Running, trainer
<1>10. Balanced' /\ RowsMatch' /\ RowsFit'
  BY <1>1, <1>3, <1>6 DEF Balanced, RowsMatch, RowsFit, trainer, Workers
<1> QED
  BY <1>4, <1>8, <1>9, <1>10 DEF IInv

LEMMA ReplicaInv ==
    ASSUME IInv, NEW s \in Servers, ReplicaStep(s)
    PROVE  IInv'
<1> USE DEF IInv
<1>1. CASE WakeUp(s)
  <2>1. TypeOK'
    BY <1>1 DEF WakeUp, TypeOK, Sync, trainer, routing, Workers
  <2>2. EngineInv'
    BY <1>1 DEF WakeUp, EngineInv, TypeOK, Sync, Running, trainer
  <2>3. AgentInv' /\ PhaseInv'
    BY <1>1 DEF WakeUp, AgentInv, AgentOK, Turns, Lengths, Overrun, PhaseInv,
                Running, trainer
  <2>4. Balanced' /\ RowsMatch' /\ RowsFit'
    BY <1>1 DEF WakeUp, Balanced, RowsMatch, RowsFit, trainer, routing, Workers
  <2> QED
    BY <2>1, <2>2, <2>3, <2>4
<1>2. CASE Sleep(s)
  <2>1. TypeOK'
    BY <1>2 DEF Sleep, TypeOK, Reset, trainer, routing, Workers
  <2>2. EngineInv'
    BY <1>2 DEF Sleep, EngineInv, TypeOK, Reset, Running, trainer
  <2>3. AgentInv' /\ PhaseInv'
    BY <1>2 DEF Sleep, AgentInv, AgentOK, Turns, Lengths, Overrun, PhaseInv,
                Running, trainer
  <2>4. Balanced' /\ RowsMatch' /\ RowsFit'
    BY <1>2 DEF Sleep, Balanced, RowsMatch, RowsFit, trainer, routing, Workers
  <2> QED
    BY <2>1, <2>2, <2>3, <2>4
<1> QED
  BY <1>1, <1>2 DEF ReplicaStep

LEMMA GenerateInv ==
    ASSUME IInv, NEW updates \in 0..1, Generate(updates)
    PROVE  IInv'
<1> USE DEF IInv
<1>1. TypeOK'
  <2>1. call' \in 0..MaxCalls
    BY AgentAssumption DEF Generate, TypeOK
  <2>2. policy' \in Nat \ {0}
    BY DEF Generate, TypeOK
  <2> QED
    BY <2>1, <2>2 DEF Generate, TypeOK, routing, Workers
<1>2. EngineInv'
  BY DEF Generate, EngineInv, Running
<1>3. AgentInv' /\ PhaseInv'
  <2>1. config' = config /\ agent' = agent
    BY DEF Generate
  <2>2. AgentInv'
    BY <2>1 DEF AgentInv, AgentOK, Turns, Lengths, Overrun, EndsWithUser, Room
  <2>3. call' > 0
    BY DEF Generate, TypeOK
  <2>4. PhaseInv'
    BY <2>1, <2>3 DEF Generate, PhaseInv, Running
  <2> QED
    BY <2>2, <2>4
<1>4. Balanced'
  BY DEF Generate, Balanced, routing, Workers
<1>5. RowsMatch' /\ RowsFit'
  <2>1. output' = <<>> /\ DOMAIN <<>> = {}
    BY DEF Generate
  <2> QED
    BY <2>1 DEF RowsMatch, RowsFit
<1> QED
  BY <1>1, <1>2, <1>3, <1>4, <1>5

\* The row of a sample.
LEMMA FinalizedFacts ==
    ASSUME TypeOK, AgentInv, NEW i \in Samples
    PROVE  LET row == Finalized(i)
           IN  /\ row.sample = i
               /\ \A k \in DOMAIN row.prompt : row.prompt[k] = "prompt"
               /\ DOMAIN row.mask = DOMAIN row.response
               /\ \A k \in DOMAIN row.mask :
                     /\ row.response[k] # "prompt"
                     /\ row.mask[k] = 1 <=> row.response[k] = "model"
               /\ Len(row.prompt) <= PromptLength
               /\ Len(row.response) <= ResponseLength
<1> DEFINE p == agent[i].promptIds
           m == agent[i].mask
           from == Len(p) - Len(m)
           cut == IF Len(m) < ResponseLength THEN Len(m) ELSE ResponseLength
           prompt == SubSeq(p, 1, from)
           response == SubSeq(p, from + 1, from + cut)
           mask == SubSeq(m, 1, cut)
<1>1. /\ p \in Seq(Writers) /\ m \in Seq({0, 1})
      /\ Len(p) \in Nat /\ Len(m) \in Nat /\ Len(m) <= Len(p)
  BY LenProperties DEF AgentInv, AgentOK, Aligned, Agents
<1>2. /\ \A k \in 1..from : p[k] = "prompt"
      /\ \A k \in 1..Len(m) :
            p[from + k] # "prompt" /\ (m[k] = 1 <=> p[from + k] = "model")
  BY DEF AgentInv, AgentOK, Aligned
<1>3. /\ cut \in Nat /\ cut <= Len(m) /\ from \in Nat /\ from + cut <= Len(p)
      /\ cut <= ResponseLength /\ from <= PromptLength
  <2>1. ResponseLength \in Nat
    BY ConfigFacts
  <2>2. cut \in Nat /\ cut <= Len(m) /\ cut <= ResponseLength
    BY <1>1, <2>1
  <2>4. from <= PromptLength
    BY DEF AgentInv, AgentOK, Lengths
  <2>3. from \in Nat /\ from + Len(m) = Len(p)
    BY <1>1
  <2> HIDE DEF cut, from
  <2> QED
    BY <1>1, <2>2, <2>3, <2>4
<1> HIDE DEF from, cut, p, m
<1>4. /\ prompt \in Seq(Writers) /\ Len(prompt) = from
      /\ \A k \in 1..from : prompt[k] = p[k]
  <2>1. \A k \in 1..from : p[k] \in Writers
    BY <1>2 DEF Writers
  <2>2. 1 \in Int /\ from \in Int /\ (IF 1 <= from THEN from - 1 + 1 ELSE 0) = from
    BY <1>3
  <2>3. \A k \in 1..from : k \in 1..(from - 1) + 1 /\ 1 + k - 1 = k
    BY <1>3
  <2> QED
    BY <2>1, <2>2, <2>3, SubSeqProperties
<1>5. /\ response \in Seq(Writers) /\ Len(response) = cut
      /\ \A k \in 1..cut : response[k] = p[from + k]
  <2> DEFINE lo == from + 1
             hi == from + cut
  <2>1. \A k \in lo..hi : p[k] \in Writers
    BY <1>1, <1>3, ElementOfSeq
  <2>2. lo \in Int /\ hi \in Int
    BY <1>3
  <2>3. (IF lo <= hi THEN hi - lo + 1 ELSE 0) = cut
    BY <1>3
  <2>4. \A k \in 1..cut : k \in 1..hi - lo + 1 /\ lo + k - 1 = from + k
    BY <1>3
  <2>5. response = SubSeq(p, lo, hi)
    OBVIOUS
  <2> HIDE DEF lo, hi, response
  <2>6. /\ SubSeq(p, lo, hi) \in Seq(Writers)
        /\ Len(SubSeq(p, lo, hi)) = cut
        /\ \A k \in 1..hi - lo + 1 : SubSeq(p, lo, hi)[k] = p[lo + k - 1]
    BY <2>1, <2>2, <2>3, SubSeqProperties
  <2>7. \A k \in 1..cut : response[k] = p[from + k]
    BY <2>4, <2>5, <2>6
  <2> QED
    BY <2>5, <2>6, <2>7
<1>6. /\ mask \in Seq({0, 1}) /\ Len(mask) = cut
      /\ \A k \in 1..cut : mask[k] = m[k]
  <2>1. \A k \in 1..cut : m[k] \in {0, 1}
    BY <1>1, <1>3, ElementOfSeq
  <2>2. 1 \in Int /\ cut \in Int /\ (IF 1 <= cut THEN cut - 1 + 1 ELSE 0) = cut
    BY <1>3
  <2>3. \A k \in 1..cut : k \in 1..(cut - 1) + 1 /\ 1 + k - 1 = k
    BY <1>3
  <2> QED
    BY <2>1, <2>2, <2>3, SubSeqProperties
<1> HIDE DEF prompt, response, mask
<1>7. DOMAIN prompt = 1..from /\ DOMAIN response = 1..cut /\ DOMAIN mask = 1..cut
  BY <1>4, <1>5, <1>6, LenProperties
<1>8. /\ \A k \in DOMAIN prompt : prompt[k] = "prompt"
      /\ \A k \in DOMAIN mask :
            response[k] # "prompt" /\ (mask[k] = 1 <=> response[k] = "model")
  <2>1. \A k \in 1..from : prompt[k] = "prompt"
    BY <1>2, <1>4
  <2>2. ASSUME NEW k \in 1..cut
        PROVE  response[k] # "prompt" /\ (mask[k] = 1 <=> response[k] = "model")
    <3>1. k \in 1..Len(m)
      BY <1>1, <1>3
    <3>2. response[k] = p[from + k] /\ mask[k] = m[k]
      BY <1>5, <1>6
    <3> QED
      BY <1>2, <3>1, <3>2
  <2> QED
    BY <1>7, <2>1, <2>2
<1>9. /\ Finalized(i).sample = i /\ Finalized(i).prompt = prompt
      /\ Finalized(i).response = response /\ Finalized(i).mask = mask
  BY DEF Finalized, prompt, response, mask, from, cut, p, m
<1> QED
  BY <1>3, <1>4, <1>5, <1>7, <1>8, <1>9

LEMMA CollectInv ==
    ASSUME IInv, Collect
    PROVE  IInv'
<1>1. TypeOK /\ AgentInv /\ EngineInv /\ Balanced
  BY DEF IInv
<1>2. AgentOK(NewAgent)
  BY <1>1, NewAgentOK
<1>3. agent' \in [Samples -> Agents] /\ AgentInv'
  BY <1>1, <1>2 DEF Collect, AgentInv, AgentOK, Turns, Lengths, Overrun, trainer
<1>4. finished' \in Seq(Samples)
  BY EmptySeq DEF Collect
<1>5. TypeOK'
  BY <1>1, <1>3, <1>4 DEF Collect, TypeOK, Agents, trainer, Workers
<1>6. PhaseInv' /\ EngineInv'
  BY <1>1 DEF IInv, Collect, PhaseInv, EngineInv, Running, trainer
<1>7. Balanced'
  BY <1>1 DEF Collect, Balanced, trainer, Workers
<1>8. RowsMatch' /\ RowsFit'
  <2>1. ASSUME NEW j \in Samples
        PROVE  output'[j] = Finalized(j)
    <3>1. Gathered(WorkerOf(j))[((j - 1) % ChunkSize) + 1] = j
      <4> DEFINE k == ((j - 1) % ChunkSize) + 1
      <4>1. k \in 1..ChunkSize /\ k \in Nat /\ ChunkSize \in Nat
        BY <1>1, WorkerFacts
      <4>2. (WorkerOf(j) - 1) * ChunkSize + k = j
        <5>1. (j - 1) % ChunkSize \in Nat
          BY <1>1, WorkerFacts, Division DEF Samples
        <5>2. (WorkerOf(j) - 1) * ChunkSize \in Int
          BY <1>1, WorkerFacts, ConfigFacts DEF Workers
        <5> QED
          BY <1>1, <5>1, <5>2, WorkerFacts
      <4> HIDE DEF k
      <4>3. Gathered(WorkerOf(j))[k] = j
        BY <4>1, <4>2 DEF Gathered
      <4> QED
        BY <4>3 DEF k
    <3> QED
      BY <3>1 DEF Collect
  <2>2. DOMAIN output' = Samples
    BY DEF Collect
  <2> QED
    BY <1>1, <2>1, <2>2, FinalizedFacts DEF RowsMatch, RowsFit
<1> QED
  BY <1>3, <1>5, <1>6, <1>7, <1>8 DEF IInv

LEMMA ManagerInv ==
    ASSUME IInv, ManagerStep
    PROVE  IInv'
<1>1. CASE Collect
  BY <1>1, CollectInv
<1>2. CASE Dispatch \/ Fail \/ Return
  <2> USE DEF IInv
  <2>1. /\ UNCHANGED <<trainer, engines, routing, agent, finished, output>>
        /\ \/ phase = "wake" /\ phase' = "run" /\ tasks = {}
           \/ phase = "run" /\ phase' = "failed"
           \/ phase = "sleep" /\ phase' = "idle" /\ tasks = {}
    BY <1>2 DEF Dispatch, Fail, Return
  <2>2. TypeOK'
    BY <2>1 DEF TypeOK, trainer, engines, routing, Workers
  <2>3. EngineInv'
    BY <2>1 DEF EngineInv, Running, trainer, engines
  <2>4. AgentInv' /\ PhaseInv'
    BY <2>1 DEF AgentInv, AgentOK, Turns, Lengths, Overrun, PhaseInv, Running, trainer
  <2>5. Balanced' /\ RowsMatch' /\ RowsFit'
    BY <2>1 DEF Balanced, RowsMatch, RowsFit, trainer, routing, Workers
  <2> QED
    BY <2>2, <2>3, <2>4, <2>5
<1> QED
  BY <1>1, <1>2 DEF ManagerStep

LEMMA NextIInv == IInv /\ [Next]_vars => IInv'
<1> SUFFICES ASSUME IInv, [Next]_vars PROVE IInv'
  OBVIOUS
<1>1. CASE \E updates \in 0..1 : Generate(updates)
  BY <1>1, GenerateInv
<1>2. CASE \E s \in Servers : ReplicaStep(s)
  BY <1>2, ReplicaInv
<1>3. CASE ManagerStep
  BY <1>3, ManagerInv
<1>4. CASE \E i \in Samples : SampleStep(i)
  BY <1>4, SampleInv
<1>5. CASE UNCHANGED vars
  <2>1. UNCHANGED <<trainer, phase, engines, routing, agent, finished, output>>
    BY <1>5 DEF vars
  <2> USE DEF IInv
  <2>2. TypeOK'
    BY <2>1 DEF TypeOK, trainer, engines, routing, Workers
  <2>3. EngineInv'
    BY <2>1 DEF EngineInv, Running, trainer, engines
  <2>4. AgentInv' /\ PhaseInv'
    BY <2>1 DEF AgentInv, AgentOK, Turns, Lengths, Overrun, PhaseInv, Running, trainer
  <2>5. Balanced' /\ RowsMatch' /\ RowsFit'
    BY <2>1 DEF Balanced, RowsMatch, RowsFit, trainer, routing, Workers
  <2> QED
    BY <2>2, <2>3, <2>4, <2>5
<1> QED
  BY <1>1, <1>2, <1>3, <1>4, <1>5 DEF Next, Terminated

LEMMA Invariance == Spec => []IInv
BY InitIInv, NextIInv, PTL DEF Spec

-----------------------------------------------------------------------------
(***************************************************************************)
(* Sticky sessions.  The requests of the call in progress are the youngest *)
(* ones in the cache, and there is room for all of them: so none of them   *)
(* is ever pushed out.                                                     *)
(***************************************************************************)

\* The requests of the call in progress have the numbers after this one.
Base == (call - 1) * BatchSize

QueueOK(w) ==
    /\ \A j, k \in DOMAIN sticky[w] :
          sticky[w][j].request = sticky[w][k].request => j = k
    /\ \A j, k \in DOMAIN sticky[w] :
          j < k /\ sticky[w][j].request > Base => sticky[w][k].request > Base
    /\ \A k \in DOMAIN sticky[w] : sticky[w][k].request <= Base + BatchSize

\* The server of a sample is the one its entry names.
SentOK(i) ==
    \/ sentTo[i] = {}
    \/ \E k \in DOMAIN sticky[WorkerOf(i)] :
          /\ sticky[WorkerOf(i)][k].request = RequestId(i)
          /\ sentTo[i] = {sticky[WorkerOf(i)][k].server}

StickyInv == /\ \A w \in Workers : QueueOK(w)
             /\ \A i \in Samples : SentOK(i)
             /\ ~Running => \A i \in Samples : sentTo[i] = {}

LEMMA MovedToEnd ==
    ASSUME NEW S, NEW q \in Seq(S), NEW k \in 1..Len(q)
    PROVE  LET t == Append(RemoveAt(q, k), q[k])
           IN  /\ t \in Seq(S) /\ Len(t) = Len(q)
               /\ \A j \in 1..Len(q) : t[j] = IF j < k THEN q[j]
                                              ELSE IF j < Len(q) THEN q[j + 1]
                                              ELSE q[k]
<1> DEFINE n == Len(q)
           a == SubSeq(q, 1, k - 1)
           b == SubSeq(q, k + 1, n)
           r == RemoveAt(q, k)
           t == Append(r, q[k])
<1>1. n \in Nat /\ k \in Int /\ 1 <= k /\ k <= n /\ \A j \in 1..n : q[j] \in S
  BY LenProperties, ElementOfSeq
<1>2. r = a \o b
  BY DEF RemoveAt
<1> HIDE DEF n
<1>3. /\ a \in Seq(S) /\ Len(a) = k - 1 /\ \A j \in 1..k - 1 : a[j] = q[j]
  <2>1. 1 \in Int /\ k - 1 \in Int /\ \A j \in 1..k - 1 : q[j] \in S
    BY <1>1
  <2>2. (IF 1 <= k - 1 THEN (k - 1) - 1 + 1 ELSE 0) = k - 1
    BY <1>1
  <2>3. \A j \in 1..k - 1 : j \in 1..(k - 1) - 1 + 1 /\ 1 + j - 1 = j
    BY <1>1
  <2> QED
    BY <2>1, <2>2, <2>3, SubSeqProperties
<1>4. /\ b \in Seq(S) /\ Len(b) = n - k /\ \A j \in 1..n - k : b[j] = q[j + k]
  <2> DEFINE lo == k + 1
  <2>1. lo \in Int /\ n \in Int /\ \A j \in lo..n : q[j] \in S
    BY <1>1
  <2>2. (IF lo <= n THEN n - lo + 1 ELSE 0) = n - k
    BY <1>1
  <2>3. \A j \in 1..n - k : j \in 1..n - lo + 1 /\ lo + j - 1 = j + k
    BY <1>1
  <2>4. b = SubSeq(q, lo, n)
    OBVIOUS
  <2> HIDE DEF lo, b
  <2>5. /\ SubSeq(q, lo, n) \in Seq(S)
        /\ Len(SubSeq(q, lo, n)) = n - k
        /\ \A j \in 1..n - lo + 1 : SubSeq(q, lo, n)[j] = q[lo + j - 1]
    BY <2>1, <2>2, SubSeqProperties
  <2> QED
    BY <2>3, <2>4, <2>5
<1> HIDE DEF a, b, r, t
<1>5. /\ r \in Seq(S) /\ Len(r) = n - 1
      /\ \A j \in 1..n - 1 : r[j] = IF j < k THEN q[j] ELSE q[j + 1]
  <2>1. /\ a \o b \in Seq(S) /\ Len(a \o b) = Len(a) + Len(b)
        /\ \A j \in 1..Len(a) + Len(b) :
              (a \o b)[j] = IF j <= Len(a) THEN a[j] ELSE b[j - Len(a)]
    BY <1>3, <1>4, ConcatProperties
  <2>2. Len(a) + Len(b) = n - 1
    BY <1>1, <1>3, <1>4
  <2>3. ASSUME NEW j \in 1..n - 1
        PROVE  r[j] = IF j < k THEN q[j] ELSE q[j + 1]
    <3>1. CASE j < k
      <4>1. j <= Len(a) /\ j \in 1..k - 1
        BY <1>1, <1>3, <3>1
      <4> QED
        BY <1>2, <1>3, <2>1, <2>2, <3>1, <4>1
    <3>2. CASE ~(j < k)
      <4>1. ~(j <= Len(a)) /\ j - Len(a) \in 1..n - k /\ (j - Len(a)) + k = j + 1
        BY <1>1, <1>3, <3>2
      <4>2. r[j] = b[j - Len(a)]
        BY <1>2, <2>1, <2>2, <4>1
      <4>3. b[j - Len(a)] = q[(j - Len(a)) + k]
        BY <1>4, <4>1
      <4> QED
        BY <3>2, <4>1, <4>2, <4>3
    <3> QED
      BY <3>1, <3>2
  <2> QED
    BY <1>2, <2>1, <2>2, <2>3
<1>6. /\ t \in Seq(S) /\ Len(t) = n
      /\ \A j \in 1..n - 1 : t[j] = r[j]
      /\ t[n] = q[k]
  <2>1. /\ t \in Seq(S) /\ Len(t) = Len(r) + 1
        /\ \A j \in 1..Len(r) : t[j] = r[j]
        /\ t[Len(r) + 1] = q[k]
    BY <1>1, <1>5, AppendProperties DEF t
  <2> QED
    BY <1>1, <1>5, <2>1
<1>7. ASSUME NEW j \in 1..n
      PROVE  t[j] = IF j < k THEN q[j] ELSE IF j < n THEN q[j + 1] ELSE q[k]
  <2>1. CASE j < n
    BY <1>1, <1>5, <1>6, <2>1
  <2>2. CASE ~(j < n)
    <3>1. j = n /\ ~(j < k)
      BY <1>1, <2>2
    <3> QED
      BY <1>6, <2>2, <3>1
  <2> QED
    BY <2>1, <2>2
<1> QED
  BY <1>6, <1>7 DEF t, r, n

LEMMA TailAppended ==
    ASSUME NEW S, NEW q \in Seq(S), q # <<>>, NEW e \in S
    PROVE  LET t == Append(Tail(q), e)
           IN  /\ t \in Seq(S) /\ Len(t) = Len(q)
               /\ \A j \in 1..Len(q) : t[j] = IF j < Len(q) THEN q[j + 1] ELSE e
<1> DEFINE n == Len(q)
           r == Tail(q)
           t == Append(r, e)
<1>1. /\ r \in Seq(S) /\ Len(r) = n - 1 /\ n \in Nat
      /\ \A j \in 1..Len(r) : r[j] = q[j + 1]
  BY HeadTailProperties, LenProperties
<1> HIDE DEF r, t, n
<1>2. /\ t \in Seq(S) /\ Len(t) = Len(r) + 1
      /\ \A j \in 1..Len(r) : t[j] = r[j]
      /\ t[Len(r) + 1] = e
  BY <1>1, AppendProperties DEF t
<1>3. ASSUME NEW j \in 1..n
      PROVE  t[j] = IF j < n THEN q[j + 1] ELSE e
  <2>1. CASE j < n
    BY <1>1, <1>2, <2>1
  <2>2. CASE ~(j < n)
    BY <1>1, <1>2, <2>2
  <2> QED
    BY <2>1, <2>2
<1>4. Len(t) = n
  BY <1>1, <1>2
<1> QED
  BY <1>2, <1>3, <1>4 DEF t, r, n

LEMMA BaseFacts ==
    ASSUME TypeOK, call > 0
    PROVE  /\ Base \in Nat
           /\ \A i \in Samples : RequestId(i) = Base + i
           /\ \A i \in Samples : i \in Nat /\ 1 <= i /\ i <= BatchSize
           /\ BatchSize \in Nat /\ MaxCacheSize \in Nat /\ BatchSize <= MaxCacheSize
<1>1. call - 1 \in Nat /\ BatchSize \in Nat
  BY AgentAssumption DEF TypeOK
<1>2. (call - 1) * BatchSize \in Nat
  BY <1>1
<1> QED
  BY <1>2, AgentAssumption DEF Base, RequestId, Samples

\* The oldest entry of a full cache is not one of this call, if i has none.
LEMMA OldestIsOld ==
    ASSUME TypeOK, call > 0, NEW w \in Workers, NEW i \in Samples,
           QueueOK(w), Len(sticky[w]) >= MaxCacheSize,
           \A k \in DOMAIN sticky[w] : sticky[w][k].request # RequestId(i)
    PROVE  sticky[w] # <<>> /\ sticky[w][1].request <= Base
<1> DEFINE q == sticky[w]
           n == Len(q)
<1>1. q \in Seq(Entries) /\ n \in Nat /\ DOMAIN q = 1..n
  BY LenProperties DEF TypeOK, Entries
<1>2. \A k \in 1..n : q[k].request \in Nat /\ q[k].request <= Base + BatchSize
  <2>1. \A k \in 1..n : q[k] \in Entries
    BY <1>1, ElementOfSeq
  <2> QED
    BY <1>1, <2>1 DEF QueueOK, Entries
<1>3. n >= BatchSize /\ n >= 1 /\ 1 \in 1..n
  BY <1>1, BaseFacts, ConfigFacts
<1>4. q # <<>>
  BY <1>3, EmptySeq
<1> HIDE DEF n
<1>5. ASSUME ~(q[1].request <= Base) PROVE FALSE
  <2> DEFINE T == Samples \ {i}
             f == [k \in 1..n |-> q[k].request - Base]
  <2>1. \A k \in 1..n : q[k].request > Base
    <3>1. q[1].request > Base
      BY <1>2, <1>3, <1>5, BaseFacts
    <3>2. \A k \in 1..n : 1 < k \/ k = 1
      BY <1>1
    <3> QED
      BY <1>1, <1>3, <3>1, <3>2 DEF QueueOK
  <2>2. \A k \in 1..n : q[k].request - Base \in T
    <3> SUFFICES ASSUME NEW k \in 1..n PROVE q[k].request - Base \in T
      OBVIOUS
    <3>1. q[k].request - Base \in Samples
      BY <1>2, <2>1, BaseFacts DEF Samples
    <3>2. q[k].request # RequestId(i)
      BY <1>1
    <3>3. q[k].request - Base # i
      BY <1>2, <3>2, BaseFacts
    <3> QED
      BY <3>1, <3>3
  <2>3. f \in [1..n -> T]
    BY <2>2
  <2>4. IsFiniteSet(T) /\ Cardinality(T) = BatchSize - 1
    <3>1. IsFiniteSet(Samples) /\ Cardinality(Samples) = BatchSize
      BY ConfigFacts, FS_Interval DEF Samples
    <3> QED
      BY <3>1, FS_RemoveElement
  <2>5. IsFiniteSet(1..n) /\ Cardinality(1..n) = n
    BY <1>1, FS_Interval
  <2>6. Cardinality(T) < Cardinality(1..n)
    BY <1>1, <1>3, <2>4, <2>5, BaseFacts
  <2>7. PICK j \in 1..n : \E k \in 1..n : j # k /\ f[j] = f[k]
    <3> HIDE DEF f, T
    <3> QED
      BY <2>3, <2>4, <2>5, <2>6, FS_PigeonHole
  <2>8. PICK k \in 1..n : j # k /\ f[j] = f[k]
    BY <2>7
  <2>9. q[j].request = q[k].request
    <3>1. q[j].request - Base = q[k].request - Base
      BY <2>8
    <3>2. q[j].request \in Nat /\ q[k].request \in Nat /\ Base \in Nat
      BY <1>2, BaseFacts
    <3> HIDE DEF q, f
    <3> QED
      BY <3>1, <3>2
  <2> QED
    BY <1>1, <2>8, <2>9 DEF QueueOK
<1> QED
  BY <1>4, <1>5

LEMMA SendSticky ==
    ASSUME IInv, StickyInv, NEW i \in Samples, SendRequest(i)
    PROVE  StickyInv'
<1>1. /\ TypeOK /\ call > 0 /\ call' = call /\ config' = config
      /\ Running'
  BY DEF IInv, PhaseInv, SendRequest, Running, trainer
<1> DEFINE w == WorkerOf(i)
           r == RequestId(i)
           q == sticky[w]
           n == Len(q)
<1>2. PICK s \in Servers :
         /\ ToKnown(w, r, s) \/ ToLeast(w, r, s)
         /\ sentTo' = [sentTo EXCEPT ![i] = @ \cup {s}]
  BY DEF SendRequest
<1>3. /\ w \in Workers /\ \A j \in Samples : WorkerOf(j) \in Workers
      /\ q \in Seq(Entries) /\ n \in Nat /\ DOMAIN q = 1..n
      /\ \A k \in 1..n : q[k] \in Entries
  BY <1>1, WorkerFacts, LenProperties, ElementOfSeq DEF TypeOK, Entries
<1>4. \A k \in 1..n : q[k].request \in Nat
  BY <1>3 DEF Entries
<1>5. /\ QueueOK(w)
      /\ \A j, k \in 1..n : q[j].request = q[k].request => j = k
      /\ \A j, k \in 1..n : j < k /\ q[j].request > Base => q[k].request > Base
      /\ \A k \in 1..n : q[k].request <= Base + BatchSize
      /\ \A j \in Samples : SentOK(j)
  BY <1>3 DEF StickyInv, QueueOK
<1>6. /\ Base \in Nat /\ Base' = Base /\ BatchSize \in Nat
      /\ r > Base /\ r <= Base + BatchSize /\ r \in Nat
      /\ \A j \in Samples : WorkerOf(j)' = WorkerOf(j) /\ RequestId(j)' = RequestId(j)
      /\ \A j \in Samples : RequestId(j) \in Nat /\ RequestId(j) > Base
      /\ \A j \in Samples : RequestId(j) = r => j = i
  BY <1>1, BaseFacts DEF Base, RequestId, WorkerOf, ChunkSize
<1>7. sticky \in [Workers -> Seq(Entries)] /\ sentTo \in [Samples -> SUBSET Servers]
      /\ Workers' = Workers
  BY <1>1 DEF TypeOK, Entries, Workers
\* What is to show of the new cache t: it holds what the old one held of this
\* call, in an order that is still right, and s for i.
<1>8. SUFFICES \E t \in Seq(Entries) :
         /\ sticky' = [sticky EXCEPT ![w] = t]
         /\ \A j, k \in DOMAIN t : t[j].request = t[k].request => j = k
         /\ \A j, k \in DOMAIN t : j < k /\ t[j].request > Base => t[k].request > Base
         /\ \A k \in DOMAIN t : t[k].request <= Base + BatchSize
         /\ \A k \in 1..n : q[k].request > Base => \E j \in DOMAIN t : t[j] = q[k]
         /\ \E k \in DOMAIN t : t[k].request = r /\ t[k].server = s
         /\ sentTo[i] \in {{}, {s}}
  <2>1. PICK t \in Seq(Entries) :
         /\ sticky' = [sticky EXCEPT ![w] = t]
         /\ \A j, k \in DOMAIN t : t[j].request = t[k].request => j = k
         /\ \A j, k \in DOMAIN t : j < k /\ t[j].request > Base => t[k].request > Base
         /\ \A k \in DOMAIN t : t[k].request <= Base + BatchSize
         /\ \A k \in 1..n : q[k].request > Base => \E j \in DOMAIN t : t[j] = q[k]
         /\ \E k \in DOMAIN t : t[k].request = r /\ t[k].server = s
         /\ sentTo[i] \in {{}, {s}}
    BY <1>8
  <2> HIDE DEF w, r, q, n
  <2>2. sticky'[w] = t /\ \A v \in Workers : v # w => sticky'[v] = sticky[v]
    BY <1>3, <1>7, <2>1
  <2>3. ASSUME NEW v \in Workers PROVE QueueOK(v)'
    <3>1. CASE v = w
      BY <1>6, <2>1, <2>2, <3>1 DEF QueueOK
    <3>2. CASE v # w
      <4>1. QueueOK(v) /\ sticky'[v] = sticky[v]
        BY <2>2, <3>2 DEF StickyInv
      <4> QED
        BY <1>6, <4>1 DEF QueueOK
    <3> QED
      BY <3>1, <3>2
  <2>4. ASSUME NEW j \in Samples PROVE SentOK(j)'
    <3>1. CASE j = i
      <4>1. sentTo'[i] = {s}
        BY <1>2, <1>7, <2>1
      <4>2. WorkerOf(i)' = w /\ RequestId(i)' = r
        BY <1>6 DEF w, r
      <4>3. \E k \in DOMAIN sticky'[w] :
               /\ sticky'[w][k].request = r
               /\ {s} = {sticky'[w][k].server}
        BY <2>1, <2>2
      <4> QED
        BY <3>1, <4>1, <4>2, <4>3 DEF SentOK
    <3>2. CASE j # i
      <4>1. sentTo'[j] = sentTo[j] /\ WorkerOf(j)' = WorkerOf(j)
            /\ RequestId(j)' = RequestId(j) /\ SentOK(j)
        BY <1>2, <1>5, <1>6, <1>7, <3>2
      <4>2. CASE WorkerOf(j) # w
        <5>1. sticky'[WorkerOf(j)] = sticky[WorkerOf(j)]
          BY <1>3, <2>2, <4>2
        <5> QED
          BY <4>1, <5>1 DEF SentOK
      <4>3. CASE WorkerOf(j) = w /\ sentTo[j] # {}
        <5>1. PICK k \in 1..n : q[k].request = RequestId(j) /\ sentTo[j] = {q[k].server}
          BY <1>3, <4>1, <4>3 DEF SentOK, q
        <5>2. PICK l \in DOMAIN t : t[l] = q[k]
          BY <1>6, <2>1, <5>1
        <5> QED
          BY <2>2, <4>1, <4>3, <5>1, <5>2 DEF SentOK
      <4>4. CASE sentTo[j] = {}
        BY <4>1, <4>4 DEF SentOK
      <4> QED
        BY <4>2, <4>3, <4>4
    <3> QED
      BY <3>1, <3>2
  <2> QED
    BY <1>1, <1>7, <2>3, <2>4 DEF StickyInv
<1>9. sentTo[i] = {} \/ \E k \in 1..n : q[k].request = r /\ sentTo[i] = {q[k].server}
  BY <1>3, <1>5 DEF SentOK
<1>10. CASE ToKnown(w, r, s)
  <2>1. PICK k \in 1..n :
           /\ q[k] = [request |-> r, server |-> s]
           /\ sticky' = [sticky EXCEPT ![w] = Append(RemoveAt(q, k), q[k])]
    BY <1>3, <1>10 DEF ToKnown
  <2> DEFINE t == Append(RemoveAt(q, k), q[k])
  <2>2. /\ t \in Seq(Entries) /\ Len(t) = n
        /\ \A j \in 1..n : t[j] = IF j < k THEN q[j]
                                  ELSE IF j < n THEN q[j + 1] ELSE q[k]
    BY <1>3, MovedToEnd
  <2>3. DOMAIN t = 1..n
    BY <2>2, LenProperties
  <2>4. sticky' = [sticky EXCEPT ![w] = t]
    BY <2>1
  <2>5. q[k].request = r /\ q[k].server = s
    BY <2>1
  <2> HIDE DEF t, q, r, w, n
  <2> DEFINE from == [j \in 1..n |-> IF j < k THEN j ELSE IF j < n THEN j + 1 ELSE k]
  <2>6. /\ \A j \in 1..n : from[j] \in 1..n /\ t[j] = q[from[j]]
        /\ \A j, l \in 1..n : from[j] = from[l] => j = l
        /\ \A j, l \in 1..n : j < l => from[j] < from[l] \/ from[l] = k
    <3>1. n \in Nat /\ k \in Nat /\ k <= n /\ k >= 1
      BY <1>3
    <3>2. ASSUME NEW j \in 1..n
          PROVE  from[j] \in 1..n /\ t[j] = q[from[j]]
      <4>1. from[j] = IF j < k THEN j ELSE IF j < n THEN j + 1 ELSE k
        OBVIOUS
      <4> HIDE DEF from
      <4> QED
        BY <2>2, <3>1, <4>1
    <3>3. ASSUME NEW j \in 1..n, NEW l \in 1..n
          PROVE  /\ from[j] = from[l] => j = l
                 /\ j < l => from[j] < from[l] \/ from[l] = k
      <4>1. /\ from[j] = IF j < k THEN j ELSE IF j < n THEN j + 1 ELSE k
            /\ from[l] = IF l < k THEN l ELSE IF l < n THEN l + 1 ELSE k
        OBVIOUS
      <4> HIDE DEF from
      <4> QED
        BY <3>1, <4>1
    <3> QED
      BY <3>2, <3>3
  <2>7. /\ \A l \in 1..n : \E j \in 1..n : from[j] = l
        /\ from[n] = k /\ n \in 1..n
    <3>1. n \in 1..n /\ k <= n /\ k \in Nat
      BY <1>3
    <3>2. from[n] = k
      BY <1>3, <3>1
    <3>3. ASSUME NEW l \in 1..n PROVE \E j \in 1..n : from[j] = l
      <4>1. CASE l < k
        BY <4>1
      <4>2. CASE l = k
        BY <3>1, <3>2, <4>2
      <4>3. CASE l > k
        <5>1. l - 1 \in 1..n /\ ~(l - 1 < k) /\ l - 1 < n /\ (l - 1) + 1 = l
          BY <1>3, <3>1, <4>3
        <5>2. from[l - 1] = l
          BY <5>1
        <5> QED
          BY <5>1, <5>2
      <4> QED
        BY <3>1, <4>1, <4>2, <4>3
    <3> QED
      BY <3>1, <3>2, <3>3
  <2> HIDE DEF from
  <2>8. \A j, l \in 1..n : t[j].request = t[l].request => j = l
    BY <1>5, <2>6
  <2>9. ASSUME NEW j \in 1..n, NEW l \in 1..n, j < l, t[j].request > Base
        PROVE  t[l].request > Base
    <3>1. q[from[j]].request > Base /\ from[j] \in 1..n /\ from[l] \in 1..n
      BY <2>6, <2>9
    <3>2. from[j] < from[l] \/ from[l] = k
      BY <2>6, <2>9
    <3>3. q[from[l]].request > Base
      BY <1>5, <1>6, <2>5, <3>1, <3>2
    <3> QED
      BY <2>6, <3>3
  <2>10. \A l \in 1..n : t[l].request <= Base + BatchSize
    BY <1>5, <2>6
  <2>11. \A l \in 1..n : \E j \in 1..n : t[j] = q[l]
    BY <2>6, <2>7
  <2>12. t[n].request = r /\ t[n].server = s
    BY <2>5, <2>6, <2>7
  <2>13. sentTo[i] \in {{}, {s}}
    BY <1>5, <1>9, <2>5
  <2>14. /\ \A j, l \in DOMAIN t : t[j].request = t[l].request => j = l
         /\ \A j, l \in DOMAIN t : j < l /\ t[j].request > Base => t[l].request > Base
         /\ \A l \in DOMAIN t : t[l].request <= Base + BatchSize
         /\ \A l \in 1..n : q[l].request > Base => \E j \in DOMAIN t : t[j] = q[l]
         /\ \E l \in DOMAIN t : t[l].request = r /\ t[l].server = s
    BY <2>3, <2>7, <2>8, <2>9, <2>10, <2>11, <2>12
  <2> QED
    BY <2>2, <2>4, <2>13, <2>14
<1>11. CASE ToLeast(w, r, s)
  <2> DEFINE e == [request |-> r, server |-> s]
  <2>1. /\ sticky' = [sticky EXCEPT ![w] = Append(Evicted(w), e)]
        /\ \A k \in 1..n : q[k].request # r
    BY <1>3, <1>11 DEF ToLeast
  <2>2. e \in Entries /\ e.request = r /\ e.server = s
    BY <1>6 DEF Entries
  <2>3. sentTo[i] = {}
    BY <1>9, <2>1
  <2> HIDE DEF e
  <2>4. CASE n < MaxCacheSize
    <3> DEFINE t == Append(q, e)
    <3>1. sticky' = [sticky EXCEPT ![w] = t]
      BY <2>1, <2>4 DEF Evicted
    <3>2. /\ t \in Seq(Entries) /\ Len(t) = n + 1
          /\ \A j \in 1..n : t[j] = q[j]
          /\ t[n + 1] = e
      BY <1>3, <2>2, AppendProperties
    <3>3. DOMAIN t = 1..n + 1
      BY <3>2, LenProperties
    <3> HIDE DEF t, q, r, w, n
    <3>4. \A j \in 1..n + 1 : j \in 1..n \/ j = n + 1
      BY <1>3
    <3>5. \A j \in 1..n + 1 : t[j].request = IF j = n + 1 THEN r ELSE q[j].request
      BY <1>3, <2>2, <3>2, <3>4
    <3>6. \A j, k \in 1..n + 1 : t[j].request = t[k].request => j = k
      BY <1>5, <2>1, <3>4, <3>5
    <3>7. \A j, k \in 1..n + 1 : j < k /\ t[j].request > Base => t[k].request > Base
      BY <1>3, <1>5, <1>6, <3>4, <3>5
    <3>8. \A k \in 1..n + 1 : t[k].request <= Base + BatchSize
      BY <1>5, <1>6, <3>4, <3>5
    <3>9. n + 1 \in 1..n + 1 /\ \A k \in 1..n : k \in 1..n + 1
      BY <1>3
    <3>10. \A k \in 1..n : \E j \in 1..n + 1 : t[j] = q[k]
      BY <3>2, <3>9
    <3> QED
      BY <2>2, <2>3, <3>1, <3>2, <3>3, <3>6, <3>7, <3>8, <3>9, <3>10
  <2>5. CASE ~(n < MaxCacheSize)
    <3> DEFINE t == Append(Tail(q), e)
    <3>1. sticky' = [sticky EXCEPT ![w] = t]
      BY <2>1, <2>5 DEF Evicted
    <3>2. q # <<>> /\ q[1].request <= Base
      <4>1. Len(sticky[w]) >= MaxCacheSize
        BY <1>3, <2>5, <1>1, BaseFacts
      <4>2. \A k \in DOMAIN sticky[w] : sticky[w][k].request # RequestId(i)
        BY <1>3, <2>1
      <4> QED
        BY <1>1, <1>3, <1>5, <4>1, <4>2, OldestIsOld
    <3>3. /\ t \in Seq(Entries) /\ Len(t) = n
          /\ \A j \in 1..n : t[j] = IF j < n THEN q[j + 1] ELSE e
      BY <1>3, <2>2, <3>2, TailAppended
    <3>4. DOMAIN t = 1..n /\ n > 0
      BY <1>3, <3>2, <3>3, LenProperties, EmptySeq
    <3> HIDE DEF t, q, r, w, n
    <3>5. \A j \in 1..n : j < n => j + 1 \in 1..n
      BY <1>3
    <3>6. \A j \in 1..n : j < n \/ j = n
      BY <1>3
    <3>7. \A j \in 1..n : t[j].request = IF j = n THEN r ELSE q[j + 1].request
      BY <1>3, <2>2, <3>3, <3>6
    <3>8. ASSUME NEW j \in 1..n, NEW k \in 1..n, t[j].request = t[k].request
          PROVE  j = k
      BY <1>3, <1>5, <2>1, <3>5, <3>6, <3>7, <3>8
    <3>9. ASSUME NEW j \in 1..n, NEW k \in 1..n, j < k, t[j].request > Base
          PROVE  t[k].request > Base
      <4>1. j < n
        BY <1>3, <3>9
      <4>2. CASE k = n
        BY <1>6, <3>7, <4>2
      <4>3. CASE k < n
        <5>1. j + 1 \in 1..n /\ k + 1 \in 1..n /\ j + 1 < k + 1
          BY <3>5, <3>9, <4>1, <4>3
        <5>2. t[j].request = q[j + 1].request /\ t[k].request = q[k + 1].request
          BY <1>3, <3>7, <4>1, <4>3
        <5> QED
          BY <1>5, <3>9, <5>1, <5>2
      <4> QED
        BY <3>6, <4>2, <4>3
    <3>10. \A k \in 1..n : t[k].request <= Base + BatchSize
      BY <1>5, <1>6, <3>5, <3>6, <3>7
    <3>11. ASSUME NEW k \in 1..n, q[k].request > Base
           PROVE  \E j \in 1..n : t[j] = q[k]
      <4>1. k # 1
        BY <1>4, <1>6, <3>2, <3>11
      <4>2. k - 1 \in 1..n /\ k - 1 < n /\ (k - 1) + 1 = k
        BY <1>3, <4>1
      <4>3. t[k - 1] = q[k]
        BY <3>3, <4>2
      <4> QED
        BY <4>2, <4>3
    <3>12. n \in 1..n /\ t[n] = e
      BY <1>3, <3>3, <3>4
    <3>13. /\ \A j, l \in DOMAIN t : t[j].request = t[l].request => j = l
           /\ \A j, l \in DOMAIN t : j < l /\ t[j].request > Base => t[l].request > Base
           /\ \A l \in DOMAIN t : t[l].request <= Base + BatchSize
           /\ \A l \in 1..n : q[l].request > Base => \E j \in DOMAIN t : t[j] = q[l]
           /\ \E l \in DOMAIN t : t[l].request = r /\ t[l].server = s
      BY <2>2, <3>4, <3>8, <3>9, <3>10, <3>11, <3>12
    <3> QED
      BY <2>3, <3>1, <3>3, <3>13
  <2> QED
    BY <2>4, <2>5
<1> QED
  BY <1>2, <1>10, <1>11

LEMMA NextSticky == IInv /\ StickyInv /\ [Next]_vars => StickyInv'
<1> SUFFICES ASSUME IInv, StickyInv, [Next]_vars PROVE StickyInv'
  OBVIOUS
<1>1. ASSUME UNCHANGED <<config, call, sticky>>,
             sentTo' = sentTo \/ sentTo' = [i \in Samples |-> {}],
             ~Running' => \A i \in Samples : sentTo'[i] = {}
      PROVE  StickyInv'
  <2>1. /\ Workers' = Workers /\ Base' = Base
        /\ \A i \in Samples : WorkerOf(i)' = WorkerOf(i) /\ RequestId(i)' = RequestId(i)
    BY <1>1 DEF Workers, Base, WorkerOf, RequestId, ChunkSize
  <2>2. \A w \in Workers : QueueOK(w)'
    BY <1>1, <2>1 DEF StickyInv, QueueOK
  <2>3. \A i \in Samples : SentOK(i)'
    BY <1>1, <2>1 DEF StickyInv, SentOK
  <2> QED
    BY <1>1, <2>1, <2>2, <2>3 DEF StickyInv
<1>2. ASSUME NEW updates \in 0..1, Generate(updates) PROVE StickyInv'
  <2>1. /\ phase = "idle" /\ call' = call + 1
        /\ UNCHANGED <<config, sticky, sentTo, agent>>
    BY <1>2 DEF Generate, routing
  <2>2. /\ call \in Nat /\ BatchSize \in Nat
        /\ sticky \in [Workers -> Seq(Entries)]
    <3>1. call \in 0..MaxCalls /\ sticky \in [Workers -> Seq(Entries)]
      BY DEF IInv, TypeOK, Entries
    <3>2. MaxCalls \in Nat /\ BatchSize \in Nat
      BY AgentAssumption
    <3> QED
      BY <3>1, <3>2
  <2>3. Base' = Base + BatchSize /\ Base \in Int /\ Workers' = Workers
    <3>1. Base' = call * BatchSize
      <4>1. Base' = (call' - 1) * BatchSize
        BY DEF Base
      <4>2. call' - 1 = call
        BY <2>1, <2>2
      <4> QED
        BY <4>1, <4>2
    <3>2. Base = (call - 1) * BatchSize
      BY DEF Base
    <3>3. /\ call * BatchSize = (call - 1) * BatchSize + BatchSize
          /\ (call - 1) * BatchSize \in Int
      BY <2>2
    <3> QED
      BY <2>1, <3>1, <3>2, <3>3 DEF Workers
  <2>4. ASSUME NEW w \in Workers PROVE QueueOK(w)'
    <3> DEFINE q == sticky[w]
    <3>1. /\ \A k \in DOMAIN q : q[k].request \in Nat
          /\ \A k \in DOMAIN q : q[k].request <= Base + BatchSize
          /\ \A j, k \in DOMAIN q : q[j].request = q[k].request => j = k
      <4>1. q \in Seq(Entries)
        BY <2>2
      <4>2. \A k \in DOMAIN q : q[k] \in Entries
        BY <4>1, LenProperties, ElementOfSeq
      <4> QED
        BY <4>2 DEF Entries, StickyInv, QueueOK
    <3>2. sticky'[w] = q
      BY <2>1
    <3> HIDE DEF q
    <3>3. \A k \in DOMAIN q : ~(q[k].request > Base') /\ q[k].request <= Base' + BatchSize
      BY <2>2, <2>3, <3>1
    <3> QED
      BY <3>1, <3>2, <3>3 DEF QueueOK
  <2>5. \A i \in Samples : SentOK(i)'
    BY <2>1 DEF SentOK, StickyInv, Generate, Running
  <2> QED
    BY <2>1, <2>3, <2>4, <2>5 DEF StickyInv, Generate, Running
<1>3. CASE \E s \in Servers : ReplicaStep(s)
  BY <1>1, <1>3 DEF ReplicaStep, WakeUp, Sleep, StickyInv, Running, trainer, routing
<1>4. CASE ManagerStep
  BY <1>1, <1>4 DEF ManagerStep, Dispatch, Collect, Fail, Return, StickyInv, Running,
                    trainer, routing
<1>5. ASSUME NEW i \in Samples, SampleStep(i) PROVE StickyInv'
  <2>1. CASE UNCHANGED routing
    BY <1>1, <1>5, <2>1, SampleFrame DEF routing, trainer, StickyInv, Running
  <2>2. CASE SendRequest(i)
    BY <2>2, SendSticky
  <2> QED
    BY <1>5, <2>1, <2>2, SampleFrame
<1>6. CASE UNCHANGED vars
  BY <1>1, <1>6 DEF StickyInv, Running, vars, trainer, routing
<1> QED
  BY <1>2, <1>3, <1>4, <1>5, <1>6 DEF Next, Terminated

-----------------------------------------------------------------------------
(***************************************************************************)
(* The theorems.                                                           *)
(***************************************************************************)

(***************************************************************************)
(* Every state of the agent loop is well typed.                            *)
(***************************************************************************)
THEOREM AgentTypeCorrect == Spec => []TypeOK
<1>1. IInv => TypeOK
  BY DEF IInv
<1> QED
  BY <1>1, Invariance, PTL

(***************************************************************************)
(* No engine answers a request with weights, or from prefixes, older than  *)
(* the policy: wake_up and sleep see to it, whatever the options.          *)
(***************************************************************************)
THEOREM GenerationIsOnPolicy == Spec => []OnPolicy
<1>1. IInv => OnPolicy
  <2> SUFFICES ASSUME IInv, NEW i \in Samples, agent[i].server # Nowhere
               PROVE  LET s == agent[i].server
                      IN  s \in awake /\ loaded[s] = policy /\ cached[s] \subseteq {policy}
    BY DEF OnPolicy
  <2>1. Running
    BY DEF IInv, PhaseInv, NewAgent
  <2>2. agent[i].server \in Servers
    BY DEF IInv, TypeOK
  <2> QED
    BY <2>1, <2>2 DEF IInv, EngineInv
<1> QED
  BY <1>1, Invariance, PTL

(***************************************************************************)
(* The new requests of a worker are spread evenly over the servers.        *)
(***************************************************************************)
THEOREM RequestsAreBalanced == Spec => []Balanced
<1>1. IInv => Balanced
  BY DEF IInv
<1> QED
  BY <1>1, Invariance, PTL

(***************************************************************************)
(* The batch comes back in the order of the prompts, and the masks of its  *)
(* rows fit the responses, in whatever order the coroutines finish.        *)
(***************************************************************************)
THEOREM RowsAreRight == Spec => []RowsMatch
<1>1. IInv => RowsMatch
  BY DEF IInv
<1> QED
  BY <1>1, Invariance, PTL

(***************************************************************************)
(* No sample takes more turns than it may; only an answer of the user, in  *)
(* the interactive mode, makes it longer than the server takes, and only   *)
(* then does the server refuse it; and every row of the batch fits into    *)
(* the columns for the prompts and for the responses.                      *)
(***************************************************************************)
THEOREM LimitsAreKept == Spec => []WithinLimits
<1>1. IInv => WithinLimits
  <2> SUFFICES ASSUME IInv PROVE WithinLimits
    OBVIOUS
  <2>1. ASSUME NEW i \in Samples
        PROVE  LET a == agent[i]
               IN  /\ config.maxAssistant # 0 => a.assistant <= config.maxAssistant
                   /\ config.maxUser # 0 => a.user <= config.maxUser
                   /\ Room(a) < 0 \/ a.state = "failed" => Overrun(a)
    <3>1. AgentOK(agent[i])
      BY DEF IInv, AgentInv
    <3>2. Room(agent[i]) \in Int
      BY <3>1, LenProperties, ConfigFacts DEF IInv, AgentOK, Agents, Room
    <3> QED
      BY <3>1, <3>2 DEF AgentOK, Turns, Lengths, Overrun
  <2> QED
    BY <2>1 DEF IInv, RowsFit, WithinLimits
<1> QED
  BY <1>1, Invariance, PTL

(***************************************************************************)
(* All turns of a sample go to one server: the cache holds the request of  *)
(* a sample as long as the sample needs it, though it is full of requests  *)
(* of earlier calls, and shared by all samples of the worker.              *)
(***************************************************************************)
THEOREM SessionsAreSticky == Spec => []Sticky
<1>1. Init => StickyInv
  <2>1. DOMAIN <<>> = {}
    OBVIOUS
  <2> QED
    BY <2>1, WorkerFacts, InitIInv DEF Init, StickyInv, QueueOK, SentOK
<1>2. StickyInv => Sticky
  <2> SUFFICES ASSUME StickyInv, NEW i \in Samples
               PROVE  Cardinality(sentTo[i]) <= 1
    BY DEF Sticky
  <2>1. sentTo[i] = {} \/ \E s : sentTo[i] = {s}
    BY DEF StickyInv, SentOK
  <2>2. CASE sentTo[i] = {}
    BY <2>2, FS_EmptySet
  <2>3. ASSUME NEW s, sentTo[i] = {s} PROVE Cardinality(sentTo[i]) <= 1
    <3>1. Cardinality({s}) = 1
      BY FS_Singleton
    <3> QED
      BY <2>3, <3>1
  <2> QED
    BY <2>1, <2>2, <2>3
<1> QED
  BY <1>1, <1>2, Invariance, NextSticky, PTL DEF Spec
=============================================================================
